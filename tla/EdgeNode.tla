------------------------------ MODULE EdgeNode ------------------------------
(***************************************************************************)
(* One edge node: the listener for deploy requests, the containers it      *)
(* starts and the reports it sends.  NATS calls the listener for one       *)
(* request after the other; a request that meets no subscriber is gone.    *)
(* The containers live in docker and outlive the node's process.           *)
(***************************************************************************)
EXTENDS Naturals, Sequences

CONSTANTS Requests,  \* the requests published to the node, each once
          Wasm,      \* the node's runtime is wasm
          None       \* nothing

ASSUME RequestsAssumption ==
  /\ \A q \in Requests : q.images \in Nat /\ q.image \in BOOLEAN
  /\ Wasm \in BOOLEAN
  /\ None \notin Requests
  /\ None \notin {"pending", "installing", "installed", "failed", "completed"}

\* What a LO puts into a request: it lists one image and leaves the field Image empty.
FromLO(d, rev) == [deployment |-> d, revision |-> rev, images |-> 1, image |-> FALSE]

VARIABLES todo,     \* the requests still to be published
          up,       \* the node's process runs
          inbox,    \* the messages its subscription holds
          job,      \* the request the listener works on: [request, part, step]
          docker,   \* the request that made the container of a name, or None
          orphans,  \* the requests whose docker run has outlived the process
          reports,  \* the reports on a request, oldest first
          cut,      \* the requests that were lost or cut off
          excused   \* the requests that the registry or docker failed, or a taken name

edgeVars == <<todo, up, inbox, job, docker, orphans, reports, cut, excused>>

Names == {q.revision : q \in Requests}    \* docker run --name <revision>
Steps == {"pending", "installing", "fetch", "run", "installed", "failed", "completed"}
Told == {"pending", "installing", "installed", "failed", "completed"}

EdgeTypeOK ==
  /\ todo \in SUBSET Requests
  /\ up \in BOOLEAN
  /\ inbox \in Seq(Requests)
  /\ job \in [request : Requests, part : Nat, step : Steps] \union {None}
  /\ docker \in [Names -> Requests \union {None}]
  /\ orphans \in SUBSET Requests
  /\ reports \in [Requests -> Seq(Told)]
  /\ cut \in SUBSET Requests
  /\ excused \in SUBSET Requests

EdgeInit ==
  /\ todo = Requests /\ up = TRUE /\ inbox = << >> /\ job = None
  /\ docker = [n \in Names |-> None]
  /\ reports = [q \in Requests |-> << >>]
  /\ orphans = {} /\ cut = {} /\ excused = {}

-----------------------------------------------------------------------------
(* Publisher and NATS.                                                     *)

\* At most once: without a subscriber, or with a broken connection, it is gone.
Publish(q) ==
  /\ q \in todo
  /\ todo' = todo \ {q}
  /\ \/ up /\ inbox' = Append(inbox, q) /\ UNCHANGED cut
     \/ cut' = cut \union {q} /\ UNCHANGED inbox
  /\ UNCHANGED <<up, job, docker, orphans, reports, excused>>

-----------------------------------------------------------------------------
(* The listener, and deployContainerd for each image of the request.       *)

\* Where the work on a request begins: the loop over the images may be empty.
First(q) == IF Wasm \/ q.images = 0 THEN "completed" ELSE "pending"

Receive ==
  /\ job = None /\ inbox # << >>
  /\ job' = [request |-> Head(inbox), part |-> 1, step |-> First(Head(inbox))]
  /\ inbox' = Tail(inbox)
  /\ UNCHANGED <<todo, up, docker, orphans, reports, cut, excused>>

At(step) == job # None /\ job.step = step
Say(s) == reports' = [reports EXCEPT ![job.request] = Append(@, s)]
Goto(step) == job' = [job EXCEPT !.step = step]

Pending ==
  /\ At("pending") /\ Say("pending") /\ Goto("installing")
  /\ UNCHANGED <<todo, up, inbox, docker, orphans, cut, excused>>

Installing ==
  /\ At("installing") /\ Say("installing") /\ Goto("fetch")
  /\ UNCHANGED <<todo, up, inbox, docker, orphans, cut, excused>>

\* The artifact is copied into the local store.
Fetch ==
  /\ At("fetch") /\ job.request.image /\ Goto("run")
  /\ UNCHANGED <<todo, up, inbox, docker, orphans, reports, cut, excused>>

\* An empty image names no repository, or the registry does not deliver.
FetchFails ==
  /\ At("fetch") /\ Goto("failed")
  /\ excused' = IF job.request.image THEN excused \union {job.request} ELSE excused
  /\ UNCHANGED <<todo, up, inbox, docker, orphans, reports, cut>>

Name == job.request.revision

\* Mutant: a taken name counts as done.
RunReuses ==
  /\ At("run") /\ Goto("installed")
  /\ docker' = IF docker[Name] = None THEN [docker EXCEPT ![Name] = job.request] ELSE docker
  /\ UNCHANGED <<todo, up, inbox, orphans, reports, cut, excused>>

\* docker run: the name must be free, whether its container still runs or not.
Run ==
  /\ At("run") /\ docker[Name] = None /\ Goto("installed")
  /\ docker' = [docker EXCEPT ![Name] = job.request]
  /\ UNCHANGED <<todo, up, inbox, orphans, reports, cut, excused>>

\* The name is taken, or docker fails, before or after it has made the container.
RunFails ==
  /\ At("run") /\ Goto("failed")
  /\ excused' = excused \union {job.request}
  /\ \/ UNCHANGED docker
     \/ docker[Name] = None /\ docker' = [docker EXCEPT ![Name] = job.request]
  /\ UNCHANGED <<todo, up, inbox, orphans, reports, cut>>

\* The loop takes the next image.
Installed ==
  /\ At("installed") /\ Say("installed")
  /\ IF job.part < job.request.images
     THEN job' = [job EXCEPT !.part = @ + 1, !.step = "pending"]
     ELSE Goto("completed")
  /\ UNCHANGED <<todo, up, inbox, docker, orphans, cut, excused>>

\* Mutant: the error's text is sent as the state.
FailedWithText ==
  /\ At("failed") /\ Say("docker run failed") /\ Goto("completed")
  /\ UNCHANGED <<todo, up, inbox, docker, orphans, cut, excused>>

\* Mutant: a failure does not end the loop.
FailedGoesOn ==
  /\ At("failed") /\ Say("failed")
  /\ IF job.part < job.request.images
     THEN job' = [job EXCEPT !.part = @ + 1, !.step = "pending"]
     ELSE Goto("completed")
  /\ UNCHANGED <<todo, up, inbox, docker, orphans, cut, excused>>

\* Mutant: a failure ends the callback.
FailedReturns ==
  /\ At("failed") /\ Say("failed") /\ job' = None
  /\ UNCHANGED <<todo, up, inbox, docker, orphans, cut, excused>>

\* The first failure ends the loop.
Failed ==
  /\ At("failed") /\ Say("failed") /\ Goto("completed")
  /\ UNCHANGED <<todo, up, inbox, docker, orphans, cut, excused>>

\* The last report says completed however the loop went, and the callback returns.
Completed ==
  /\ At("completed") /\ Say("completed") /\ job' = None
  /\ UNCHANGED <<todo, up, inbox, docker, orphans, cut, excused>>

-----------------------------------------------------------------------------
(* The process.  A container that ends keeps its name: nothing removes it. *)

Held == {inbox[i] : i \in 1 .. Len(inbox)} \union (IF job = None THEN {} ELSE {job.request})

\* What the subscription held goes with the process; a docker run may go on without it.
Die ==
  /\ up
  /\ up' = FALSE /\ inbox' = << >> /\ job' = None
  /\ cut' = cut \union Held
  /\ \/ UNCHANGED orphans
     \/ At("run") /\ orphans' = orphans \union {job.request}
  /\ UNCHANGED <<todo, docker, reports, excused>>

\* Mutant: the container that has the name is replaced.
OrphanReplaces(q) ==
  /\ q \in orphans
  /\ orphans' = orphans \ {q}
  /\ docker' = [docker EXCEPT ![q.revision] = q]
  /\ UNCHANGED <<todo, up, inbox, job, reports, cut, excused>>

\* A docker run that was left alone ends; nobody hears of it.
OrphanEnds(q) ==
  /\ q \in orphans
  /\ orphans' = orphans \ {q}
  /\ \/ UNCHANGED docker
     \/ docker[q.revision] = None /\ docker' = [docker EXCEPT ![q.revision] = q]
  /\ UNCHANGED <<todo, up, inbox, job, reports, cut, excused>>

\* It subscribes again and looks at nothing of what was before.
Restart ==
  /\ ~up /\ up' = TRUE
  /\ UNCHANGED <<todo, inbox, job, docker, orphans, reports, cut, excused>>

-----------------------------------------------------------------------------
Listener ==
  \/ Receive \/ Pending \/ Installing \/ Fetch \/ FetchFails
  \/ Run \/ RunFails \/ Installed \/ Failed \/ Completed

EdgeNext ==
  \/ Listener \/ Die \/ Restart
  \/ \E q \in Requests : Publish(q) \/ OrphanEnds(q)

EdgeSpec == EdgeInit /\ [][EdgeNext]_edgeVars

\* The callback runs, and the registry and docker answer it.
FairEdgeSpec == EdgeSpec /\ WF_edgeVars(Listener)

-----------------------------------------------------------------------------
\* A revision is installed once: over all requests and all images of a request, over
\* restarts, and although its container may have ended long ago.
InstalledOnce ==
  \A q, p \in Requests :
    \A i \in 1 .. Len(reports[q]), j \in 1 .. Len(reports[p]) :
      /\ q.revision = p.revision
      /\ reports[q][i] = "installed" /\ reports[p][j] = "installed"
      => q = p /\ i = j

\* What was reported installed is there: the container of the revision is the request's.
InstalledIsThere ==
  \A q \in Requests : \A i \in 1 .. Len(reports[q]) :
    reports[q][i] = "installed" => docker[q.revision] = q

\* A request that was delivered is answered, unless the process dies over it.
RequestsEnd ==
  \A q \in Requests :
    q \in Held ~> (q \in cut \/ \E i \in 1 .. Len(reports[q]) : reports[q][i] = "completed")

LastOf(s) == IF s = << >> THEN None ELSE s[Len(s)]

Reports == INSTANCE NodeReports WITH
  Keys <- Requests,
  Bare <- {q \in Requests : First(q) = "completed"},
  Imaged <- {q \in Requests : q.image},
  Several <- {q \in Requests : q.images > 1},
  said <- [q \in Requests |-> LastOf(reports[q])]

\* The listener says of a request what NodeReports allows, in that order.
ImplementsReports == Reports!ReportsSpec

\* A node that works, with a registry and a docker that work and a name that is free,
\* installs what it is asked to.
FailsForAReason ==
  \A q \in Requests : \A i \in 1 .. Len(reports[q]) :
    reports[q][i] = "failed" => q \in excused
=============================================================================
