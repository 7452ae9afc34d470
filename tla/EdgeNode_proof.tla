--------------------------- MODULE EdgeNode_proof ---------------------------
(***************************************************************************)
(* What a node's reports are worth, for any requests, runtimes and number  *)
(* of images, over any deaths of the process.                              *)
(***************************************************************************)
EXTENDS EdgeNode, SequenceTheorems, TLAPS

\* The container of the image in hand is there, and no request was told so yet.
JobIsNew ==
  job # None /\ job.step = "installed" =>
    /\ docker[job.request.revision] = job.request
    /\ \A q \in Requests : q.revision = job.request.revision =>
         \A i \in 1 .. Len(reports[q]) : reports[q][i] # "installed"

EdgeInv ==
  /\ EdgeTypeOK
  /\ JobIsNew
  /\ InstalledOnce
  /\ InstalledIsThere

-----------------------------------------------------------------------------
\* A job has a request, a part and a step.
LEMMA JobType ==
  ASSUME EdgeTypeOK, job # None
  PROVE  /\ job \in [request : Requests, part : Nat, step : Steps]
         /\ job.request \in Requests /\ job.part \in Nat /\ job.step \in Steps
         /\ job.request.revision \in Names
BY DEF EdgeTypeOK, Names

\* Goto changes the step of the job only.
LEMMA GotoJob ==
  ASSUME EdgeTypeOK, job # None, NEW s \in Steps, Goto(s)
  PROVE  /\ job' \in [request : Requests, part : Nat, step : Steps]
         /\ job'.request = job.request /\ job'.part = job.part /\ job'.step = s
BY JobType DEF Goto

\* A report is added behind those on the request; the other requests' stay.
LEMMA SayReports ==
  ASSUME EdgeTypeOK, job # None, NEW s \in Told, Say(s)
  PROVE  /\ reports' \in [Requests -> Seq(Told)]
         /\ \A q \in Requests : q # job.request => reports'[q] = reports[q]
         /\ reports'[job.request] = Append(reports[job.request], s)
         /\ Len(reports'[job.request]) = Len(reports[job.request]) + 1
         /\ \A i \in 1 .. Len(reports[job.request]) :
              reports'[job.request][i] = reports[job.request][i]
         /\ reports'[job.request][Len(reports[job.request]) + 1] = s
<1>1. job.request \in Requests /\ reports \in [Requests -> Seq(Told)]
  BY JobType DEF EdgeTypeOK
<1>2. /\ reports'[job.request] = Append(reports[job.request], s)
      /\ \A q \in Requests : q # job.request => reports'[q] = reports[q]
  BY <1>1 DEF Say
<1>3. /\ Append(reports[job.request], s) \in Seq(Told)
      /\ Len(Append(reports[job.request], s)) = Len(reports[job.request]) + 1
      /\ \A i \in 1 .. Len(reports[job.request]) :
           Append(reports[job.request], s)[i] = reports[job.request][i]
      /\ Append(reports[job.request], s)[Len(reports[job.request]) + 1] = s
  BY <1>1, AppendProperties
<1>4. reports' \in [Requests -> Seq(Told)]
  BY <1>1, <1>3 DEF Say
<1> QED
  BY <1>2, <1>3, <1>4

\* A report other than installed adds no installed.
LEMMA SayOther ==
  ASSUME EdgeTypeOK, job # None, NEW s \in Told \ {"installed"}, Say(s),
         NEW q \in Requests, NEW i \in 1 .. Len(reports'[q]), reports'[q][i] = "installed"
  PROVE  i \in 1 .. Len(reports[q]) /\ reports[q][i] = "installed"
<1>1. CASE q # job.request
  BY <1>1, SayReports
<1>2. CASE q = job.request
  <2>1. /\ Len(reports[q]) \in Nat
        /\ Len(reports'[q]) = Len(reports[q]) + 1
        /\ reports'[q][Len(reports[q]) + 1] = s
        /\ \A k \in 1 .. Len(reports[q]) : reports'[q][k] = reports[q][k]
    BY <1>2, SayReports, LenProperties DEF EdgeTypeOK
  <2>2. i \in 1 .. Len(reports[q])
    BY <2>1
  <2> QED
    BY <2>1, <2>2
<1> QED
  BY <1>1, <1>2

-----------------------------------------------------------------------------
LEMMA EdgeInitInv == EdgeInit => EdgeInv
<1> SUFFICES ASSUME EdgeInit PROVE EdgeInv
  OBVIOUS
<1>1. EdgeTypeOK
  <2>1. inbox \in Seq(Requests)
    BY EmptySeq DEF EdgeInit
  <2>2. reports \in [Requests -> Seq(Told)]
    BY EmptySeq DEF EdgeInit
  <2>3. up \in BOOLEAN
    BY DEF EdgeInit
  <2> QED
    BY <2>1, <2>2, <2>3 DEF EdgeInit, EdgeTypeOK
<1>2. \A q \in Requests : \A i \in 1 .. Len(reports[q]) : FALSE
  BY DEF EdgeInit
<1>3. JobIsNew
  BY DEF EdgeInit, JobIsNew
<1>4. InstalledOnce /\ InstalledIsThere
  BY <1>2 DEF InstalledOnce, InstalledIsThere
<1> QED
  BY <1>1, <1>3, <1>4 DEF EdgeInv

LEMMA EdgeTypeStep ==
  ASSUME EdgeTypeOK, [EdgeNext]_edgeVars
  PROVE  EdgeTypeOK'
<1> DEFINE Job == [request : Requests, part : Nat, step : Steps]
<1>a. todo \in SUBSET Requests /\ orphans \in SUBSET Requests /\ cut \in SUBSET Requests
      /\ excused \in SUBSET Requests
  BY DEF EdgeTypeOK
<1>b. inbox \in Seq(Requests) /\ docker \in [Names -> Requests \union {None}]
      /\ reports \in [Requests -> Seq(Told)] /\ up \in BOOLEAN /\ job \in Job \union {None}
  BY DEF EdgeTypeOK
\* A step of the listener that says something and goes to another step.
<1>1. ASSUME job # None, NEW s \in Told, Say(s), job' \in Job \union {None},
             UNCHANGED <<todo, up, inbox, docker, orphans, cut, excused>>
      PROVE  EdgeTypeOK'
  BY <1>a, <1>b, <1>1, SayReports DEF EdgeTypeOK
<1>2. ASSUME job # None, NEW s \in Steps, Goto(s) PROVE job' \in Job \union {None}
  BY <1>2, GotoJob
<1>3. ASSUME NEW q \in Requests, Publish(q) PROVE EdgeTypeOK'
  <2>1. inbox' \in Seq(Requests)
    <3>1. inbox' = Append(inbox, q) \/ inbox' = inbox
      BY <1>3, Zenon DEF Publish
    <3>2. Append(inbox, q) \in Seq(Requests)
      BY <1>b, AppendProperties
    <3> QED
      BY <1>b, <3>1, <3>2
  <2>2. cut' \in SUBSET Requests /\ todo' \in SUBSET Requests
    BY <1>a, <1>3 DEF Publish
  <2> QED
    BY <1>a, <1>b, <1>3, <2>1, <2>2 DEF Publish, EdgeTypeOK
<1>4. CASE Receive
  <2>1. Head(inbox) \in Requests /\ Tail(inbox) \in Seq(Requests)
    BY <1>b, <1>4, HeadTailProperties DEF Receive
  <2>2. First(Head(inbox)) \in Steps
    BY DEF First, Steps
  <2>3. job' \in Job
    BY <1>4, <2>1, <2>2 DEF Receive
  <2> QED
    BY <1>a, <1>b, <1>4, <2>1, <2>3 DEF Receive, EdgeTypeOK
<1>5. CASE Pending
  BY <1>1, <1>2, <1>5 DEF Pending, At, Steps, Told
<1>6. CASE Installing
  BY <1>1, <1>2, <1>6 DEF Installing, At, Steps, Told
<1>7. CASE Fetch
  <2>1. job' \in Job \union {None}
    BY <1>2, <1>7 DEF Fetch, At, Steps
  <2> QED
    BY <1>a, <1>b, <1>7, <2>1 DEF Fetch, EdgeTypeOK
<1>8. CASE FetchFails
  <2>1. job' \in Job \union {None}
    BY <1>2, <1>8 DEF FetchFails, At, Steps
  <2>2. excused' \in SUBSET Requests
    BY <1>a, <1>8, JobType DEF FetchFails, At
  <2> QED
    BY <1>a, <1>b, <1>8, <2>1, <2>2 DEF FetchFails, EdgeTypeOK
<1>9. CASE Run
  <2>1. job' \in Job \union {None}
    BY <1>2, <1>9 DEF Run, At, Steps
  <2>2. docker' \in [Names -> Requests \union {None}]
    BY <1>b, <1>9, JobType DEF Run, At
  <2> QED
    BY <1>a, <1>b, <1>9, <2>1, <2>2 DEF Run, EdgeTypeOK
<1>10. CASE RunFails
  <2>1. job' \in Job \union {None}
    BY <1>2, <1>10 DEF RunFails, At, Steps
  <2>2. docker' \in [Names -> Requests \union {None}]
    BY <1>b, <1>10, JobType DEF RunFails, At
  <2>3. excused' \in SUBSET Requests
    BY <1>a, <1>10, JobType DEF RunFails, At
  <2> QED
    BY <1>a, <1>b, <1>10, <2>1, <2>2, <2>3 DEF RunFails, EdgeTypeOK
<1>11. CASE Installed
  <2>1. job' \in Job \union {None}
    <3>1. CASE job.part < job.request.images
      <4>1. job' = [job EXCEPT !.part = job.part + 1, !.step = "pending"]
        BY <1>11, <3>1 DEF Installed
      <4>2. job \in Job /\ job.part + 1 \in Nat /\ "pending" \in Steps
        BY <1>11, JobType DEF Installed, At, Steps
      <4>3. job' \in Job
        BY <4>1, <4>2
      <4> QED
        BY <4>3
    <3>2. CASE ~(job.part < job.request.images)
      <4>1. Goto("completed")
        BY <1>11, <3>2 DEF Installed
      <4> QED
        BY <1>2, <1>11, <4>1, JobType DEF Installed, At, Steps
    <3> QED
      BY <3>1, <3>2
  <2> QED
    BY <1>1, <1>11, <2>1 DEF Installed, At, Told
<1>12. CASE Failed
  BY <1>1, <1>2, <1>12 DEF Failed, At, Steps, Told
<1>13. CASE Completed
  BY <1>1, <1>13 DEF Completed, At, Told
<1>14. CASE Die
  <2>1. Held \in SUBSET Requests
    BY <1>b, JobType DEF Held, EdgeTypeOK
  <2>2. inbox' \in Seq(Requests)
    BY <1>14, EmptySeq DEF Die
  <2>3. cut' \in SUBSET Requests
    BY <1>a, <1>14, <2>1 DEF Die
  <2>4. orphans' \in SUBSET Requests
    BY <1>a, <1>14, JobType DEF Die, At
  <2>5. up' \in BOOLEAN /\ job' = None
    BY <1>14 DEF Die
  <2> QED
    BY <1>a, <1>b, <1>14, <2>2, <2>3, <2>4, <2>5 DEF Die, EdgeTypeOK
<1>15. ASSUME NEW q \in Requests, OrphanEnds(q) PROVE EdgeTypeOK'
  <2>1. docker' \in [Names -> Requests \union {None}]
    BY <1>b, <1>15 DEF OrphanEnds, Names
  <2>2. orphans' \in SUBSET Requests
    BY <1>a, <1>15 DEF OrphanEnds
  <2> QED
    BY <1>a, <1>b, <1>15, <2>1, <2>2 DEF OrphanEnds, EdgeTypeOK
<1>16. CASE Restart
  <2>1. up' \in BOOLEAN
    BY <1>16 DEF Restart
  <2> QED
    BY <1>a, <1>b, <1>16, <2>1 DEF Restart, EdgeTypeOK
<1>17. CASE UNCHANGED edgeVars
  BY <1>a, <1>b, <1>17 DEF edgeVars, EdgeTypeOK
<1> QED
  BY <1>3, <1>4, <1>5, <1>6, <1>7, <1>8, <1>9, <1>10, <1>11, <1>12, <1>13, <1>14, <1>15,
     <1>16, <1>17 DEF EdgeNext, Listener

-----------------------------------------------------------------------------
\* A container keeps its name: no step gives a name that is taken to another request.
LEMMA NamesStay ==
  ASSUME EdgeTypeOK, [EdgeNext]_edgeVars, NEW n \in Names, docker[n] # None
  PROVE  docker'[n] = docker[n]
<1>0. docker \in [Names -> Requests \union {None}]
  BY DEF EdgeTypeOK
<1>1. CASE Run
  BY <1>0, <1>1, JobType DEF Run, At
<1>2. CASE RunFails
  BY <1>0, <1>2, JobType DEF RunFails, At
<1>3. ASSUME NEW q \in Requests, OrphanEnds(q) PROVE docker'[n] = docker[n]
  BY <1>0, <1>3 DEF OrphanEnds, Names
<1>4. ASSUME ~Run, ~RunFails, \A q \in Requests : ~OrphanEnds(q) PROVE docker' = docker
  BY <1>4 DEF EdgeNext, Listener, Publish, Receive, Pending, Installing, Fetch, FetchFails,
     Installed, Failed, Completed, Die, Restart, edgeVars
<1> QED
  BY <1>1, <1>2, <1>3, <1>4

\* Only the action Installed says that something is installed.
LEMMA OnlyInstalledSays ==
  ASSUME EdgeTypeOK, [EdgeNext]_edgeVars, ~Installed,
         NEW q \in Requests, NEW i \in 1 .. Len(reports'[q]), reports'[q][i] = "installed"
  PROVE  i \in 1 .. Len(reports[q]) /\ reports[q][i] = "installed"
<1>1. ASSUME UNCHANGED reports PROVE i \in 1 .. Len(reports[q]) /\ reports[q][i] = "installed"
  BY <1>1
<1>2. CASE Pending
  BY <1>2, SayOther DEF Pending, At, Told
<1>3. CASE Installing
  BY <1>3, SayOther DEF Installing, At, Told
<1>4. CASE Failed
  BY <1>4, SayOther DEF Failed, At, Told
<1>5. CASE Completed
  BY <1>5, SayOther DEF Completed, At, Told
<1>6. ASSUME ~Pending, ~Installing, ~Failed, ~Completed PROVE UNCHANGED reports
  BY <1>6 DEF EdgeNext, Listener, Publish, Receive, Fetch, FetchFails, Run, RunFails, Die,
     OrphanEnds, Restart, edgeVars
<1> QED
  BY <1>1, <1>2, <1>3, <1>4, <1>5, <1>6

\* What Installed says: one report more, behind those of its request.
LEMMA InstalledSays ==
  ASSUME EdgeTypeOK, Installed,
         NEW q \in Requests, NEW i \in 1 .. Len(reports'[q]), reports'[q][i] = "installed"
  PROVE  \/ i \in 1 .. Len(reports[q]) /\ reports[q][i] = "installed"
         \/ q = job.request /\ i = Len(reports[job.request]) + 1
<1>1. job # None /\ Say("installed")
  BY DEF Installed, At
<1>2. CASE q # job.request
  BY <1>1, <1>2, SayReports DEF Told
<1>3. CASE q = job.request
  <2>1. /\ Len(reports[q]) \in Nat
        /\ Len(reports'[q]) = Len(reports[q]) + 1
        /\ \A k \in 1 .. Len(reports[q]) : reports'[q][k] = reports[q][k]
    BY <1>1, <1>3, SayReports, LenProperties DEF EdgeTypeOK, Told
  <2>2. i \in 1 .. Len(reports[q]) \/ i = Len(reports[q]) + 1
    BY <2>1
  <2> QED
    BY <1>3, <2>1, <2>2
<1> QED
  BY <1>2, <1>3

LEMMA InstalledIsThereStep ==
  ASSUME EdgeInv, [EdgeNext]_edgeVars
  PROVE  InstalledIsThere'
<1> SUFFICES ASSUME NEW q \in Requests, NEW i \in 1 .. Len(reports'[q]),
                    reports'[q][i] = "installed"
             PROVE  docker'[q.revision] = q
  BY DEF InstalledIsThere
<1>0. EdgeTypeOK /\ q.revision \in Names /\ q # None
  BY RequestsAssumption DEF EdgeInv, Names
<1>1. ASSUME i \in 1 .. Len(reports[q]), reports[q][i] = "installed"
      PROVE  docker'[q.revision] = q
  <2>1. docker[q.revision] = q
    BY <1>1 DEF EdgeInv, InstalledIsThere
  <2> QED
    BY <1>0, <2>1, NamesStay
<1>2. CASE Installed
  <2>1. docker' = docker /\ job # None /\ job.step = "installed"
    BY <1>2 DEF Installed, At
  <2>2. docker[job.request.revision] = job.request
    BY <2>1 DEF EdgeInv, JobIsNew
  <2> QED
    BY <1>0, <1>1, <1>2, <2>1, <2>2, InstalledSays
<1> QED
  BY <1>0, <1>1, <1>2, OnlyInstalledSays

LEMMA InstalledOnceStep ==
  ASSUME EdgeInv, [EdgeNext]_edgeVars
  PROVE  InstalledOnce'
<1> SUFFICES ASSUME NEW q \in Requests, NEW p \in Requests,
                    NEW i \in 1 .. Len(reports'[q]), NEW j \in 1 .. Len(reports'[p]),
                    q.revision = p.revision,
                    reports'[q][i] = "installed", reports'[p][j] = "installed"
             PROVE  q = p /\ i = j
  BY DEF InstalledOnce
<1> DEFINE Old(r, k) == k \in 1 .. Len(reports[r]) /\ reports[r][k] = "installed"
           New(r, k) == r = job.request /\ k = Len(reports[job.request]) + 1
<1>0. EdgeTypeOK
  BY DEF EdgeInv
<1>1. ASSUME Old(q, i), Old(p, j) PROVE q = p /\ i = j
  BY <1>1 DEF EdgeInv, InstalledOnce
<1>2. CASE Installed
  <2>1. Old(q, i) \/ New(q, i)
    BY <1>0, <1>2, InstalledSays
  <2>2. Old(p, j) \/ New(p, j)
    BY <1>0, <1>2, InstalledSays
  <2>3. job # None /\ job.step = "installed"
    BY <1>2 DEF Installed, At
  <2>4. \A r \in Requests : r.revision = job.request.revision => \A k : ~Old(r, k)
    BY <2>3 DEF EdgeInv, JobIsNew
  <2>5. ~(Old(q, i) /\ New(p, j)) /\ ~(New(q, i) /\ Old(p, j))
    BY <2>4
  <2>6. New(q, i) /\ New(p, j) => q = p /\ i = j
    OBVIOUS
  <2> QED
    BY <1>1, <2>1, <2>2, <2>5, <2>6
<1>3. CASE ~Installed
  BY <1>0, <1>1, <1>3, OnlyInstalledSays
<1> QED
  BY <1>2, <1>3

LEMMA JobIsNewStep ==
  ASSUME EdgeInv, [EdgeNext]_edgeVars
  PROVE  JobIsNew'
<1>0. EdgeTypeOK
  BY DEF EdgeInv
\* A job that stays as it is, with its reports.
<1>1. ASSUME UNCHANGED <<job, reports>> PROVE JobIsNew'
  <2> SUFFICES ASSUME job # None, job.step = "installed"
               PROVE  docker'[job.request.revision] = job.request
    BY <1>1 DEF EdgeInv, JobIsNew
  <2>1. docker[job.request.revision] = job.request
    BY DEF EdgeInv, JobIsNew
  <2>2. job.request \in Requests /\ job.request.revision \in Names /\ job.request # None
    BY <1>0, JobType, RequestsAssumption
  <2> QED
    BY <1>0, <2>1, <2>2, NamesStay
<1>2. ASSUME job # None, NEW s \in Steps \ {"installed"}, Goto(s) PROVE JobIsNew'
  BY <1>0, <1>2, GotoJob DEF JobIsNew
<1>3. CASE Pending \/ Installing \/ Fetch \/ FetchFails \/ RunFails \/ Failed
  BY <1>2, <1>3 DEF Pending, Installing, Fetch, FetchFails, RunFails, Failed, At, Steps
<1>4. CASE Completed \/ Die
  BY <1>4 DEF Completed, Die, JobIsNew
<1>5. CASE Receive
  <2>1. job'.step = First(Head(inbox))
    BY <1>5 DEF Receive
  <2>2. First(Head(inbox)) # "installed"
    BY DEF First
  <2> QED
    BY <2>1, <2>2 DEF JobIsNew
<1>6. CASE Installed
  <2>1. job # None
    BY <1>6 DEF Installed, At
  <2>2. CASE job.part < job.request.images
    <3>1. job' = [job EXCEPT !.part = job.part + 1, !.step = "pending"]
      BY <1>6, <2>2 DEF Installed
    <3>2. job'.step = "pending"
      BY <1>0, <2>1, <3>1, JobType
    <3> QED
      BY <3>2 DEF JobIsNew
  <2>3. CASE ~(job.part < job.request.images)
    <3>1. Goto("completed")
      BY <1>6, <2>3 DEF Installed
    <3> QED
      BY <1>2, <2>1, <3>1 DEF Steps
  <2> QED
    BY <2>2, <2>3
<1>7. CASE Run
  <2>1. job # None /\ docker[Name] = None /\ Goto("installed") /\ UNCHANGED reports
        /\ docker' = [docker EXCEPT ![Name] = job.request]
    BY <1>7 DEF Run, At
  <2>2. job'.request = job.request /\ Name \in Names /\ Name = job.request.revision
    BY <1>0, <2>1, GotoJob, JobType DEF Steps, Name
  <2>3. docker'[Name] = job.request
    BY <1>0, <2>1, <2>2 DEF EdgeTypeOK
  <2>4. ASSUME NEW q \in Requests, q.revision = Name, NEW i \in 1 .. Len(reports[q])
        PROVE  reports[q][i] # "installed"
    <3>1. reports[q][i] = "installed" => docker[Name] = q
      BY <2>4 DEF EdgeInv, InstalledIsThere
    <3> QED
      BY <2>1, <3>1, RequestsAssumption
  <2> QED
    BY <2>1, <2>2, <2>3, <2>4 DEF JobIsNew
<1>8. CASE Restart \/ (\E q \in Requests : Publish(q) \/ OrphanEnds(q)) \/ UNCHANGED edgeVars
  BY <1>1, <1>8 DEF Restart, Publish, OrphanEnds, edgeVars
<1> QED
  BY <1>3, <1>4, <1>5, <1>6, <1>7, <1>8 DEF EdgeNext, Listener

\* The node's state has its types; an image is reported installed once per revision, and
\* the container of the name is the one of the request that was told so.
THEOREM EdgeInvHolds == EdgeSpec => []EdgeInv
<1>1. EdgeInit => EdgeInv
  BY EdgeInitInv
<1>2. EdgeInv /\ [EdgeNext]_edgeVars => EdgeInv'
  BY EdgeTypeStep, JobIsNewStep, InstalledOnceStep, InstalledIsThereStep DEF EdgeInv
<1> QED
  BY <1>1, <1>2, PTL DEF EdgeSpec

\* The types of a node's state.
THEOREM EdgeTypes == EdgeSpec => []EdgeTypeOK
<1>1. EdgeInv => EdgeTypeOK
  BY DEF EdgeInv
<1> QED
  BY <1>1, EdgeInvHolds, PTL

\* A revision is reported installed once, whatever is asked of the node and however often
\* it dies (docker run --name, edgenode.go).
THEOREM RevisionInstalledOnce == EdgeSpec => []InstalledOnce
<1>1. EdgeInv => InstalledOnce
  BY DEF EdgeInv
<1> QED
  BY <1>1, EdgeInvHolds, PTL

\* The container that a report calls installed is there and belongs to its request.
THEOREM InstalledStays == EdgeSpec => []InstalledIsThere
<1>1. EdgeInv => InstalledIsThere
  BY DEF EdgeInv
<1> QED
  BY <1>1, EdgeInvHolds, PTL

-----------------------------------------------------------------------------
(* The refinement: the listener says what NodeReports allows.              *)

\* A request is in one place: still to be published, waiting, or worked on.
InOnePlace ==
  /\ \A q \in todo : \A i \in 1 .. Len(inbox) : inbox[i] # q
  /\ \A i, j \in 1 .. Len(inbox) : inbox[i] = inbox[j] => i = j
  /\ job # None =>
       job.request \notin todo /\ \A i \in 1 .. Len(inbox) : inbox[i] # job.request

\* Nothing is said of a request before the listener has it.
Silent ==
  /\ \A q \in todo : reports[q] = << >>
  /\ \A i \in 1 .. Len(inbox) : reports[inbox[i]] = << >>

\* What was last said of a request when the listener is at a step of it.
SaidAt(q, step) ==
  CASE step = "pending" -> {None} \union (IF q.images > 1 THEN {"installed"} ELSE {})
    [] step = "installing" -> {"pending"}
    [] step \in {"fetch", "failed"} -> {"installing"}
    [] step \in {"run", "installed"} -> IF q.image THEN {"installing"} ELSE {}
    [] step = "completed" -> IF First(q) = "completed" THEN {None} ELSE {"installed", "failed"}

InStep ==
  job # None =>
    /\ job.part >= 1
    /\ job.step # "completed" => First(job.request) = "pending"
    /\ LastOf(reports[job.request]) \in SaidAt(job.request, job.step)

OrderInv == EdgeTypeOK /\ InOnePlace /\ Silent /\ InStep

LEMMA OrderInit == EdgeInit => OrderInv
<1> SUFFICES ASSUME EdgeInit PROVE OrderInv
  OBVIOUS
<1>1. EdgeTypeOK
  BY EdgeInitInv DEF EdgeInv
<1>2. job = None /\ Len(inbox) = 0 /\ \A q \in Requests : reports[q] = << >>
  BY DEF EdgeInit
<1>3. InOnePlace
  BY <1>2 DEF InOnePlace
<1>4. Silent
  BY <1>1, <1>2 DEF Silent, EdgeTypeOK
<1>5. InStep
  BY <1>2 DEF InStep
<1> QED
  BY <1>1, <1>3, <1>4, <1>5 DEF OrderInv

\* What was last said.
LEMMA LastSaid ==
  ASSUME EdgeTypeOK, job # None, NEW s \in Told, Say(s)
  PROVE  /\ LastOf(reports'[job.request]) = s
         /\ \A q \in Requests : q # job.request => LastOf(reports'[q]) = LastOf(reports[q])
<1>1. /\ Len(reports[job.request]) \in Nat
      /\ Len(reports'[job.request]) = Len(reports[job.request]) + 1
      /\ reports'[job.request][Len(reports[job.request]) + 1] = s
      /\ \A q \in Requests : q # job.request => reports'[q] = reports[q]
  BY SayReports, JobType, LenProperties DEF EdgeTypeOK
<1>2. reports'[job.request] # << >>
  BY <1>1
<1> QED
  BY <1>1, <1>2 DEF LastOf

\* The job after Installed: the next image of the same request, or its end.
LEMMA InstalledJob ==
  ASSUME EdgeTypeOK, Installed
  PROVE  /\ job # None /\ job'.request = job.request
         /\ \/ job.part < job.request.images /\ job'.step = "pending" /\ job'.part = job.part + 1
            \/ job'.step = "completed" /\ job'.part = job.part
<1>1. job # None
  BY DEF Installed, At
<1>2. job \in [request : Requests, part : Nat, step : Steps]
  BY <1>1, JobType
<1>3. CASE job.part < job.request.images
  <2>1. job' = [job EXCEPT !.part = job.part + 1, !.step = "pending"]
    BY <1>3 DEF Installed
  <2>2. job'.request = job.request /\ job'.step = "pending" /\ job'.part = job.part + 1
    BY <1>2, <2>1
  <2> QED
    BY <1>1, <1>3, <2>2
<1>4. CASE ~(job.part < job.request.images)
  <2>1. Goto("completed")
    BY <1>4 DEF Installed
  <2>2. /\ job' \in [request : Requests, part : Nat, step : Steps]
        /\ job'.request = job.request /\ job'.part = job.part /\ job'.step = "completed"
    BY <1>1, <2>1, GotoJob DEF Steps
  <2> QED
    BY <1>1, <2>2
<1> QED
  BY <1>3, <1>4

LEMMA InOnePlaceStep ==
  ASSUME OrderInv, [EdgeNext]_edgeVars
  PROVE  InOnePlace'
<1>0. inbox \in Seq(Requests) /\ Len(inbox) \in Nat
  BY LenProperties DEF OrderInv, EdgeTypeOK
\* A job that goes on, or ends, with the queue as it is.
<1>1. ASSUME UNCHANGED <<todo, inbox>>, job' = None \/ (job # None /\ job'.request = job.request)
      PROVE  InOnePlace'
  BY <1>1 DEF OrderInv, InOnePlace
<1>2. ASSUME NEW q \in Requests, Publish(q) PROVE InOnePlace'
  <2>1. q \in todo /\ todo' = todo \ {q} /\ job' = job
    BY <1>2 DEF Publish
  <2>2. CASE inbox' = inbox
    BY <2>1, <2>2 DEF OrderInv, InOnePlace
  <2>3. CASE inbox' = Append(inbox, q)
    <3>1. /\ Len(inbox') = Len(inbox) + 1 /\ inbox'[Len(inbox) + 1] = q
          /\ \A i \in 1 .. Len(inbox) : inbox'[i] = inbox[i]
      BY <1>0, <2>3, AppendProperties
    <3>2. \A i \in 1 .. Len(inbox') : i \in 1 .. Len(inbox) \/ i = Len(inbox) + 1
      BY <1>0, <3>1
    <3>3. \A i \in 1 .. Len(inbox) : inbox[i] # q
      BY <2>1 DEF OrderInv, InOnePlace
    <3> QED
      BY <2>1, <3>1, <3>2, <3>3 DEF OrderInv, InOnePlace
  <2> QED
    BY <1>2, <2>2, <2>3, Zenon DEF Publish
<1>3. CASE Receive
  <2>1. /\ todo' = todo /\ inbox # << >> /\ inbox' = Tail(inbox)
        /\ job'.request = Head(inbox)
    <3>1. job' = [request |-> Head(inbox), part |-> 1, step |-> First(Head(inbox))]
      BY <1>3 DEF Receive
    <3>2. Head(inbox) \in Requests /\ First(Head(inbox)) \in Steps
      BY <1>0, <1>3, HeadTailProperties DEF Receive, First, Steps
    <3>3. todo' = todo /\ inbox # << >> /\ inbox' = Tail(inbox)
      BY <1>3 DEF Receive
    <3> QED
      BY <3>1, <3>2, <3>3
  <2>2. /\ Len(inbox) >= 1 /\ Len(inbox') = Len(inbox) - 1 /\ Head(inbox) = inbox[1]
        /\ \A i \in 1 .. Len(inbox') : inbox'[i] = inbox[i + 1]
    BY <1>0, <2>1, HeadTailProperties
  <2>3. \A i \in 1 .. Len(inbox') : i \in Nat /\ i + 1 \in 1 .. Len(inbox) /\ i + 1 # 1
    BY <1>0, <2>2
  <2>4. 1 \in 1 .. Len(inbox)
    BY <1>0, <2>2
  <2> QED
    BY <2>1, <2>2, <2>3, <2>4 DEF OrderInv, InOnePlace
<1>4. CASE Die
  <2>1. todo' = todo /\ job' = None /\ Len(inbox') = 0
    BY <1>4 DEF Die
  <2> QED
    BY <2>1 DEF InOnePlace
<1>5. CASE Pending \/ Installing \/ Fetch \/ FetchFails \/ Run \/ RunFails \/ Failed
  <2>1. job # None /\ UNCHANGED <<todo, inbox>> /\ \E s \in Steps : Goto(s)
    BY <1>5 DEF Pending, Installing, Fetch, FetchFails, Run, RunFails, Failed, At, Steps
  <2>2. job'.request = job.request
    BY <2>1, GotoJob DEF OrderInv
  <2> QED
    BY <1>1, <2>1, <2>2
<1>6. CASE Installed
  <2>1. job # None /\ UNCHANGED <<todo, inbox>> /\ EdgeTypeOK
    BY <1>6 DEF Installed, At, OrderInv
  <2>2. job'.request = job.request
    BY <1>6, <2>1, InstalledJob
  <2> QED
    BY <1>1, <2>1, <2>2
<1>7. CASE Completed
  BY <1>1, <1>7 DEF Completed
<1>8. CASE Restart \/ (\E q \in Requests : OrphanEnds(q)) \/ UNCHANGED edgeVars
  <2>1. UNCHANGED <<todo, inbox, job>>
    BY <1>8 DEF Restart, OrphanEnds, edgeVars
  <2> QED
    BY <1>1, <2>1
<1> QED
  BY <1>2, <1>3, <1>4, <1>5, <1>6, <1>7, <1>8 DEF EdgeNext, Listener

LEMMA SilentStep ==
  ASSUME OrderInv, [EdgeNext]_edgeVars
  PROVE  Silent'
<1>0. EdgeTypeOK /\ inbox \in Seq(Requests) /\ Len(inbox) \in Nat /\ todo \subseteq Requests
  BY LenProperties DEF OrderInv, EdgeTypeOK
<1>1. ASSUME UNCHANGED <<todo, inbox, reports>> PROVE Silent'
  BY <1>1 DEF OrderInv, Silent
\* A report is on the job's request, which is in neither.
<1>2. ASSUME job # None, NEW s \in Told, Say(s), UNCHANGED <<todo, inbox>> PROVE Silent'
  <2>1. \A q \in Requests : q # job.request => reports'[q] = reports[q]
    BY <1>0, <1>2, SayReports
  <2>2. \A q \in todo : q \in Requests /\ q # job.request /\ reports[q] = << >>
    BY <1>0, <1>2 DEF OrderInv, InOnePlace, Silent
  <2>3. \A i \in 1 .. Len(inbox) :
          inbox[i] \in Requests /\ inbox[i] # job.request /\ reports[inbox[i]] = << >>
    BY <1>0, <1>2, ElementOfSeq DEF OrderInv, InOnePlace, Silent
  <2> QED
    BY <1>2, <2>1, <2>2, <2>3 DEF Silent
<1>3. ASSUME NEW q \in Requests, Publish(q) PROVE Silent'
  <2>1. q \in todo /\ todo' = todo \ {q} /\ reports' = reports
    BY <1>3 DEF Publish
  <2>2. CASE inbox' = inbox
    BY <2>1, <2>2 DEF OrderInv, Silent
  <2>3. CASE inbox' = Append(inbox, q)
    <3>1. /\ Len(inbox') = Len(inbox) + 1 /\ inbox'[Len(inbox) + 1] = q
          /\ \A i \in 1 .. Len(inbox) : inbox'[i] = inbox[i]
      BY <1>0, <2>3, AppendProperties
    <3>2. \A i \in 1 .. Len(inbox') : i \in 1 .. Len(inbox) \/ i = Len(inbox) + 1
      BY <1>0, <3>1
    <3> QED
      BY <2>1, <3>1, <3>2 DEF OrderInv, Silent
  <2> QED
    BY <1>3, <2>2, <2>3, Zenon DEF Publish
<1>4. CASE Receive
  <2>1. todo' = todo /\ inbox # << >> /\ inbox' = Tail(inbox) /\ reports' = reports
    BY <1>4 DEF Receive
  <2>2. /\ Len(inbox') = Len(inbox) - 1
        /\ \A i \in 1 .. Len(inbox') : inbox'[i] = inbox[i + 1]
    BY <1>0, <2>1, HeadTailProperties
  <2>3. \A i \in 1 .. Len(inbox') : i + 1 \in 1 .. Len(inbox)
    BY <1>0, <2>2
  <2> QED
    BY <2>1, <2>2, <2>3 DEF OrderInv, Silent
<1>5. CASE Die
  <2>1. todo' = todo /\ reports' = reports /\ Len(inbox') = 0
    BY <1>5 DEF Die
  <2> QED
    BY <2>1 DEF OrderInv, Silent
<1>6. CASE Pending
  BY <1>2, <1>6 DEF Pending, At, Told
<1>7. CASE Installing
  BY <1>2, <1>7 DEF Installing, At, Told
<1>8. CASE Installed
  BY <1>2, <1>8 DEF Installed, At, Told
<1>9. CASE Failed
  BY <1>2, <1>9 DEF Failed, At, Told
<1>10. CASE Completed
  BY <1>2, <1>10 DEF Completed, At, Told
<1>11. CASE \/ Fetch \/ FetchFails \/ Run \/ RunFails \/ Restart
            \/ (\E q \in Requests : OrphanEnds(q)) \/ UNCHANGED edgeVars
  BY <1>1, <1>11 DEF Fetch, FetchFails, Run, RunFails, Restart, OrphanEnds, edgeVars
<1> QED
  BY <1>3, <1>4, <1>5, <1>6, <1>7, <1>8, <1>9, <1>10, <1>11 DEF EdgeNext, Listener

LEMMA InStepStep ==
  ASSUME OrderInv, [EdgeNext]_edgeVars
  PROVE  InStep'
<1> DEFINE q == job.request
           last == LastOf(reports[job.request])
<1>0. EdgeTypeOK
  BY DEF OrderInv
<1>1. ASSUME UNCHANGED <<job, reports>> PROVE InStep'
  BY <1>1 DEF OrderInv, InStep, LastOf
\* The job as it is.
<1>2. ASSUME job # None
      PROVE  job.part \in Nat /\ job.part >= 1 /\ q \in Requests /\ q.images \in Nat
  BY <1>0, <1>2, JobType, RequestsAssumption DEF OrderInv, InStep
<1>3. ASSUME job # None, job.step # "completed" PROVE First(q) = "pending"
  BY <1>3 DEF OrderInv, InStep
<1>4. ASSUME job # None PROVE last \in SaidAt(q, job.step)
  BY <1>4 DEF OrderInv, InStep
\* The next step of the same job, with or without a report.
<1>5. ASSUME job # None, job.step # "completed", NEW t \in Steps, Goto(t),
             NEW l, LastOf(reports'[q]) = l, l \in SaidAt(q, t)
      PROVE  InStep'
  <2>1. job'.request = q /\ job'.part = job.part /\ job'.step = t
    BY <1>0, <1>5, GotoJob
  <2> QED
    BY <1>2, <1>3, <1>5, <2>1 DEF InStep
<1>6. CASE Receive
  <2>1. /\ inbox # << >> /\ reports' = reports
        /\ job' = [request |-> Head(inbox), part |-> 1, step |-> First(Head(inbox))]
    BY <1>6 DEF Receive
  <2>2. Head(inbox) = inbox[1] /\ 1 \in 1 .. Len(inbox)
    BY <1>0, <2>1, HeadTailProperties, EmptySeq, LenProperties DEF EdgeTypeOK
  <2>3. LastOf(reports[Head(inbox)]) = None
    BY <2>2 DEF OrderInv, Silent, LastOf
  <2>4. job'.request = Head(inbox) /\ job'.part = 1 /\ job'.step = First(Head(inbox))
    BY <2>1
  <2>5. None \in SaidAt(Head(inbox), First(Head(inbox)))
    BY DEF SaidAt, First
  <2> QED
    BY <2>1, <2>3, <2>4, <2>5 DEF InStep, First
<1>7. CASE Pending
  <2>1. job # None /\ job.step = "pending" /\ Say("pending") /\ Goto("installing")
    BY <1>7 DEF Pending, At
  <2>2. LastOf(reports'[q]) = "pending"
    BY <1>0, <2>1, LastSaid DEF Told
  <2> QED
    BY <1>5, <2>1, <2>2 DEF SaidAt, Steps
<1>8. CASE Installing
  <2>1. job # None /\ job.step = "installing" /\ Say("installing") /\ Goto("fetch")
    BY <1>8 DEF Installing, At
  <2>2. LastOf(reports'[q]) = "installing"
    BY <1>0, <2>1, LastSaid DEF Told
  <2> QED
    BY <1>5, <2>1, <2>2 DEF SaidAt, Steps
<1>9. CASE Fetch
  <2>1. job # None /\ job.step = "fetch" /\ q.image /\ Goto("run") /\ reports' = reports
    BY <1>9 DEF Fetch, At
  <2>2. last = "installing"
    BY <1>4, <2>1 DEF SaidAt
  <2> QED
    BY <1>5, <2>1, <2>2 DEF SaidAt, Steps
<1>10. CASE FetchFails
  <2>1. job # None /\ job.step = "fetch" /\ Goto("failed") /\ reports' = reports
    BY <1>10 DEF FetchFails, At
  <2>2. last = "installing"
    BY <1>4, <2>1 DEF SaidAt
  <2> QED
    BY <1>5, <2>1, <2>2 DEF SaidAt, Steps
<1>11. CASE Run
  <2>1. job # None /\ job.step = "run" /\ Goto("installed") /\ reports' = reports
    BY <1>11 DEF Run, At
  <2>2. last \in SaidAt(q, "installed")
    BY <1>4, <2>1 DEF SaidAt
  <2> QED
    BY <1>5, <2>1, <2>2 DEF Steps
<1>12. CASE RunFails
  <2>1. job # None /\ job.step = "run" /\ Goto("failed") /\ reports' = reports
    BY <1>12 DEF RunFails, At
  <2>2. last = "installing"
    BY <1>4, <2>1 DEF SaidAt
  <2> QED
    BY <1>5, <2>1, <2>2 DEF SaidAt, Steps
<1>13. CASE Installed
  <2>1. job # None /\ job.step = "installed" /\ Say("installed")
    BY <1>13 DEF Installed, At
  <2>2. LastOf(reports'[q]) = "installed" /\ job'.request = q
    BY <1>0, <1>13, <2>1, LastSaid, InstalledJob DEF Told
  <2>3. First(q) = "pending"
    BY <1>3, <2>1
  <2>4. CASE job.part < q.images /\ job'.step = "pending" /\ job'.part = job.part + 1
    <3>1. q.images > 1 /\ job'.part >= 1
      BY <1>2, <2>1, <2>4
    <3>2. "installed" \in SaidAt(q, "pending")
      BY <3>1 DEF SaidAt
    <3> QED
      BY <2>2, <2>3, <2>4, <3>1, <3>2 DEF InStep
  <2>5. CASE job'.step = "completed" /\ job'.part = job.part
    <3>1. "installed" \in SaidAt(q, "completed")
      BY <2>3 DEF SaidAt
    <3> QED
      BY <1>2, <2>1, <2>2, <2>5, <3>1 DEF InStep
  <2> QED
    BY <1>0, <1>13, <2>4, <2>5, InstalledJob
<1>14. CASE Failed
  <2>1. job # None /\ job.step = "failed" /\ Say("failed") /\ Goto("completed")
    BY <1>14 DEF Failed, At
  <2>2. LastOf(reports'[q]) = "failed"
    BY <1>0, <2>1, LastSaid DEF Told
  <2>3. First(q) = "pending"
    BY <1>3, <2>1
  <2>4. "failed" \in SaidAt(q, "completed")
    BY <2>3 DEF SaidAt
  <2> QED
    BY <1>5, <2>1, <2>2, <2>4 DEF Steps
<1>15. CASE Completed \/ Die
  BY <1>15 DEF Completed, Die, InStep
<1>16. CASE Restart \/ (\E r \in Requests : Publish(r) \/ OrphanEnds(r)) \/ UNCHANGED edgeVars
  BY <1>1, <1>16 DEF Restart, Publish, OrphanEnds, edgeVars
<1> QED
  BY <1>6, <1>7, <1>8, <1>9, <1>10, <1>11, <1>12, <1>13, <1>14, <1>15, <1>16
     DEF EdgeNext, Listener

-----------------------------------------------------------------------------
\* A report that NodeReports allows is a step of it.
LEMMA SayMaps ==
  ASSUME EdgeTypeOK, job # None, NEW s \in Told, Say(s),
         s \in Reports!After(job.request, LastOf(reports[job.request]))
  PROVE  \E k \in Requests : Reports!Say(k)
<1> DEFINE said == [q \in Requests |-> LastOf(reports[q])]
           said1 == [q \in Requests |-> LastOf(reports'[q])]
<1>1. job.request \in Requests
  BY JobType
<1>2. said1 = [said EXCEPT ![job.request] = s]
  <2>1. \A q \in Requests : said1[q] = [said EXCEPT ![job.request] = s][q]
    BY <1>1, LastSaid
  <2> QED
    BY <2>1
<1>3. said[job.request] = LastOf(reports[job.request])
  BY <1>1
<1>4. Reports!Say(job.request)
  BY <1>1, <1>2, <1>3 DEF Reports!Say
<1> QED
  BY <1>1, <1>4

\* Whatever the listener does is a report that NodeReports allows, or no report.
LEMMA ReportsStep ==
  ASSUME OrderInv, [EdgeNext]_edgeVars
  PROVE  [\E k \in Requests : Reports!Say(k)]_([q \in Requests |-> LastOf(reports[q])])
<1> DEFINE q == job.request
           last == LastOf(reports[job.request])
           Bare == {r \in Requests : First(r) = "completed"}
<1>0. EdgeTypeOK
  BY DEF OrderInv
<1>1. ASSUME UNCHANGED reports
      PROVE  UNCHANGED [r \in Requests |-> LastOf(reports[r])]
  BY <1>1 DEF LastOf
<1>2. ASSUME job # None
      PROVE  /\ last \in SaidAt(q, job.step) /\ q \in Requests
             /\ job.step # "completed" => First(q) = "pending"
  BY <1>0, <1>2, JobType DEF OrderInv, InStep
<1>3. CASE Pending
  <2>1. job # None /\ job.step = "pending" /\ Say("pending")
    BY <1>3 DEF Pending, At
  <2>2. last = None \/ (last = "installed" /\ q.images > 1)
    BY <1>2, <2>1 DEF SaidAt
  <2>3. "pending" \in Reports!After(q, last)
    BY <1>2, <2>1, <2>2, RequestsAssumption DEF Reports!After
  <2> QED
    BY <1>0, <2>1, <2>3, SayMaps DEF Told
<1>4. CASE Installing
  <2>1. job # None /\ job.step = "installing" /\ Say("installing")
    BY <1>4 DEF Installing, At
  <2>2. last = "pending"
    BY <1>2, <2>1 DEF SaidAt
  <2>3. "installing" \in Reports!After(q, last)
    BY <2>2, RequestsAssumption DEF Reports!After
  <2> QED
    BY <1>0, <2>1, <2>3, SayMaps DEF Told
<1>5. CASE Installed
  <2>1. job # None /\ job.step = "installed" /\ Say("installed")
    BY <1>5 DEF Installed, At
  <2>2. last = "installing" /\ q.image /\ q \in Requests
    BY <1>2, <2>1 DEF SaidAt
  <2>3. "installed" \in Reports!After(q, last)
    BY <2>2, RequestsAssumption DEF Reports!After
  <2> QED
    BY <1>0, <2>1, <2>3, SayMaps DEF Told
<1>6. CASE Failed
  <2>1. job # None /\ job.step = "failed" /\ Say("failed")
    BY <1>6 DEF Failed, At
  <2>2. last = "installing"
    BY <1>2, <2>1 DEF SaidAt
  <2>3. "failed" \in Reports!After(q, last)
    BY <2>2, RequestsAssumption DEF Reports!After
  <2> QED
    BY <1>0, <2>1, <2>3, SayMaps DEF Told
<1>7. CASE Completed
  <2>1. job # None /\ job.step = "completed" /\ Say("completed")
    BY <1>7 DEF Completed, At
  <2>2. (last = None /\ q \in Bare) \/ last \in {"installed", "failed"}
    BY <1>2, <2>1 DEF SaidAt
  <2>3. "completed" \in Reports!After(q, last)
    BY <2>2, RequestsAssumption DEF Reports!After
  <2> QED
    BY <1>0, <2>1, <2>3, SayMaps DEF Told
<1>8. ASSUME ~Pending, ~Installing, ~Installed, ~Failed, ~Completed
      PROVE  UNCHANGED reports
  BY <1>8 DEF EdgeNext, Listener, Publish, Receive, Fetch, FetchFails, Run, RunFails, Die,
     OrphanEnds, Restart, edgeVars
<1> QED
  BY <1>1, <1>3, <1>4, <1>5, <1>6, <1>7, <1>8

LEMMA ReportsInitMaps == EdgeInit => Reports!ReportsInit
<1> SUFFICES ASSUME EdgeInit PROVE Reports!ReportsInit
  OBVIOUS
<1>1. \A q \in Requests : LastOf(reports[q]) = None
  BY DEF EdgeInit, LastOf
<1>2. [q \in Requests |-> LastOf(reports[q])] = [q \in Requests |-> None]
  BY <1>1
<1> QED
  BY <1>2 DEF Reports!ReportsInit

\* The listener is where its reports say it is.
THEOREM OrderInvHolds == EdgeSpec => []OrderInv
<1>1. EdgeInit => OrderInv
  BY OrderInit
<1>2. OrderInv /\ [EdgeNext]_edgeVars => OrderInv'
  BY EdgeTypeStep, InOnePlaceStep, SilentStep, InStepStep DEF OrderInv
<1> QED
  BY <1>1, <1>2, PTL DEF EdgeSpec

\* The node implements NodeReports: what it says of a request, over any deaths and with
\* any number of images, is what DeploymentStatus takes its nodes to say.
THEOREM EdgeImplementsReports == EdgeSpec => ImplementsReports
<1>1. EdgeInit => Reports!ReportsInit
  BY ReportsInitMaps
<1>2. OrderInv /\ [EdgeNext]_edgeVars =>
        [\E k \in Requests : Reports!Say(k)]_([q \in Requests |-> LastOf(reports[q])])
  BY ReportsStep
<1> QED
  BY <1>1, <1>2, OrderInvHolds, PTL DEF EdgeSpec, ImplementsReports, Reports!ReportsSpec
-----------------------------------------------------------------------------
(* Why a node fails: the empty image of a LO's request, and nothing else.  *)

\* Only a request that names its image gets past the artifact; one that names it fails
\* for the registry, docker or a taken name only.
JobHasReason ==
  job # None =>
    /\ job.step \in {"run", "installed"} => job.request.image
    /\ job.step = "failed" /\ job.request.image => job.request \in excused

MadeForImages ==
  /\ \A q \in orphans : q.image
  /\ \A n \in Names : docker[n] # None => docker[n].image

SaidForReason ==
  \A q \in Requests : \A i \in 1 .. Len(reports[q]) :
    /\ reports[q][i] = "failed" /\ q.image => q \in excused
    /\ reports[q][i] = "installed" => q.image

ReasonInv == EdgeTypeOK /\ JobHasReason /\ MadeForImages /\ SaidForReason

\* Whatever is said, the earlier reports stay and one at most comes behind them.
LEMMA SaysAtMostOne ==
  ASSUME EdgeTypeOK, job # None, NEW s \in Told, Say(s),
         NEW q \in Requests, NEW i \in 1 .. Len(reports'[q])
  PROVE  \/ i \in 1 .. Len(reports[q]) /\ reports'[q][i] = reports[q][i]
         \/ q = job.request /\ reports'[q][i] = s
<1>1. CASE q # job.request
  BY <1>1, SayReports
<1>2. CASE q = job.request
  <2>1. /\ Len(reports[q]) \in Nat
        /\ Len(reports'[q]) = Len(reports[q]) + 1
        /\ reports'[q][Len(reports[q]) + 1] = s
        /\ \A k \in 1 .. Len(reports[q]) : reports'[q][k] = reports[q][k]
    BY <1>2, SayReports, LenProperties DEF EdgeTypeOK
  <2>2. i \in 1 .. Len(reports[q]) \/ i = Len(reports[q]) + 1
    BY <2>1
  <2> QED
    BY <1>2, <2>1, <2>2
<1> QED
  BY <1>1, <1>2

\* What the registry and docker failed stays noted.
LEMMA ExcusedGrows ==
  ASSUME [EdgeNext]_edgeVars
  PROVE  excused \subseteq excused'
<1>1. CASE FetchFails
  BY <1>1 DEF FetchFails
<1>2. CASE RunFails
  BY <1>2 DEF RunFails
<1>3. ASSUME ~FetchFails, ~RunFails PROVE excused' = excused
  BY <1>3 DEF EdgeNext, Listener, Publish, OrphanEnds, Receive, Pending, Installing, Fetch,
     Run, Installed, Failed, Completed, Die, Restart, edgeVars
<1> QED
  BY <1>1, <1>2, <1>3

LEMMA JobHasReasonStep ==
  ASSUME ReasonInv, [EdgeNext]_edgeVars
  PROVE  JobHasReason'
<1>0. EdgeTypeOK /\ JobHasReason
  BY DEF ReasonInv
<1>1. CASE Receive
  <2>1. /\ job'.step = First(Head(inbox))
        /\ First(Head(inbox)) \in {"pending", "completed"}
    BY <1>1 DEF Receive, First
  <2> QED
    BY <2>1 DEF JobHasReason
<1>2. CASE Pending
  BY <1>0, <1>2, GotoJob DEF Pending, At, JobHasReason, Steps
<1>3. CASE Installing
  BY <1>0, <1>3, GotoJob DEF Installing, At, JobHasReason, Steps
<1>4. CASE Fetch
  BY <1>0, <1>4, GotoJob DEF Fetch, At, JobHasReason, Steps
<1>5. CASE FetchFails
  <2>1. job'.request = job.request /\ job'.step = "failed"
    BY <1>0, <1>5, GotoJob DEF FetchFails, At, Steps
  <2>2. job.request.image => job.request \in excused'
    BY <1>5 DEF FetchFails
  <2> QED
    BY <2>1, <2>2 DEF JobHasReason
<1>6. CASE Run
  <2>1. job'.request = job.request /\ job'.step = "installed"
    BY <1>0, <1>6, GotoJob DEF Run, At, Steps
  <2> QED
    BY <1>0, <1>6, <2>1 DEF JobHasReason, Run, At
<1>7. CASE RunFails
  <2>1. job'.request = job.request /\ job'.step = "failed"
    BY <1>0, <1>7, GotoJob DEF RunFails, At, Steps
  <2> QED
    BY <1>7, <2>1 DEF JobHasReason, RunFails
<1>8. CASE Installed
  <2>1. job' # None => job'.step \in {"pending", "completed"}
    <3>1. CASE job.part < job.request.images
      BY <1>0, <1>8, <3>1, JobType DEF Installed, At
    <3>2. CASE ~(job.part < job.request.images)
      BY <1>0, <1>8, <3>2, GotoJob DEF Installed, At, Steps
    <3> QED
      BY <3>1, <3>2
  <2> QED
    BY <2>1 DEF JobHasReason
<1>9. CASE Failed
  BY <1>0, <1>9, GotoJob DEF Failed, At, JobHasReason, Steps
<1>10. CASE Completed
  BY <1>10 DEF Completed, JobHasReason
<1>11. CASE Die
  BY <1>11 DEF Die, JobHasReason
<1>12. ASSUME job' = job PROVE JobHasReason'
  BY <1>0, <1>12, ExcusedGrows DEF JobHasReason
<1>13. ASSUME Restart \/ (\E q \in Requests : Publish(q) \/ OrphanEnds(q)) \/ UNCHANGED edgeVars
       PROVE  job' = job
  BY <1>13 DEF Restart, Publish, OrphanEnds, edgeVars
<1> QED
  BY <1>1, <1>2, <1>3, <1>4, <1>5, <1>6, <1>7, <1>8, <1>9, <1>10, <1>11, <1>12, <1>13
     DEF EdgeNext, Listener

LEMMA MadeForImagesStep ==
  ASSUME ReasonInv, [EdgeNext]_edgeVars
  PROVE  MadeForImages'
<1>0. EdgeTypeOK /\ JobHasReason /\ MadeForImages
  BY DEF ReasonInv
<1>1. \A q \in orphans' : q.image
  <2>1. CASE Die
    BY <1>0, <2>1 DEF Die, At, JobHasReason, MadeForImages
  <2>2. ASSUME NEW p \in Requests, OrphanEnds(p) PROVE orphans' \subseteq orphans
    BY <2>2 DEF OrphanEnds
  <2>3. ASSUME ~Die, \A p \in Requests : ~OrphanEnds(p) PROVE orphans' = orphans
    BY <2>3 DEF EdgeNext, Listener, Publish, Receive, Pending, Installing, Fetch, FetchFails,
       Run, RunFails, Installed, Failed, Completed, Restart, edgeVars
  <2> QED
    BY <1>0, <2>1, <2>2, <2>3 DEF MadeForImages
<1>2. ASSUME NEW n \in Names, docker'[n] # None PROVE docker'[n].image
  <2>0. docker \in [Names -> Requests \union {None}] /\ (docker[n] # None => docker[n].image)
    BY <1>0 DEF EdgeTypeOK, MadeForImages
  <2>1. CASE Run
    <3>1. job.request.image /\ Name \in Names
      BY <1>0, <2>1, JobType DEF Run, At, JobHasReason, Name
    <3> QED
      BY <1>2, <2>0, <2>1, <3>1 DEF Run
  <2>2. CASE RunFails
    <3>1. job.request.image /\ Name \in Names
      BY <1>0, <2>2, JobType DEF RunFails, At, JobHasReason, Name
    <3> QED
      BY <1>2, <2>0, <2>2, <3>1 DEF RunFails
  <2>3. ASSUME NEW p \in Requests, OrphanEnds(p) PROVE docker'[n].image
    <3>1. p.image /\ p.revision \in Names
      BY <1>0, <2>3 DEF OrphanEnds, MadeForImages, Names
    <3> QED
      BY <1>2, <2>0, <2>3, <3>1 DEF OrphanEnds
  <2>4. ASSUME ~Run, ~RunFails, \A p \in Requests : ~OrphanEnds(p) PROVE docker' = docker
    BY <2>4 DEF EdgeNext, Listener, Publish, Receive, Pending, Installing, Fetch, FetchFails,
       Installed, Failed, Completed, Die, Restart, edgeVars
  <2> QED
    BY <1>2, <2>0, <2>1, <2>2, <2>3, <2>4
<1> QED
  BY <1>1, <1>2 DEF MadeForImages

LEMMA SaidForReasonStep ==
  ASSUME ReasonInv, [EdgeNext]_edgeVars
  PROVE  SaidForReason'
<1> SUFFICES ASSUME NEW q \in Requests, NEW i \in 1 .. Len(reports'[q])
             PROVE  /\ reports'[q][i] = "failed" /\ q.image => q \in excused'
                    /\ reports'[q][i] = "installed" => q.image
  BY DEF SaidForReason
<1> DEFINE Old == i \in 1 .. Len(reports[q]) /\ reports'[q][i] = reports[q][i]
<1>0. EdgeTypeOK /\ JobHasReason /\ SaidForReason /\ excused \subseteq excused'
  BY ExcusedGrows DEF ReasonInv
<1>1. ASSUME Old
      PROVE  /\ reports'[q][i] = "failed" /\ q.image => q \in excused'
             /\ reports'[q][i] = "installed" => q.image
  BY <1>0, <1>1 DEF SaidForReason
<1>2. CASE Pending
  <2>1. Old \/ reports'[q][i] = "pending"
    BY <1>0, <1>2, SaysAtMostOne DEF Pending, At, Told
  <2> QED
    BY <1>1, <2>1
<1>3. CASE Installing
  <2>1. Old \/ reports'[q][i] = "installing"
    BY <1>0, <1>3, SaysAtMostOne DEF Installing, At, Told
  <2> QED
    BY <1>1, <2>1
<1>4. CASE Completed
  <2>1. Old \/ reports'[q][i] = "completed"
    BY <1>0, <1>4, SaysAtMostOne DEF Completed, At, Told
  <2> QED
    BY <1>1, <2>1
<1>5. CASE Installed
  <2>1. Old \/ (q = job.request /\ reports'[q][i] = "installed")
    BY <1>0, <1>5, SaysAtMostOne DEF Installed, At, Told
  <2>2. job.request.image
    BY <1>0, <1>5 DEF Installed, At, JobHasReason
  <2> QED
    BY <1>1, <2>1, <2>2
<1>6. CASE Failed
  <2>1. Old \/ (q = job.request /\ reports'[q][i] = "failed")
    BY <1>0, <1>6, SaysAtMostOne DEF Failed, At, Told
  <2>2. job.request.image => job.request \in excused'
    BY <1>0, <1>6 DEF Failed, At, JobHasReason
  <2> QED
    BY <1>1, <2>1, <2>2
<1>7. ASSUME ~Pending, ~Installing, ~Failed, ~Completed, ~Installed PROVE Old
  <2>1. UNCHANGED reports
    BY <1>7 DEF EdgeNext, Listener, Publish, Receive, Fetch, FetchFails, Run, RunFails, Die,
       OrphanEnds, Restart, edgeVars
  <2> QED
    BY <2>1
<1> QED
  BY <1>1, <1>2, <1>3, <1>4, <1>5, <1>6, <1>7

LEMMA ReasonInvHolds == EdgeSpec => []ReasonInv
<1>1. EdgeInit => JobHasReason /\ MadeForImages /\ SaidForReason
  <2> SUFFICES ASSUME EdgeInit PROVE JobHasReason /\ MadeForImages /\ SaidForReason
    OBVIOUS
  <2>1. \A q \in Requests : \A i \in 1 .. Len(reports[q]) : FALSE
    BY DEF EdgeInit
  <2>2. SaidForReason
    BY <2>1 DEF SaidForReason
  <2> QED
    BY <2>2 DEF EdgeInit, JobHasReason, MadeForImages
<1>2. EdgeTypeOK /\ EdgeTypeOK' /\ ReasonInv /\ [EdgeNext]_edgeVars => ReasonInv'
  BY JobHasReasonStep, MadeForImagesStep, SaidForReasonStep DEF ReasonInv
<1>3. EdgeTypeOK /\ JobHasReason /\ MadeForImages /\ SaidForReason => ReasonInv
  BY DEF ReasonInv
<1> QED
  BY <1>1, <1>2, <1>3, EdgeTypes, PTL DEF EdgeSpec

\* A request that names its image fails only when the registry or docker failed it or the
\* name was taken, among any other requests; one that names none is never installed
\* (deployContainerd, edgenode.go).
THEOREM ImagesFailForAReason == EdgeSpec => []SaidForReason
<1>1. ReasonInv => SaidForReason
  BY DEF ReasonInv
<1> QED
  BY <1>1, ReasonInvHolds, PTL

\* So the empty image is all that breaks FailsForAReason: with requests that name their
\* images it holds.
THEOREM ImageIsAllThatIsMissing ==
  ASSUME \A q \in Requests : q.image
  PROVE  EdgeSpec => []FailsForAReason
<1>1. SaidForReason => FailsForAReason
  BY DEF SaidForReason, FailsForAReason
<1> QED
  BY <1>1, ImagesFailForAReason, PTL

\* Nothing that a LO asks for is ever installed, and no container is made for it: its
\* requests leave the field Image empty, over any deaths and other requests.
THEOREM NothingFromLOIsInstalled ==
  ASSUME NEW d, NEW v, FromLO(d, v) \in Requests
  PROVE  EdgeSpec => [](/\ \A n \in Names : docker[n] # FromLO(d, v)
                        /\ \A i \in 1 .. Len(reports[FromLO(d, v)]) :
                             reports[FromLO(d, v)][i] # "installed")
<1>1. ~FromLO(d, v).image /\ FromLO(d, v) # None
  BY RequestsAssumption DEF FromLO
<1>2. ReasonInv => /\ \A n \in Names : docker[n] # FromLO(d, v)
                   /\ \A i \in 1 .. Len(reports[FromLO(d, v)]) :
                        reports[FromLO(d, v)][i] # "installed"
  BY <1>1 DEF ReasonInv, MadeForImages, SaidForReason
<1> QED
  BY <1>2, ReasonInvHolds, PTL
=============================================================================
