-------------------------- MODULE DeploymentStatus --------------------------
(***************************************************************************)
(* The way back: the reports of the edge nodes on one deployment, over     *)
(* NATS to the LOs of the site, from each LO over HTTP to the CO, into the *)
(* status row, the gauge of active deployments and the clients' streams.   *)
(* It races the CO's own handler, which creates the row after the push.    *)
(***************************************************************************)
EXTENDS StatusStream, Integers, FiniteSets

CONSTANTS Nodes,     \* the edge nodes that deploy it
          LOs,       \* the replicas of the LO, all subscribed to the site
          SharedDb,  \* an LO writes to the database of the CO
          Wasm,      \* the nodes whose runtime is wasm
          Imaged,    \* the nodes whose request says which image to fetch
          None       \* nothing

Final == {"installed", "failed"}

\* The components that CreateDeployment enters, and the one that a node reports on.
Named == {"digitron-orchestrator", "database-services"}
Component == "component-0"

Reported == {"pending", "installing"} \union Final

\* The requests to the nodes: every LO watches for itself and asks every node.
Requests == LOs \X Nodes

\* A report that an LO works on.
Relayed == [request : Requests, state : Reported, step : {"record", "post", "wait"}]

ASSUME StatusAssumption ==
  /\ SharedDb \in BOOLEAN
  /\ None \notin Reported \union {"completed"} /\ None \notin Relayed
  /\ Wasm \subseteq Nodes /\ Imaged \subseteq Nodes
  /\ Reported \subseteq States
  /\ Ending \intersect Reported = {"failed"}

VARIABLES creation,   \* where the CO's handler CreateDeployment is
          row,        \* the state in the DeploymentStatus row, None without row
          parts,      \* the states of its components, by name
          gauge,      \* DeploymentsActive of this deployment
          said,       \* the last state reported on a request, or completed
          wire,       \* reports under way to an LO, by request
          relay,      \* the report an LO's callback works on
          calls,      \* CO handlers at work on a report
          trouble,    \* a message was lost, a step failed or a process died
          missed      \* the states whose report found no row

statusVars == <<creation, row, parts, gauge, said, wire, relay, calls, trouble, missed>>
allVars == <<statusVars, streamVars>>

Calls == [lo : LOs, request : Requests, state : Reported, step : {"update", "gauge", "cast"}]

StatusTypeOK ==
  /\ StreamTypeOK
  /\ creation \in {"pushed", "saved", "counted", "answered", "died"}
  /\ row \in Reported \union {None}
  /\ parts \in [Named -> Reported \union {None}]
  /\ gauge \in Int
  /\ said \in [Requests -> Reported \union {None, "completed"}]
  /\ wire \in [LOs -> [Requests -> Seq(Reported)]]
  /\ relay \in [LOs -> Relayed \union {None}]
  /\ calls \in SUBSET Calls
  /\ trouble \in BOOLEAN
  /\ missed \in SUBSET Reported
  \* No two handlers work on the same report.
  /\ \A h, k \in calls : h.lo = k.lo /\ h.request = k.request /\ h.state = k.state => h = k

StatusInit ==
  /\ StreamInit
  /\ creation = "pushed" /\ row = None /\ gauge = 0
  /\ parts = [p \in Named |-> None]
  /\ said = [q \in Requests |-> None]
  /\ wire = [r \in LOs |-> [q \in Requests |-> << >>]]
  /\ relay = [r \in LOs |-> None]
  /\ calls = {}
  /\ trouble = FALSE /\ missed = {}

-----------------------------------------------------------------------------
(* The CO's handler, after the push: the sites may already have the file.  *)

\* The rows of the components, under names that are written into the handler.
NewParts == [p \in Named |-> IF p = "digitron-orchestrator" THEN "installing" ELSE "pending"]

SaveDeploymentStatus ==
  /\ creation = "pushed"
  /\ creation' = "saved"
  /\ \/ row' = "installing" /\ parts' = NewParts /\ UNCHANGED trouble
     \/ trouble' = TRUE /\ UNCHANGED <<row, parts>>   \* rolled back, nobody looks
  /\ UNCHANGED <<gauge, said, wire, relay, calls, missed, streamVars>>

Count ==
  /\ creation = "saved"
  /\ creation' = "counted"
  /\ gauge' = gauge + 1
  /\ UNCHANGED <<row, parts, said, wire, relay, calls, trouble, missed, streamVars>>

Answer ==
  /\ creation = "counted"
  /\ creation' = "answered"
  /\ UNCHANGED <<row, parts, gauge, said, wire, relay, calls, trouble, missed, streamVars>>

\* A client asks for the stream: the id is in the answer, or in the list of rows.
Connect(c) ==
  /\ creation = "answered" \/ row # None
  /\ Register(c)
  /\ UNCHANGED statusVars

-----------------------------------------------------------------------------
(* Edge node and NATS: at most once, in the order of the publisher.        *)

Node == INSTANCE NodeReports WITH
  Keys <- Requests,
  Bare <- {q \in Requests : q[2] \in Wasm},
  Imaged <- {q \in Requests : q[2] \in Imaged},
  Several <- {}

\* A node reports on a request; the LOs in R are connected and get it, whoever asked.
\* DeploymentReport, the report that says completed, does not decode as the
\* DeploymentStatus an LO expects: the LO then holds an empty one, which names no
\* deployment, and nothing comes of it.  That a node takes one request after the other
\* is left out: its reports on two of them mix in any order.
Report(q) == \E s \in Node!After(q, said[q]), R \in SUBSET LOs :
  /\ said[q] \notin Final
  /\ said' = [said EXCEPT ![q] = s]
  /\ IF s = "completed"
     THEN UNCHANGED <<wire, trouble>>
     ELSE /\ wire' = [r \in LOs |->
                       IF r \in R THEN [wire[r] EXCEPT ![q] = Append(@, s)] ELSE wire[r]]
          /\ trouble' = (trouble \/ R # LOs)
  /\ UNCHANGED <<creation, row, parts, gauge, relay, calls, missed, streamVars>>

-----------------------------------------------------------------------------
(* The LO: one callback at a time, which waits for the CO's response.      *)

Take(r, q) ==
  /\ relay[r] = None /\ wire[r][q] # << >>
  /\ relay' = [relay EXCEPT ![r] =
                [request |-> q, state |-> Head(wire[r][q]), step |-> "record"]]
  /\ wire' = [wire EXCEPT ![r][q] = Tail(@)]
  /\ UNCHANGED <<creation, row, parts, gauge, said, calls, trouble, missed, streamVars>>

\* What UPDATE leaves in the row: no row, no effect.
Updated(s) == IF row = None THEN None ELSE s

\* UPDATE of the components that have the reported name.  Where there is none the LO
\* creates a row that belongs to no deployment, which ent refuses.
UpdatedParts(s) ==
  [p \in Named |-> IF parts[p] # None /\ p = Component THEN s ELSE parts[p]]

\* Mutant: a report waits for its row.
RecordInRow(r) ==
  /\ relay[r] # None /\ relay[r].step = "record"
  /\ row # None
  /\ row' \in {row} \union (IF SharedDb THEN {relay[r].state} ELSE {})
  /\ relay' = [relay EXCEPT ![r].step = "post"]
  /\ UNCHANGED <<creation, parts, gauge, said, wire, calls, trouble, missed, streamVars>>

\* UpdateDeploymentRecord: two statements, of which the second or both may fail; its
\* error is not looked at.
Record(r) ==
  /\ relay[r] # None /\ relay[r].step = "record"
  /\ \/ UNCHANGED <<row, parts>>
     \/ /\ SharedDb
        /\ row' = Updated(relay[r].state)
        /\ parts' \in {parts, UpdatedParts(relay[r].state)}
  /\ relay' = [relay EXCEPT ![r].step = "post"]
  /\ UNCHANGED <<creation, gauge, said, wire, calls, trouble, missed, streamVars>>

CallOf(r, step) ==
  [lo |-> r, request |-> relay[r].request, state |-> relay[r].state, step |-> step]

\* Mutant: the callback does not wait for the response.
PostAsync(r) ==
  /\ relay[r] # None /\ relay[r].step = "post"
  /\ calls' = calls \union {CallOf(r, "update")}
  /\ relay' = [relay EXCEPT ![r] = None]
  /\ UNCHANGED <<creation, row, parts, gauge, said, wire, trouble, missed, streamVars>>

\* forwardToCO: the request is sent.
Post(r) ==
  /\ relay[r] # None /\ relay[r].step = "post"
  /\ calls' = calls \union {CallOf(r, "update")}
  /\ relay' = [relay EXCEPT ![r].step = "wait"]
  /\ UNCHANGED <<creation, row, parts, gauge, said, wire, trouble, missed, streamVars>>

\* It does not arrive: the error is logged, the report is gone.
PostFails(r) ==
  /\ relay[r] # None /\ relay[r].step = "post"
  /\ relay' = [relay EXCEPT ![r] = None]
  /\ trouble' = TRUE
  /\ UNCHANGED <<creation, row, parts, gauge, said, wire, calls, missed, streamVars>>

Working(r) == \E step \in {"update", "gauge", "cast"} : CallOf(r, step) \in calls

\* Mutant: the response comes with the first write.
ReplyEarly(r) ==
  /\ relay[r] # None /\ relay[r].step = "wait"
  /\ CallOf(r, "update") \notin calls
  /\ relay' = [relay EXCEPT ![r] = None]
  /\ UNCHANGED <<creation, row, parts, gauge, said, wire, calls, trouble, missed, streamVars>>

\* The response, or the end of the connection when the CO has died.
Reply(r) ==
  /\ relay[r] # None /\ relay[r].step = "wait" /\ ~Working(r)
  /\ relay' = [relay EXCEPT ![r] = None]
  /\ UNCHANGED <<creation, row, parts, gauge, said, wire, calls, trouble, missed, streamVars>>

\* The connection breaks while the CO's handler goes on.
Cut(r) ==
  /\ relay[r] # None /\ relay[r].step = "wait" /\ Working(r)
  /\ relay' = [relay EXCEPT ![r] = None]
  /\ trouble' = TRUE
  /\ UNCHANGED <<creation, row, parts, gauge, said, wire, calls, missed, streamVars>>

\* An LO dies and subscribes again: what was under way to it is lost.
LODies(r) ==
  /\ relay' = [relay EXCEPT ![r] = None]
  /\ wire' = [wire EXCEPT ![r] = [q \in Requests |-> << >>]]
  /\ trouble' = TRUE
  /\ UNCHANGED <<creation, row, parts, gauge, said, calls, missed, streamVars>>

-----------------------------------------------------------------------------
(* The CO's DeploymentStatusHandler, one goroutine per request.            *)

\* Mutant: a handler's earlier step is not over when it takes the next.
ProceedTwice(h, step) == calls' = calls \union {[h EXCEPT !.step = step]}

Proceed(h, step) == calls' = (calls \ {h}) \union {[h EXCEPT !.step = step]}

\* UpdateDeploymentStatus, in one transaction.
Update(h) ==
  /\ h.step = "update"
  /\ row' = Updated(h.state) /\ parts' = UpdatedParts(h.state)
  /\ missed' = IF row = None THEN missed \union {h.state} ELSE missed
  /\ Proceed(h, "gauge")
  /\ UNCHANGED <<creation, gauge, said, wire, relay, trouble, streamVars>>

\* It is rolled back; the handler does not look at the error.
UpdateFails(h) ==
  /\ h.step = "update"
  /\ trouble' = TRUE
  /\ Proceed(h, "gauge")
  /\ UNCHANGED <<creation, row, parts, gauge, said, wire, relay, missed, streamVars>>

\* Mutant: only a failure ends a deployment.
CountDownFailed(h) ==
  /\ h.step = "gauge"
  /\ gauge' = IF h.state = "failed" THEN gauge - 1 ELSE gauge
  /\ Proceed(h, "cast")
  /\ UNCHANGED <<creation, row, parts, said, wire, relay, trouble, missed, streamVars>>

CountDown(h) ==
  /\ h.step = "gauge"
  /\ gauge' = IF h.state \in Final THEN gauge - 1 ELSE gauge
  /\ Proceed(h, "cast")
  /\ UNCHANGED <<creation, row, parts, said, wire, relay, trouble, missed, streamVars>>

\* The event goes to the clients and the handler returns.
Cast(h) ==
  /\ h.step = "cast"
  /\ Broadcast(h.state)
  /\ calls' = calls \ {h}
  /\ UNCHANGED <<creation, row, parts, gauge, said, wire, relay, trouble, missed>>

\* The CO dies and starts again: the row stays.
CODies ==
  /\ StreamsDie
  /\ creation' = IF creation = "answered" THEN "answered" ELSE "died"
  /\ calls' = {} /\ gauge' = 0 /\ trouble' = TRUE
  /\ UNCHANGED <<row, parts, said, wire, relay, missed>>

-----------------------------------------------------------------------------
LOStep(r) ==
  (\E q \in Requests : Take(r, q)) \/ Record(r) \/ Post(r) \/ PostFails(r) \/ Reply(r)
COStep(h) == Update(h) \/ UpdateFails(h) \/ CountDown(h) \/ Cast(h)
Create == SaveDeploymentStatus \/ Count \/ Answer

StatusNext ==
  \/ CODies \/ Create
  \/ \E q \in Requests : Report(q)
  \/ \E r \in LOs : LOStep(r) \/ Cut(r) \/ LODies(r)
  \/ \E h \in calls : COStep(h)
  \/ \E c \in Clients : Connect(c) \/ (Serve(c) /\ UNCHANGED statusVars)

StatusSpec == StatusInit /\ [][StatusNext]_allVars

\* Goroutines and callbacks run, and the database and the HTTP client answer.
\* Nodes, clients and failures do what they like.
FairStatusSpec ==
  /\ StatusSpec
  /\ WF_allVars(Create)
  /\ \A r \in LOs : WF_allVars(LOStep(r))
  /\ \A h \in Calls : WF_allVars(h \in calls /\ COStep(h))
  /\ \A c \in Clients : WF_allVars(Serve(c) /\ UNCHANGED statusVars)

-----------------------------------------------------------------------------
\* Every request is reported on and every report has been dealt with.
Settled ==
  /\ creation \in {"answered", "died"}
  /\ \A q \in Requests : said[q] \in Final
  /\ \A r \in LOs : relay[r] = None /\ \A q \in Requests : wire[r][q] = << >>
  /\ calls = {}

\* Each LO counts the last word of each node to each LO: with one of either nothing is
\* left active, with two LOs and one node the gauge ends at -3.
\* (DeploymentStatusHandler: Dec.)
GaugeIsBalanced == Settled /\ ~trouble => gauge = 1 - Cardinality(LOs \X Requests)

\* With one node and one LO the gauge ends where it was before, and the row as the node
\* did; if that report came before the row, the row says installing for good.
SettledIsTrue ==
  /\ GaugeIsBalanced
  /\ Settled /\ ~trouble =>
       \A q \in Requests : row = said[q] \/ (said[q] \in missed /\ row = "installing")

\* With one node and one LO the components of a row that is right say what the row says.
\* (DeploymentStatusHandler: "Update each component state".)
ComponentsFollow ==
  Settled /\ ~trouble /\ missed = {} => \A p \in Named : parts[p] = row

\* With one node and one LO a final state stays in the row: the LO lets no report
\* overtake another, as long as it waits for every response.
FinalStays == [][(row \in Final /\ ~trouble') => row' = row]_allVars

Rank == [s \in Reported |->
           CASE s = "pending" -> 1 [] s = "installing" -> 2 [] OTHER -> 3]

\* With one node and one LO a client never reads of an earlier state after a
\* later one, be it that reports are lost or that the client is slow.
ClientSeesProgress ==
  ~trouble => \A c \in Clients : \A i, j \in 1 .. Len(got[c]) :
                i < j => Rank[cast[got[c][i]]] < Rank[cast[got[c][j]]]

\* Every report is dealt with in the end: no callback of an LO hangs on the CO.
ReportsSettle == (\A q \in Requests : said[q] \in Final) ~> Settled

\* A client that waits while a node fails has its stream ended by it, unless its channel
\* was full.
FailureEndsStream ==
  \A c \in Clients, q \in Requests :
    (/\ handler[c] = "reading" /\ said[q] = "failed"
     /\ \A i \in 1 .. Len(cast) : cast[i] # "failed")
      ~> (handler[c] = "closed" \/ trouble \/ Len(Line(c)) < Len(cast) - since[c])

\* The stream of a client ends when every node has done what it was asked to.
StreamEndsWhenDone ==
  \A c \in Clients :
    (handler[c] = "reading" /\ \A q \in Requests : said[q] \in {"installed", "completed"})
      ~> (handler[c] = "closed" \/ trouble)
=============================================================================
