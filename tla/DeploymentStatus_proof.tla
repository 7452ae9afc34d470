----------------------- MODULE DeploymentStatus_proof -----------------------
(***************************************************************************)
(* The way back, for any nodes, LOs, clients and faults: the streams are   *)
(* those of StatusStream, the nodes report as NodeReports says, no two     *)
(* handlers work on the same report, the components stay as they were      *)
(* created, and the gauge counts each LO's request to each node once for   *)
(* each LO.  With one node and one LO the row is final once and for all    *)
(* and ends as the node did, unless its last report came before the row,   *)
(* and clients read its reports in order.                                  *)
(***************************************************************************)
EXTENDS DeploymentStatus, StatusStream_proof, FiniteSetTheorems

\* How far a report is.  The reports on a request only go up.
Level(s) ==
  CASE s = "pending" -> 1
    [] s = "installing" -> 2
    [] s \in {"installed", "failed", "completed"} -> 3
    [] OTHER -> 0

\* The reports on a request on their way to an LO, the oldest first.
WireInOrder ==
  \A r \in LOs, q \in Requests :
    /\ \A i \in 1 .. Len(wire[r][q]) : Level(wire[r][q][i]) <= Level(said[q])
    /\ \A i, j \in 1 .. Len(wire[r][q]) : i < j => Level(wire[r][q][i]) < Level(wire[r][q][j])

\* The report an LO works on is older than those that wait for it.
RelayInOrder ==
  \A r \in LOs : relay[r] # None =>
    /\ Level(relay[r].state) <= Level(said[relay[r].request])
    /\ \A i \in 1 .. Len(wire[r][relay[r].request]) :
         Level(relay[r].state) < Level(wire[r][relay[r].request][i])

\* A handler of the CO works on the LO's report or on an older one.
CallsInOrder ==
  \A h \in calls :
    /\ Level(h.state) <= Level(said[h.request])
    /\ \A i \in 1 .. Len(wire[h.lo][h.request]) : Level(h.state) < Level(wire[h.lo][h.request][i])
    /\ relay[h.lo] # None /\ relay[h.lo].request = h.request =>
         IF relay[h.lo].step = "wait"
         THEN Level(h.state) <= Level(relay[h.lo].state)
         ELSE Level(h.state) < Level(relay[h.lo].state)

\* No two handlers work on the same report.
CallsApart ==
  \A h, k \in calls : h.lo = k.lo /\ h.request = k.request /\ h.state = k.state => h = k

StatusInv ==
  /\ StatusTypeOK
  /\ StreamInv
  /\ WireInOrder
  /\ RelayInOrder
  /\ CallsInOrder

-----------------------------------------------------------------------------
(* The streams.                                                            *)

\* What the handlers of the CO do to the streams is what StatusStream allows.
LEMMA StreamsStep ==
  ASSUME StatusTypeOK, [StatusNext]_allVars
  PROVE  [StreamNext]_streamVars
<1>1. ASSUME NEW c \in Clients, Connect(c) PROVE StreamNext
  BY <1>1 DEF Connect, StreamNext
<1>2. ASSUME NEW c \in Clients, Serve(c) PROVE StreamNext
  BY <1>2 DEF StreamNext
<1>3. ASSUME NEW h \in calls, Cast(h) PROVE StreamNext
  <2>1. h.state \in States
    BY StatusAssumption DEF StatusTypeOK, Calls
  <2> QED
    BY <1>3, <2>1 DEF Cast, StreamNext
<1>4. CASE CODies
  BY <1>4 DEF CODies, StreamNext
<1>5. CASE Create
  BY <1>5 DEF Create, SaveDeploymentStatus, Count, Answer
<1>6. ASSUME NEW q \in Requests, Report(q) PROVE UNCHANGED streamVars
  BY <1>6 DEF Report
<1>7. ASSUME NEW r \in LOs, LOStep(r) \/ Cut(r) \/ LODies(r) PROVE UNCHANGED streamVars
  BY <1>7 DEF LOStep, Take, Record, Post, PostFails, Reply, Cut, LODies
<1>8. ASSUME NEW h \in calls, Update(h) \/ UpdateFails(h) \/ CountDown(h)
      PROVE  UNCHANGED streamVars
  BY <1>8 DEF Update, UpdateFails, CountDown
<1>9. CASE UNCHANGED allVars
  BY <1>9 DEF allVars
<1> QED
  BY <1>1, <1>2, <1>3, <1>4, <1>5, <1>6, <1>7, <1>8, <1>9 DEF StatusNext, COStep

LEMMA StreamInvStep ==
  ASSUME StatusTypeOK, StreamInv, [StatusNext]_allVars
  PROVE  StreamInv'
<1>1. [StreamNext]_streamVars
  BY StreamsStep
<1> QED
  BY <1>1, StreamTypeStep, StreamOrderStep DEF StreamInv

-----------------------------------------------------------------------------
(* Types.                                                                  *)

\* The state of this module alone.
OwnTypes ==
  /\ creation \in {"pushed", "saved", "counted", "answered", "died"}
  /\ row \in Reported \union {None}
  /\ parts \in [Named -> Reported \union {None}]
  /\ gauge \in Int
  /\ said \in [Requests -> Reported \union {None, "completed"}]
  /\ wire \in [LOs -> [Requests -> Seq(Reported)]]
  /\ relay \in [LOs -> Relayed \union {None}]
  /\ calls \in SUBSET Calls
  /\ trouble \in BOOLEAN
  /\ missed \in SUBSET Reported

LEMMA TypeParts == StatusTypeOK <=> StreamTypeOK /\ OwnTypes /\ CallsApart
BY DEF StatusTypeOK, OwnTypes, CallsApart

\* A relayed report names a request, a state and a step.
LEMMA RelayType ==
  ASSUME OwnTypes, NEW r \in LOs, relay[r] # None
  PROVE  /\ relay[r] \in Relayed
         /\ relay[r].request \in Requests /\ relay[r].state \in Reported
         /\ relay[r].step \in {"record", "post", "wait"}
BY DEF OwnTypes, Relayed

\* So does a call, and its next step is a call on the same report.
LEMMA CallType ==
  ASSUME OwnTypes, NEW h \in calls
  PROVE  /\ h \in Calls /\ h.lo \in LOs /\ h.request \in Requests /\ h.state \in Reported
         /\ \A step \in {"update", "gauge", "cast"} :
              /\ [h EXCEPT !.step = step] \in Calls
              /\ [h EXCEPT !.step = step].lo = h.lo /\ [h EXCEPT !.step = step].request = h.request
              /\ [h EXCEPT !.step = step].state = h.state
              /\ [h EXCEPT !.step = step].step = step
BY DEF OwnTypes, Calls

\* What an UPDATE leaves has the types of the row and of the components.
LEMMA UpdatedTypes ==
  ASSUME OwnTypes, NEW s \in Reported
  PROVE  /\ Updated(s) \in Reported \union {None}
         /\ UpdatedParts(s) \in [Named -> Reported \union {None}]
BY DEF OwnTypes, Updated, UpdatedParts

\* What Relay keeps of a step's effect on an LO: a new step of the same report, or none.
LEMMA RelayMoves ==
  ASSUME OwnTypes, NEW r \in LOs, relay[r] # None,
         NEW step \in {"record", "post", "wait"}
  PROVE  /\ [relay EXCEPT ![r].step = step] \in [LOs -> Relayed \union {None}]
         /\ [relay EXCEPT ![r].step = step][r].request = relay[r].request
         /\ [relay EXCEPT ![r].step = step][r].state = relay[r].state
         /\ [relay EXCEPT ![r].step = step][r].step = step
         /\ [relay EXCEPT ![r] = None] \in [LOs -> Relayed \union {None}]
BY DEF OwnTypes, Relayed

LEMMA OwnTypesStep ==
  ASSUME OwnTypes, [StatusNext]_allVars
  PROVE  OwnTypes'
<1> USE StatusAssumption
<1>1. CASE SaveDeploymentStatus
  <2>1. "installing" \in Reported /\ "pending" \in Reported
    BY DEF Reported
  <2>2. NewParts \in [Named -> Reported \union {None}]
    BY <2>1 DEF NewParts
  <2>3. row' \in Reported \union {None} /\ parts' \in [Named -> Reported \union {None}]
    BY <1>1, <2>1, <2>2 DEF SaveDeploymentStatus, OwnTypes
  <2>4. trouble' \in BOOLEAN
    BY <1>1 DEF SaveDeploymentStatus, OwnTypes
  <2> QED
    BY <1>1, <2>3, <2>4 DEF SaveDeploymentStatus, OwnTypes
<1>2. CASE Count \/ Answer
  BY <1>2 DEF Count, Answer, OwnTypes
<1>3. ASSUME NEW c \in Clients, Connect(c) \/ (Serve(c) /\ UNCHANGED statusVars)
      PROVE  OwnTypes'
  BY <1>3 DEF Connect, statusVars, OwnTypes
<1>4. ASSUME NEW q \in Requests, Report(q) PROVE OwnTypes'
  <2>1. PICK s \in Node!After(q, said[q]), R \in SUBSET LOs :
          /\ said' = [said EXCEPT ![q] = s]
          /\ IF s = "completed"
             THEN UNCHANGED <<wire, trouble>>
             ELSE /\ wire' = [r \in LOs |->
                       IF r \in R THEN [wire[r] EXCEPT ![q] = Append(@, s)] ELSE wire[r]]
                  /\ trouble' = (trouble \/ R # LOs)
    BY <1>4 DEF Report
  <2>2. s \in Reported \union {"completed"}
    BY <2>1 DEF Node!After, Reported, Final
  <2>3. said' \in [Requests -> Reported \union {None, "completed"}]
    BY <2>1, <2>2 DEF OwnTypes
  <2>4. ASSUME s # "completed" PROVE wire' \in [LOs -> [Requests -> Seq(Reported)]]
    <3>1. \A r \in LOs : Append(wire[r][q], s) \in Seq(Reported)
      BY <2>2, <2>4, AppendProperties DEF OwnTypes
    <3>2. \A r \in LOs : wire[r] \in [Requests -> Seq(Reported)]
      BY DEF OwnTypes
    <3>3. \A r \in LOs : [wire[r] EXCEPT ![q] = Append(wire[r][q], s)] \in [Requests -> Seq(Reported)]
      BY <3>1, <3>2
    <3>4. wire' = [r \in LOs |->
                    IF r \in R THEN [wire[r] EXCEPT ![q] = Append(wire[r][q], s)] ELSE wire[r]]
      BY <2>1, <2>4
    <3> QED
      BY <3>2, <3>3, <3>4
  <2>5. wire' \in [LOs -> [Requests -> Seq(Reported)]]
    BY <2>1, <2>4 DEF OwnTypes
  <2>6. trouble' \in BOOLEAN
    BY <2>1 DEF OwnTypes
  <2> QED
    BY <1>4, <2>3, <2>5, <2>6 DEF Report, OwnTypes
<1>5. ASSUME NEW r \in LOs, NEW q \in Requests, Take(r, q) PROVE OwnTypes'
  <2>1. /\ Head(wire[r][q]) \in Reported /\ Tail(wire[r][q]) \in Seq(Reported)
    BY <1>5, HeadTailProperties DEF Take, OwnTypes
  <2>2. wire' \in [LOs -> [Requests -> Seq(Reported)]]
    BY <1>5, <2>1 DEF Take, OwnTypes
  <2>3. relay' \in [LOs -> Relayed \union {None}]
    BY <1>5, <2>1 DEF Take, OwnTypes, Relayed
  <2> QED
    BY <1>5, <2>2, <2>3 DEF Take, OwnTypes
<1>6. ASSUME NEW r \in LOs, Record(r) PROVE OwnTypes'
  <2>1. relay[r] # None /\ relay[r].state \in Reported
    BY <1>6, RelayType DEF Record
  <2>2. row' \in Reported \union {None} /\ parts' \in [Named -> Reported \union {None}]
    BY <1>6, <2>1, UpdatedTypes DEF Record, OwnTypes
  <2>3. relay' \in [LOs -> Relayed \union {None}]
    BY <1>6, <2>1, RelayMoves DEF Record
  <2> QED
    BY <1>6, <2>2, <2>3 DEF Record, OwnTypes
<1>7. ASSUME NEW r \in LOs, Post(r) PROVE OwnTypes'
  <2>1. relay[r] # None
    BY <1>7 DEF Post
  <2>2. CallOf(r, "update") \in Calls
    BY <2>1, RelayType DEF CallOf, Calls
  <2>3. relay' \in [LOs -> Relayed \union {None}]
    BY <1>7, <2>1, RelayMoves DEF Post
  <2> QED
    BY <1>7, <2>2, <2>3 DEF Post, OwnTypes
<1>8. ASSUME NEW r \in LOs, PostFails(r) \/ Reply(r) \/ Cut(r) PROVE OwnTypes'
  <2>1. relay' = [relay EXCEPT ![r] = None]
    BY <1>8 DEF PostFails, Reply, Cut
  <2>2. relay' \in [LOs -> Relayed \union {None}]
    BY <2>1 DEF OwnTypes
  <2>3. trouble' \in BOOLEAN
    BY <1>8 DEF PostFails, Reply, Cut, OwnTypes
  <2> QED
    BY <1>8, <2>2, <2>3 DEF PostFails, Reply, Cut, OwnTypes
<1>9. ASSUME NEW r \in LOs, LODies(r) PROVE OwnTypes'
  <2>1. [q \in Requests |-> << >>] \in [Requests -> Seq(Reported)]
    BY EmptySeq
  <2>2. wire' \in [LOs -> [Requests -> Seq(Reported)]]
    BY <1>9, <2>1 DEF LODies, OwnTypes
  <2>3. relay' \in [LOs -> Relayed \union {None}]
    BY <1>9 DEF LODies, OwnTypes
  <2>4. trouble' \in BOOLEAN
    BY <1>9 DEF LODies
  <2> QED
    BY <1>9, <2>2, <2>3, <2>4 DEF LODies, OwnTypes
<1>10. ASSUME NEW h \in calls, NEW step \in {"update", "gauge", "cast"}, Proceed(h, step)
       PROVE  calls' \in SUBSET Calls
  BY <1>10, CallType DEF Proceed, OwnTypes
<1>11. ASSUME NEW h \in calls, Update(h) PROVE OwnTypes'
  <2>1. row' \in Reported \union {None} /\ parts' \in [Named -> Reported \union {None}]
    BY <1>11, CallType, UpdatedTypes DEF Update
  <2>2. calls' \in SUBSET Calls
    BY <1>10, <1>11 DEF Update
  <2>3. missed' \in SUBSET Reported
    <3>1. h.state \in Reported /\ missed \in SUBSET Reported
      BY CallType DEF OwnTypes
    <3>2. missed' \in {missed, missed \union {h.state}}
      BY <1>11 DEF Update
    <3> QED
      BY <3>1, <3>2
  <2> QED
    BY <1>11, <2>1, <2>2, <2>3 DEF Update, OwnTypes
<1>12. ASSUME NEW h \in calls, UpdateFails(h) PROVE OwnTypes'
  <2>1. calls' \in SUBSET Calls
    BY <1>10, <1>12 DEF UpdateFails
  <2>2. trouble' \in BOOLEAN
    BY <1>12 DEF UpdateFails
  <2> QED
    BY <1>12, <2>1, <2>2 DEF UpdateFails, OwnTypes
<1>13. ASSUME NEW h \in calls, CountDown(h) PROVE OwnTypes'
  <2>1. calls' \in SUBSET Calls
    BY <1>10, <1>13 DEF CountDown
  <2>2. gauge' \in Int
    BY <1>13 DEF CountDown, OwnTypes
  <2> QED
    BY <1>13, <2>1, <2>2 DEF CountDown, OwnTypes
<1>14. ASSUME NEW h \in calls, Cast(h) PROVE OwnTypes'
  BY <1>14 DEF Cast, OwnTypes
<1>15. CASE CODies
  <2>1. trouble' \in BOOLEAN
    BY <1>15 DEF CODies
  <2>2. calls' \in SUBSET Calls /\ gauge' \in Int
    BY <1>15 DEF CODies
  <2> QED
    BY <1>15, <2>1, <2>2 DEF CODies, OwnTypes
<1>16. CASE UNCHANGED allVars
  BY <1>16 DEF allVars, statusVars, OwnTypes
<1> QED
  BY <1>1, <1>2, <1>3, <1>4, <1>5, <1>6, <1>7, <1>8, <1>9, <1>11, <1>12, <1>13, <1>14, <1>15,
     <1>16 DEF StatusNext, Create, LOStep, COStep

-----------------------------------------------------------------------------
(* The order of the reports.                                               *)

LEMMA LevelType == \A s : Level(s) \in Nat
BY DEF Level

\* A report goes further than the last on its request, and stands at the end of the wire.
LEMMA ReportEffect ==
  ASSUME OwnTypes, NEW q \in Requests, Report(q)
  PROVE  /\ \A m \in Requests : Level(said[m]) <= Level(said'[m])
         /\ \A r \in LOs, m \in Requests :
              \/ wire'[r][m] = wire[r][m]
              \/ /\ m = q /\ said'[q] \in Reported
                 /\ wire'[r][m] = Append(wire[r][m], said'[q])
                 /\ Level(said[q]) < Level(said'[q])
<1>1. PICK s \in Node!After(q, said[q]), R \in SUBSET LOs :
        /\ said' = [said EXCEPT ![q] = s]
        /\ IF s = "completed"
           THEN UNCHANGED <<wire, trouble>>
           ELSE wire' = [r \in LOs |->
                     IF r \in R THEN [wire[r] EXCEPT ![q] = Append(wire[r][q], s)] ELSE wire[r]]
  BY DEF Report
<1>2. said[q] \notin Final /\ said[q] \in Reported \union {None, "completed"}
  BY DEF Report, OwnTypes
<1>3. said'[q] = s /\ \A m \in Requests : m # q => said'[m] = said[m]
  BY <1>1 DEF OwnTypes
<1>4. Level(None) = 0
  BY StatusAssumption DEF Level, Reported, Final
<1>5. s # "completed" => s \in Reported /\ Level(said[q]) < Level(s)
  <2>1. CASE said[q] = None
    BY <1>1, <1>4, <2>1 DEF Node!After, Level, Reported
  <2>2. CASE said[q] # None
    BY <1>1, <1>2, <2>2 DEF Node!After, Level, Reported, Final
  <2> QED
    BY <2>1, <2>2
<1>6. \A m \in Requests : Level(said[m]) <= Level(said'[m])
  <2>1. \A t : Level(t) <= 3 /\ Level("completed") = 3
    BY DEF Level
  <2> QED
    BY <1>3, <1>5, <2>1, LevelType
<1>7. ASSUME NEW r \in LOs, NEW m \in Requests, wire'[r][m] # wire[r][m]
      PROVE  s # "completed" /\ m = q /\ wire'[r][m] = Append(wire[r][m], s)
  <2>1. s # "completed"
    BY <1>1, <1>7
  <2>2. wire'[r] = IF r \in R THEN [wire[r] EXCEPT ![q] = Append(wire[r][q], s)] ELSE wire[r]
    BY <1>1, <2>1
  <2>3. wire'[r] = [wire[r] EXCEPT ![q] = Append(wire[r][q], s)]
    BY <1>7, <2>2
  <2>4. wire[r] \in [Requests -> Seq(Reported)]
    BY DEF OwnTypes
  <2> QED
    BY <1>7, <2>1, <2>3, <2>4
<1> QED
  BY <1>3, <1>5, <1>6, <1>7

\* The oldest report is taken from a wire; the others move up.
LEMMA TakeEffect ==
  ASSUME OwnTypes, NEW r \in LOs, NEW q \in Requests, Take(r, q)
  PROVE  /\ Len(wire[r][q]) >= 1 /\ Len(wire[r][q]) \in Nat
         /\ Len(wire'[r][q]) = Len(wire[r][q]) - 1
         /\ \A i \in 1 .. Len(wire'[r][q]) : wire'[r][q][i] = wire[r][q][i + 1]
         /\ \A o \in LOs, m \in Requests : ~(o = r /\ m = q) => wire'[o][m] = wire[o][m]
         /\ relay'[r] # None => relay'[r].request = q /\ relay'[r].state = wire[r][q][1]
                                /\ relay'[r].step = "record"
         /\ \A o \in LOs : o # r => relay'[o] = relay[o]
         /\ UNCHANGED <<said, calls>>
<1>1. wire[r][q] \in Seq(Reported) /\ wire[r][q] # << >>
  BY DEF Take, OwnTypes
<1>2. /\ Len(wire[r][q]) >= 1 /\ Len(wire[r][q]) \in Nat
      /\ Head(wire[r][q]) = wire[r][q][1]
      /\ Len(Tail(wire[r][q])) = Len(wire[r][q]) - 1
      /\ \A i \in 1 .. Len(Tail(wire[r][q])) : Tail(wire[r][q])[i] = wire[r][q][i + 1]
  BY <1>1, HeadTailProperties, EmptySeq, LenProperties
<1>3. /\ wire'[r][q] = Tail(wire[r][q])
      /\ \A o \in LOs, m \in Requests : ~(o = r /\ m = q) => wire'[o][m] = wire[o][m]
  BY DEF Take, OwnTypes
<1>4. /\ relay'[r] = [request |-> q, state |-> Head(wire[r][q]), step |-> "record"]
      /\ \A o \in LOs : o # r => relay'[o] = relay[o]
      /\ UNCHANGED <<said, calls>>
  BY DEF Take, OwnTypes
<1>5. relay'[r].request = q /\ relay'[r].state = Head(wire[r][q]) /\ relay'[r].step = "record"
  BY <1>4
<1> QED
  BY <1>2, <1>3, <1>4, <1>5

\* Only Report, Take and the death of an LO change what is under way or said.
LEMMA WireFrame ==
  ASSUME [StatusNext]_allVars, \A q \in Requests : ~Report(q),
         \A r \in LOs : ~LODies(r) /\ \A q \in Requests : ~Take(r, q)
  PROVE  UNCHANGED <<wire, said>>
BY DEF StatusNext, Create, SaveDeploymentStatus, Count, Answer, Connect, LOStep, COStep,
   Record, Post, PostFails, Reply, Cut, Update, UpdateFails, CountDown, Cast, CODies,
   statusVars, allVars

\* The reports of a wire in order, below a bound.
Rising(w, top) ==
  /\ \A i \in 1 .. Len(w) : Level(w[i]) <= top
  /\ \A i, j \in 1 .. Len(w) : i < j => Level(w[i]) < Level(w[j])

LEMMA RisingAppend ==
  ASSUME NEW w \in Seq(Reported), NEW s \in Reported, NEW top \in Nat, Rising(w, top),
         top < Level(s)
  PROVE  Rising(Append(w, s), Level(s))
<1>1. /\ Len(w) \in Nat /\ Len(Append(w, s)) = Len(w) + 1
      /\ \A i \in 1 .. Len(w) : Append(w, s)[i] = w[i]
      /\ Append(w, s)[Len(w) + 1] = s
  BY AppendProperties, LenProperties
<1>2. \A i \in 1 .. Len(Append(w, s)) : i \in 1 .. Len(w) \/ i = Len(w) + 1
  BY <1>1
<1>3. \A i \in 1 .. Len(w) : Level(w[i]) < Level(s)
  BY LevelType DEF Rising
<1> QED
  BY <1>1, <1>2, <1>3, LevelType DEF Rising

LEMMA WireInOrderStep ==
  ASSUME OwnTypes, WireInOrder, [StatusNext]_allVars
  PROVE  WireInOrder'
<1> SUFFICES ASSUME NEW r \in LOs, NEW q \in Requests
             PROVE  Rising(wire'[r][q], Level(said'[q]))
  BY DEF WireInOrder, Rising
<1>0. Rising(wire[r][q], Level(said[q]))
  BY DEF WireInOrder, Rising
<1>1. ASSUME wire'[r][q] = wire[r][q], Level(said[q]) <= Level(said'[q])
      PROVE  Rising(wire'[r][q], Level(said'[q]))
  BY <1>0, <1>1, LevelType DEF Rising
<1>2. ASSUME NEW m \in Requests, Report(m) PROVE Rising(wire'[r][q], Level(said'[q]))
  <2>1. CASE wire'[r][q] = wire[r][q]
    BY <1>1, <1>2, <2>1, ReportEffect
  <2>2. CASE wire'[r][q] # wire[r][q]
    <3>1. /\ said'[q] \in Reported /\ wire'[r][q] = Append(wire[r][q], said'[q])
          /\ Level(said[q]) < Level(said'[q])
      BY <1>2, <2>2, ReportEffect
    <3>2. wire[r][q] \in Seq(Reported) /\ Level(said[q]) \in Nat
      BY LevelType DEF OwnTypes
    <3> QED
      BY <1>0, <3>1, <3>2, RisingAppend
  <2> QED
    BY <2>1, <2>2
<1>3. ASSUME NEW o \in LOs, NEW m \in Requests, Take(o, m)
      PROVE  Rising(wire'[r][q], Level(said'[q]))
  <2>1. said' = said
    BY <1>3, TakeEffect
  <2>2. CASE ~(o = r /\ m = q)
    <3>1. wire'[r][q] = wire[r][q]
      BY <1>3, <2>2, TakeEffect
    <3> QED
      BY <1>1, <2>1, <3>1, LevelType
  <2>3. CASE o = r /\ m = q
    <3>1. /\ Len(wire[r][q]) \in Nat /\ Len(wire'[r][q]) = Len(wire[r][q]) - 1
          /\ \A i \in 1 .. Len(wire'[r][q]) : wire'[r][q][i] = wire[r][q][i + 1]
      BY <1>3, <2>3, TakeEffect
    <3>2. \A i \in 1 .. Len(wire'[r][q]) : i \in Nat /\ i + 1 \in 1 .. Len(wire[r][q])
      BY <3>1
    <3> QED
      BY <1>0, <2>1, <3>1, <3>2 DEF Rising
  <2> QED
    BY <2>2, <2>3
<1>4. ASSUME NEW o \in LOs, LODies(o) PROVE Rising(wire'[r][q], Level(said'[q]))
  <2>1. said' = said /\ (wire'[r][q] = wire[r][q] \/ wire'[r][q] = << >>)
    BY <1>4 DEF LODies, OwnTypes
  <2>2. Rising(<< >>, Level(said[q]))
    BY DEF Rising
  <2> QED
    BY <1>0, <2>1, <2>2
<1>5. ASSUME UNCHANGED <<wire, said>> PROVE Rising(wire'[r][q], Level(said'[q]))
  BY <1>0, <1>5
<1> QED
  BY <1>2, <1>3, <1>4, <1>5, WireFrame

\* A report of an LO, or of a handler, below all that wait.
Below(l, w) == \A i \in 1 .. Len(w) : l < Level(w[i])

LEMMA BelowAppend ==
  ASSUME NEW w \in Seq(Reported), NEW s \in Reported, NEW l \in Nat, Below(l, w), l < Level(s)
  PROVE  Below(l, Append(w, s))
<1>1. /\ Len(w) \in Nat /\ Len(Append(w, s)) = Len(w) + 1
      /\ \A i \in 1 .. Len(w) : Append(w, s)[i] = w[i]
      /\ Append(w, s)[Len(w) + 1] = s
  BY AppendProperties, LenProperties
<1>2. \A i \in 1 .. Len(Append(w, s)) : i \in 1 .. Len(w) \/ i = Len(w) + 1
  BY <1>1
<1> QED
  BY <1>1, <1>2 DEF Below

\* Whatever was below a wire, and no further than what is said, stays so.
LEMMA ReportKeepsBelow ==
  ASSUME OwnTypes, NEW q \in Requests, Report(q), NEW r \in LOs, NEW m \in Requests,
         NEW l \in Nat, l <= Level(said[m]), Below(l, wire[r][m])
  PROVE  l <= Level(said'[m]) /\ Below(l, wire'[r][m])
<1>1. Level(said[m]) <= Level(said'[m])
  BY ReportEffect
<1>2. CASE wire'[r][m] = wire[r][m]
  BY <1>1, <1>2, LevelType
<1>3. CASE wire'[r][m] # wire[r][m]
  <2>1. /\ m = q /\ said'[q] \in Reported /\ wire'[r][m] = Append(wire[r][m], said'[q])
        /\ Level(said[q]) < Level(said'[q])
    BY <1>3, ReportEffect
  <2>2. wire[r][m] \in Seq(Reported) /\ l < Level(said'[q])
    BY <2>1, LevelType DEF OwnTypes
  <2> QED
    BY <1>1, <2>1, <2>2, BelowAppend, LevelType
<1> QED
  BY <1>2, <1>3

\* What was below a wire is below what Take leaves of it, and below what it has taken.
LEMMA TakeKeepsBelow ==
  ASSUME OwnTypes, NEW o \in LOs, NEW q \in Requests, Take(o, q), NEW r \in LOs, NEW m \in Requests,
         NEW l \in Nat, Below(l, wire[r][m])
  PROVE  /\ Below(l, wire'[r][m])
         /\ r = o /\ m = q => l < Level(wire[r][m][1])
<1>1. CASE ~(r = o /\ m = q)
  BY <1>1, TakeEffect
<1>2. CASE r = o /\ m = q
  <2>1. /\ Len(wire[r][m]) \in Nat /\ Len(wire[r][m]) >= 1
        /\ Len(wire'[r][m]) = Len(wire[r][m]) - 1
        /\ \A i \in 1 .. Len(wire'[r][m]) : wire'[r][m][i] = wire[r][m][i + 1]
    BY <1>2, TakeEffect
  <2>2. 1 \in 1 .. Len(wire[r][m])
        /\ \A i \in 1 .. Len(wire'[r][m]) : i \in Nat /\ i + 1 \in 1 .. Len(wire[r][m])
    BY <2>1
  <2> QED
    BY <1>2, <2>1, <2>2 DEF Below
<1> QED
  BY <1>1, <1>2

LEMMA RelayInOrderStep ==
  ASSUME OwnTypes, WireInOrder, RelayInOrder, [StatusNext]_allVars
  PROVE  RelayInOrder'
<1> SUFFICES ASSUME NEW r \in LOs, relay'[r] # None
             PROVE  /\ Level(relay'[r].state) <= Level(said'[relay'[r].request])
                    /\ Below(Level(relay'[r].state), wire'[r][relay'[r].request])
  BY DEF RelayInOrder, Below
<1> DEFINE Goal == /\ Level(relay'[r].state) <= Level(said'[relay'[r].request])
                   /\ Below(Level(relay'[r].state), wire'[r][relay'[r].request])
<1>0. ASSUME relay[r] # None
      PROVE  /\ relay[r].request \in Requests
             /\ Level(relay[r].state) \in Nat
             /\ Level(relay[r].state) <= Level(said[relay[r].request])
             /\ Below(Level(relay[r].state), wire[r][relay[r].request])
  BY <1>0, RelayType, LevelType DEF RelayInOrder, Below
<1>1. ASSUME relay[r] # None, relay'[r].request = relay[r].request, relay'[r].state = relay[r].state,
             wire'[r] = wire[r], said' = said
      PROVE  Goal
  BY <1>0, <1>1
<1>2. ASSUME NEW q \in Requests, Report(q) PROVE Goal
  <2>1. relay' = relay
    BY <1>2 DEF Report
  <2> QED
    BY <1>0, <1>2, <2>1, ReportKeepsBelow
<1>3. ASSUME NEW o \in LOs, NEW q \in Requests, Take(o, q) PROVE Goal
  <2>1. CASE o # r
    <3>1. relay'[r] = relay[r] /\ wire'[r][relay[r].request] = wire[r][relay[r].request] /\ said' = said
      BY <1>0, <1>3, <2>1, TakeEffect
    <3> QED
      BY <1>0, <3>1
  <2>2. CASE o = r
    <3>1. /\ relay'[r].request = q /\ relay'[r].state = wire[r][q][1] /\ said' = said
          /\ Len(wire[r][q]) >= 1 /\ Len(wire[r][q]) \in Nat
          /\ Len(wire'[r][q]) = Len(wire[r][q]) - 1
          /\ \A i \in 1 .. Len(wire'[r][q]) : wire'[r][q][i] = wire[r][q][i + 1]
      BY <1>3, <2>2, TakeEffect
    <3>2. /\ 1 \in 1 .. Len(wire[r][q])
          /\ \A i \in 1 .. Len(wire'[r][q]) :
               i \in Nat /\ i + 1 \in 1 .. Len(wire[r][q]) /\ 1 < i + 1
      BY <3>1
    <3> QED
      BY <3>1, <3>2 DEF WireInOrder, Below
  <2> QED
    BY <2>1, <2>2
<1>4. ASSUME NEW o \in LOs, Record(o) \/ Post(o) PROVE Goal
  <2>1. /\ relay[o] # None /\ wire' = wire /\ said' = said
        /\ \E step \in {"record", "post", "wait"} : relay' = [relay EXCEPT ![o].step = step]
    BY <1>4 DEF Record, Post
  <2>2. CASE o = r
    BY <1>1, <2>1, <2>2, RelayMoves
  <2>3. CASE o # r
    <3>1. relay'[r] = relay[r]
      BY <2>1, <2>3 DEF OwnTypes
    <3> QED
      BY <1>1, <2>1, <3>1
  <2> QED
    BY <2>2, <2>3
<1>5. ASSUME NEW o \in LOs, PostFails(o) \/ Reply(o) \/ Cut(o) PROVE Goal
  <2>1. wire' = wire /\ said' = said /\ relay' = [relay EXCEPT ![o] = None]
    BY <1>5 DEF PostFails, Reply, Cut
  <2>2. o # r /\ relay'[r] = relay[r]
    BY <2>1 DEF OwnTypes
  <2> QED
    BY <1>1, <2>1, <2>2
<1>6. ASSUME NEW o \in LOs, LODies(o) PROVE Goal
  <2>1. said' = said /\ relay' = [relay EXCEPT ![o] = None]
        /\ \A p \in LOs : p # o => wire'[p] = wire[p]
    BY <1>6 DEF LODies, OwnTypes
  <2>2. o # r /\ relay'[r] = relay[r]
    BY <2>1 DEF OwnTypes
  <2> QED
    BY <1>1, <2>1, <2>2
<1>7. CASE UNCHANGED <<wire, said, relay>>
  BY <1>1, <1>7
<1>8. ASSUME \A q \in Requests : ~Report(q), \A o \in LOs : ~LOStep(o) /\ ~Cut(o) /\ ~LODies(o)
      PROVE  UNCHANGED <<wire, said, relay>>
  BY <1>8 DEF StatusNext, Create, SaveDeploymentStatus, Count, Answer, Connect, COStep,
     Update, UpdateFails, CountDown, Cast, CODies, statusVars, allVars
<1> QED
  BY <1>2, <1>3, <1>4, <1>5, <1>6, <1>7, <1>8 DEF LOStep

-----------------------------------------------------------------------------
(* The handlers of the CO.                                                 *)

\* A handler that proceeds stays on its report.
LEMMA ProceedEffect ==
  ASSUME OwnTypes, NEW h \in calls, NEW step \in {"update", "gauge", "cast"}, Proceed(h, step),
         NEW g \in calls'
  PROVE  \/ g \in calls \ {h}
         \/ /\ g = [h EXCEPT !.step = step]
            /\ g.lo = h.lo /\ g.request = h.request /\ g.state = h.state /\ g.step = step
<1>1. g \in calls \ {h} \/ g = [h EXCEPT !.step = step]
  BY DEF Proceed
<1>2. /\ [h EXCEPT !.step = step].lo = h.lo /\ [h EXCEPT !.step = step].request = h.request
      /\ [h EXCEPT !.step = step].state = h.state /\ [h EXCEPT !.step = step].step = step
  BY CallType
<1> QED
  BY <1>1, <1>2

\* A step of a handler: it proceeds or returns, and touches neither LO nor wire.
LEMMA HandlerStep ==
  ASSUME OwnTypes, NEW h \in calls, COStep(h)
  PROVE  /\ UNCHANGED <<wire, said, relay>>
         /\ \/ calls' = calls \ {h}
            \/ \E step \in {"update", "gauge", "cast"} : Proceed(h, step)
<1>1. CASE Update(h) \/ UpdateFails(h)
  BY <1>1 DEF Update, UpdateFails
<1>2. CASE CountDown(h)
  BY <1>2 DEF CountDown
<1>3. CASE Cast(h)
  BY <1>3 DEF Cast
<1> QED
  BY <1>1, <1>2, <1>3 DEF COStep

\* The call that an LO makes is on the report it works on.
LEMMA PostEffect ==
  ASSUME OwnTypes, NEW r \in LOs, Post(r)
  PROVE  /\ relay[r] # None /\ relay[r].step = "post"
         /\ relay'[r] # None /\ relay'[r].step = "wait"
         /\ relay'[r].request = relay[r].request /\ relay'[r].state = relay[r].state
         /\ \A o \in LOs : o # r => relay'[o] = relay[o]
         /\ calls' = calls \union {CallOf(r, "update")}
         /\ CallOf(r, "update").lo = r /\ CallOf(r, "update").request = relay[r].request
         /\ CallOf(r, "update").state = relay[r].state /\ CallOf(r, "update").step = "update"
         /\ UNCHANGED <<wire, said>>
<1>1. relay[r] # None /\ relay[r].step = "post" /\ relay' = [relay EXCEPT ![r].step = "wait"]
      /\ calls' = calls \union {CallOf(r, "update")} /\ UNCHANGED <<wire, said>>
  BY DEF Post
<1>2. relay'[r].request = relay[r].request /\ relay'[r].state = relay[r].state /\ relay'[r].step = "wait"
  BY <1>1, RelayMoves
<1>3. \A o \in LOs : o # r => relay'[o] = relay[o]
  BY <1>1 DEF OwnTypes
<1>4. relay'[r] # None
  <2>1. relay[r] \in Relayed
    BY <1>1, RelayType
  <2>2. relay'[r] \in Relayed
    BY <1>1, <2>1 DEF OwnTypes, Relayed
  <2> QED
    BY <2>2, StatusAssumption
<1> QED
  BY <1>1, <1>2, <1>3, <1>4 DEF CallOf

\* One handler in order with the LO's report and the wire.
InOrder(h) ==
  /\ Level(h.state) <= Level(said[h.request])
  /\ Below(Level(h.state), wire[h.lo][h.request])
  /\ relay[h.lo] # None /\ relay[h.lo].request = h.request =>
       IF relay[h.lo].step = "wait"
       THEN Level(h.state) <= Level(relay[h.lo].state)
       ELSE Level(h.state) < Level(relay[h.lo].state)

LEMMA CallsInOrderStep ==
  ASSUME OwnTypes, WireInOrder, RelayInOrder, CallsInOrder, [StatusNext]_allVars
  PROVE  CallsInOrder'
<1> SUFFICES ASSUME NEW g \in calls' PROVE InOrder(g)'
  BY DEF CallsInOrder, InOrder, Below
<1>0. \A h \in calls : InOrder(h) /\ h.lo \in LOs /\ h.request \in Requests
  BY CallType DEF CallsInOrder, InOrder, Below
<1>1. ASSUME UNCHANGED <<wire, said, relay>>, NEW h \in calls,
             g.lo = h.lo, g.request = h.request, g.state = h.state
      PROVE  InOrder(g)'
  BY <1>0, <1>1 DEF InOrder, Below
<1>2. ASSUME NEW q \in Requests, Report(q) PROVE InOrder(g)'
  <2>1. calls' = calls /\ relay' = relay
    BY <1>2 DEF Report
  <2>2. Level(g.state) <= Level(said'[g.request]) /\ Below(Level(g.state), wire'[g.lo][g.request])
    BY <1>0, <1>2, <2>1, ReportKeepsBelow, LevelType DEF InOrder
  <2> QED
    BY <1>0, <2>1, <2>2 DEF InOrder, Below
<1>3. ASSUME NEW o \in LOs, NEW q \in Requests, Take(o, q) PROVE InOrder(g)'
  <2>1. g \in calls /\ said' = said
    BY <1>3, TakeEffect
  <2>2. /\ Below(Level(g.state), wire'[g.lo][g.request])
        /\ g.lo = o /\ g.request = q => Level(g.state) < Level(wire[o][q][1])
    BY <1>0, <1>3, <2>1, TakeKeepsBelow, LevelType DEF InOrder
  <2>3. CASE g.lo = o
    <3>1. relay'[o] # None => relay'[o].request = q /\ relay'[o].state = wire[o][q][1]
                              /\ relay'[o].step = "record"
      BY <1>3, TakeEffect
    <3> QED
      BY <1>0, <2>1, <2>2, <2>3, <3>1 DEF InOrder, Below
  <2>4. CASE g.lo # o
    <3>1. relay'[g.lo] = relay[g.lo]
      BY <1>0, <1>3, <2>1, <2>4, TakeEffect
    <3> QED
      BY <1>0, <2>1, <2>2, <3>1 DEF InOrder, Below
  <2> QED
    BY <2>3, <2>4
<1>4. ASSUME NEW o \in LOs, Record(o) PROVE InOrder(g)'
  <2>1. /\ relay[o] # None /\ relay[o].step = "record" /\ g \in calls
        /\ relay' = [relay EXCEPT ![o].step = "post"] /\ UNCHANGED <<wire, said>>
    BY <1>4 DEF Record
  <2>2. relay'[o].request = relay[o].request /\ relay'[o].state = relay[o].state
        /\ relay'[o].step = "post"
    BY <2>1, RelayMoves
  <2>3. \A p \in LOs : p # o => relay'[p] = relay[p]
    BY <2>1 DEF OwnTypes
  <2> QED
    BY <1>0, <2>1, <2>2, <2>3 DEF InOrder, Below
<1>5. ASSUME NEW o \in LOs, Post(o) PROVE InOrder(g)'
  <2>1. CASE g \in calls
    <3>1. CASE g.lo = o
      BY <1>0, <1>5, <2>1, <3>1, PostEffect, LevelType DEF InOrder, Below
    <3>2. CASE g.lo # o
      BY <1>0, <1>5, <2>1, <3>2, PostEffect DEF InOrder, Below
    <3> QED
      BY <3>1, <3>2
  <2>2. CASE g = CallOf(o, "update")
    <3>1. /\ Level(relay[o].state) <= Level(said[relay[o].request])
          /\ Below(Level(relay[o].state), wire[o][relay[o].request])
      BY <1>5, PostEffect DEF RelayInOrder, Below
    <3>2. /\ g.lo = o /\ g.request = relay[o].request /\ g.state = relay[o].state
          /\ relay'[o].step = "wait" /\ relay'[o].state = relay[o].state
          /\ UNCHANGED <<wire, said>>
      BY <1>5, <2>2, PostEffect
    <3> QED
      BY <3>1, <3>2, LevelType DEF InOrder, Below
  <2> QED
    BY <1>5, <2>1, <2>2, PostEffect
<1>6. ASSUME NEW o \in LOs, PostFails(o) \/ Reply(o) \/ Cut(o) PROVE InOrder(g)'
  <2>1. g \in calls /\ relay' = [relay EXCEPT ![o] = None] /\ UNCHANGED <<wire, said>>
    BY <1>6 DEF PostFails, Reply, Cut
  <2>2. relay'[o] = None /\ \A p \in LOs : p # o => relay'[p] = relay[p]
    BY <2>1 DEF OwnTypes
  <2> QED
    BY <1>0, <2>1, <2>2 DEF InOrder, Below
<1>7. ASSUME NEW o \in LOs, LODies(o) PROVE InOrder(g)'
  <2>1. g \in calls /\ relay' = [relay EXCEPT ![o] = None] /\ said' = said
        /\ wire' = [wire EXCEPT ![o] = [q \in Requests |-> << >>]]
    BY <1>7 DEF LODies
  <2>2. /\ relay'[o] = None /\ \A q \in Requests : Len(wire'[o][q]) = 0
        /\ \A p \in LOs : p # o => relay'[p] = relay[p] /\ wire'[p] = wire[p]
    BY <2>1 DEF OwnTypes
  <2> QED
    BY <1>0, <2>1, <2>2 DEF InOrder, Below
<1>8. ASSUME NEW h \in calls, COStep(h) PROVE InOrder(g)'
  <2>1. UNCHANGED <<wire, said, relay>>
    BY <1>8, HandlerStep
  <2>2. \E k \in calls : g.lo = k.lo /\ g.request = k.request /\ g.state = k.state
    <3>1. CASE calls' = calls \ {h}
      BY <3>1
    <3>2. ASSUME NEW step \in {"update", "gauge", "cast"}, Proceed(h, step)
          PROVE  \E k \in calls : g.lo = k.lo /\ g.request = k.request /\ g.state = k.state
      BY <3>2, ProceedEffect
    <3> QED
      BY <1>8, <3>1, <3>2, HandlerStep
  <2> QED
    BY <1>1, <2>1, <2>2
<1>9. CASE CODies
  BY <1>9 DEF CODies
<1>10. ASSUME UNCHANGED <<wire, said, relay, calls>> PROVE InOrder(g)'
  BY <1>1, <1>10
<1>11. ASSUME \A q \in Requests : ~Report(q), \A o \in LOs : ~LOStep(o) /\ ~Cut(o) /\ ~LODies(o),
              \A h \in calls : ~COStep(h), ~CODies
       PROVE  UNCHANGED <<wire, said, relay, calls>>
  BY <1>11 DEF StatusNext, Create, SaveDeploymentStatus, Count, Answer, Connect, statusVars, allVars
<1>12. ASSUME NEW o \in LOs, LOStep(o) PROVE InOrder(g)'
  BY <1>3, <1>4, <1>5, <1>6, <1>12 DEF LOStep
<1> HIDE DEF InOrder
<1> QED
  BY <1>2, <1>6, <1>7, <1>8, <1>9, <1>10, <1>11, <1>12, Zenon

LEMMA CallsApartStep ==
  ASSUME OwnTypes, CallsApart, CallsInOrder, [StatusNext]_allVars
  PROVE  CallsApart'
<1> SUFFICES ASSUME NEW g \in calls', NEW k \in calls',
                    g.lo = k.lo, g.request = k.request, g.state = k.state
             PROVE  g = k
  BY DEF CallsApart
<1>1. ASSUME calls' \subseteq calls PROVE g = k
  BY <1>1 DEF CallsApart
<1>2. ASSUME NEW h \in calls, NEW step \in {"update", "gauge", "cast"}, Proceed(h, step)
      PROVE  g = k
  <2>1. CASE g \in calls \ {h} /\ k \in calls \ {h}
    BY <2>1 DEF CallsApart
  <2>2. CASE g = [h EXCEPT !.step = step] /\ k = [h EXCEPT !.step = step]
    BY <2>2
  <2>3. CASE g \in calls \ {h} /\ k.lo = h.lo /\ k.request = h.request /\ k.state = h.state
    BY <2>3 DEF CallsApart
  <2>4. CASE k \in calls \ {h} /\ g.lo = h.lo /\ g.request = h.request /\ g.state = h.state
    BY <2>4 DEF CallsApart
  <2> QED
    BY <1>2, <2>1, <2>2, <2>3, <2>4, ProceedEffect
<1>3. ASSUME NEW r \in LOs, Post(r) PROVE g = k
  <2>1. ASSUME NEW h \in calls, h.lo = r, h.request = relay[r].request
        PROVE  h.state # relay[r].state
    <3>1. Level(h.state) < Level(relay[r].state)
      BY <1>3, <2>1, PostEffect DEF CallsInOrder
    <3> QED
      BY <3>1, LevelType
  <2> QED
    BY <1>3, <2>1, PostEffect DEF CallsApart
<1>4. ASSUME NEW h \in calls, COStep(h) PROVE g = k
  BY <1>1, <1>2, <1>4, HandlerStep
<1>5. ASSUME \A r \in LOs : ~Post(r), \A h \in calls : ~COStep(h) PROVE calls' \subseteq calls
  BY <1>5 DEF StatusNext, Create, SaveDeploymentStatus, Count, Answer, Connect, Report, LOStep,
     Take, Record, PostFails, Reply, Cut, LODies, CODies, statusVars, allVars
<1> QED
  BY <1>1, <1>3, <1>4, <1>5

LEMMA StatusInitInv == StatusInit => StatusInv
<1> SUFFICES ASSUME StatusInit PROVE StatusInv
  OBVIOUS
<1>1. StreamInv
  BY StreamInitInv DEF StatusInit
<1>2. [q \in Requests |-> << >>] \in [Requests -> Seq(Reported)]
  BY EmptySeq
<1>3. wire \in [LOs -> [Requests -> Seq(Reported)]]
  BY <1>2 DEF StatusInit
<1>4. trouble \in BOOLEAN
  BY DEF StatusInit
<1>5. missed \in SUBSET Reported
  BY DEF StatusInit
<1>6. calls = {} /\ gauge \in Int
  BY DEF StatusInit
<1>7. OwnTypes
  BY <1>3, <1>4, <1>5, <1>6 DEF StatusInit, OwnTypes
<1>8. \A r \in LOs, q \in Requests : Len(wire[r][q]) = 0
  BY DEF StatusInit
<1>9. \A r \in LOs : relay[r] = None
  BY DEF StatusInit
<1>10. WireInOrder
  BY <1>8 DEF WireInOrder
<1>11. RelayInOrder /\ CallsInOrder /\ CallsApart
  BY <1>6, <1>9 DEF RelayInOrder, CallsInOrder, CallsApart
<1> QED
  BY <1>1, <1>7, <1>10, <1>11, TypeParts DEF StatusInv, StreamInv

\* Types, streams and order hold together, whoever dies and whatever is lost.
THEOREM StatusInvHolds == StatusSpec => []StatusInv
<1>1. StatusInit => StatusInv
  BY StatusInitInv
<1>2. StatusInv /\ [StatusNext]_allVars => StatusInv'
  <2> SUFFICES ASSUME StatusInv, [StatusNext]_allVars PROVE StatusInv'
    OBVIOUS
  <2>1. OwnTypes /\ CallsApart /\ StatusTypeOK /\ StreamInv
        /\ WireInOrder /\ RelayInOrder /\ CallsInOrder
    BY TypeParts DEF StatusInv
  <2>2. StreamInv'
    BY <2>1, StreamInvStep
  <2>3. OwnTypes' /\ WireInOrder' /\ RelayInOrder'
    BY <2>1, OwnTypesStep, WireInOrderStep, RelayInOrderStep
  <2>4. CallsInOrder' /\ CallsApart'
    BY <2>1, CallsInOrderStep, CallsApartStep
  <2>5. StatusTypeOK'
    BY <2>2, <2>3, <2>4 DEF StatusTypeOK, OwnTypes, CallsApart, StreamInv
  <2> QED
    BY <2>2, <2>3, <2>4, <2>5 DEF StatusInv
<1> QED
  BY <1>1, <1>2, PTL DEF StatusSpec

\* Everything has its type, and no two handlers work on the same report: each is sent to
\* the CO at most once, over any deaths of the LO and any broken connections.
THEOREM StatusTypes == StatusSpec => []StatusTypeOK
<1>1. StatusInv => StatusTypeOK
  BY DEF StatusInv
<1> QED
  BY <1>1, StatusInvHolds, PTL

\* The streams of a deployment that is really reported on are those of StatusStream.
THEOREM StatusImplementsStream == StatusSpec => StreamSpec
<1>1. StatusInit => StreamInit
  BY DEF StatusInit
<1>2. StatusInv /\ [StatusNext]_allVars => [StreamNext]_streamVars
  BY StreamsStep DEF StatusInv
<1> QED
  BY <1>1, <1>2, StatusInvHolds, PTL DEF StatusSpec, StreamSpec

\* So the clients of a deployment that is really reported on read in order, miss nothing as
\* long as their channel has room, and are never sent to when theirs is closed.
THEOREM StatusStreamsAreSafe ==
  StatusSpec => [](InBroadcastOrder /\ NothingSkipped /\ NoSendOnClosed)
BY StatusImplementsStream, ClientsReadInOrder, DropsNeedFullChannel, ChannelsAreOpen, PTL

\* On each request a node reports what NodeReports lets them, which is what EdgeNode implements.
THEOREM NodesReportAsAllowed == StatusSpec => Node!ReportsSpec
<1>1. StatusInit => Node!ReportsInit
  BY DEF StatusInit, Node!ReportsInit
<1>2. [StatusNext]_allVars => [\E k \in Requests : Node!Say(k)]_said
  <2>1. ASSUME NEW q \in Requests, Report(q) PROVE Node!Say(q)
    BY <2>1 DEF Report, Node!Say
  <2>2. ASSUME \A q \in Requests : ~Report(q), [StatusNext]_allVars PROVE said' = said
    BY <2>2 DEF StatusNext, Create, SaveDeploymentStatus, Count, Answer, Connect, LOStep, COStep,
       Take, Record, Post, PostFails, Reply, Cut, LODies, Update, UpdateFails, CountDown, Cast,
       CODies, statusVars, allVars
  <2> QED
    BY <2>1, <2>2
<1> QED
  <2>1. StatusSpec => Node!ReportsInit
    BY <1>1, PTL DEF StatusSpec
  <2>2. StatusSpec => [][\E k \in Requests : Node!Say(k)]_said
    BY <1>2, PTL DEF StatusSpec
  <2> QED
    BY <2>1, <2>2, PTL DEF Node!ReportsSpec

-----------------------------------------------------------------------------
(* The components.                                                         *)

\* The names of the components are not the one that a node reports on.
LEMMA PartsStay == ASSUME OwnTypes, NEW s PROVE UpdatedParts(s) = parts
BY DEF UpdatedParts, OwnTypes, Named, Component

\* Rows of components are there with the row, as CreateDeployment entered them.
PartsInv ==
  /\ creation = "pushed" => row = None
  /\ row # None => parts = NewParts

LEMMA PartsStep ==
  ASSUME OwnTypes, PartsInv, [StatusNext]_allVars
  PROVE  PartsInv'
<1>1. CASE SaveDeploymentStatus
  BY <1>1 DEF SaveDeploymentStatus, PartsInv, NewParts
<1>2. ASSUME NEW s, row' \in {row, Updated(s)}, parts' \in {parts, UpdatedParts(s)},
             creation' = creation
      PROVE  PartsInv'
  BY <1>2, PartsStay DEF PartsInv, Updated, NewParts
<1>3. ASSUME NEW o \in LOs, Record(o)
      PROVE  PartsInv'
  <2>1. /\ row' \in {row, Updated(relay[o].state)} /\ creation' = creation
        /\ parts' \in {parts, UpdatedParts(relay[o].state)}
    BY <1>3 DEF Record
  <2> QED
    BY <1>2, <2>1
<1>4. ASSUME NEW h \in calls, Update(h)
      PROVE  PartsInv'
  BY <1>2, <1>4 DEF Update
<1>5. ASSUME UNCHANGED <<row, parts>>, creation' = "pushed" => creation = "pushed"
      PROVE  PartsInv'
  BY <1>5 DEF PartsInv, NewParts
<1>6. ASSUME ~SaveDeploymentStatus, \A o \in LOs : ~Record(o), \A h \in calls : ~Update(h)
      PROVE  UNCHANGED <<row, parts>> /\ (creation' = "pushed" => creation = "pushed")
  BY <1>6 DEF StatusNext, Create, Count, Answer, Connect, Report, LOStep, COStep,
     Take, Post, PostFails, Reply, Cut, LODies, UpdateFails, CountDown, Cast, CODies,
     statusVars, allVars
<1> QED
  BY <1>1, <1>3, <1>4, <1>5, <1>6

\* Whatever is reported, of how many nodes and over how many LOs, the components of a
\* deployment stand as they were created (UpdateDeploymentStatus: no row has the name
\* of the report's component).
THEOREM ComponentsNeverFollow == StatusSpec => [](row # None => parts = NewParts)
<1>1. StatusInit => PartsInv
  BY DEF StatusInit, PartsInv
<1>2. StatusInv /\ PartsInv /\ [StatusNext]_allVars => PartsInv'
  BY PartsStep, TypeParts DEF StatusInv
<1>3. PartsInv => (row # None => parts = NewParts)
  BY DEF PartsInv
<1> QED
  BY <1>1, <1>2, <1>3, StatusInvHolds, PTL DEF StatusSpec

-----------------------------------------------------------------------------
(* The gauge.                                                              *)

\* Trouble is not forgotten.
LEMMA TroubleStays ==
  ASSUME [StatusNext]_allVars
  PROVE  trouble => trouble'
<1>1. CASE Create
  BY <1>1 DEF Create, SaveDeploymentStatus, Count, Answer
<1>2. ASSUME NEW q \in Requests, Report(q) PROVE trouble => trouble'
  <2>1. PICK R \in SUBSET LOs : trouble' = trouble \/ trouble' = (trouble \/ R # LOs)
    BY <1>2 DEF Report
  <2>2. CASE trouble' = trouble
    BY <2>2
  <2>3. CASE trouble' = (trouble \/ R # LOs)
    BY <2>3
  <2> QED
    BY <2>1, <2>2, <2>3
<1>3. ASSUME NEW r \in LOs, LOStep(r) \/ Cut(r) \/ LODies(r) PROVE trouble => trouble'
  BY <1>3 DEF LOStep, Take, Record, Post, PostFails, Reply, Cut, LODies
<1>4. ASSUME NEW h \in calls, COStep(h) PROVE trouble => trouble'
  BY <1>4 DEF COStep, Update, UpdateFails, CountDown, Cast
<1>5. CASE CODies
  BY <1>5 DEF CODies
<1>6. ASSUME UNCHANGED statusVars PROVE trouble => trouble'
  BY <1>6 DEF statusVars
<1> QED
  BY <1>1, <1>2, <1>3, <1>4, <1>5, <1>6 DEF StatusNext, Connect, allVars

\* A report on a request, and where it is put.
LEMMA ReportSays ==
  ASSUME OwnTypes, NEW q \in Requests, Report(q)
  PROVE  /\ said[q] \notin Final
         /\ \A m \in Requests : m # q => said'[m] = said[m]
         /\ UNCHANGED <<relay, calls, gauge, creation>>
         /\ ~trouble' /\ said'[q] \in Final =>
              \A r \in LOs : wire'[r][q] = Append(wire[r][q], said'[q])
<1>1. PICK s \in Node!After(q, said[q]), R \in SUBSET LOs :
        /\ said' = [said EXCEPT ![q] = s]
        /\ IF s = "completed"
           THEN UNCHANGED <<wire, trouble>>
           ELSE /\ wire' = [r \in LOs |->
                     IF r \in R THEN [wire[r] EXCEPT ![q] = Append(wire[r][q], s)] ELSE wire[r]]
                /\ trouble' = (trouble \/ R # LOs)
  BY DEF Report
<1>2. said'[q] = s /\ \A m \in Requests : m # q => said'[m] = said[m]
  BY <1>1 DEF OwnTypes
<1>3. ASSUME ~trouble', said'[q] \in Final, NEW r \in LOs
      PROVE  wire'[r][q] = Append(wire[r][q], said'[q])
  <2>1. s # "completed"
    BY <1>2, <1>3 DEF Final
  <2>2. R = LOs
    BY <1>1, <1>3, <2>1
  <2>3. wire'[r] = [wire[r] EXCEPT ![q] = Append(wire[r][q], s)]
    BY <1>1, <2>1, <2>2
  <2>4. wire[r] \in [Requests -> Seq(Reported)]
    BY DEF OwnTypes
  <2> QED
    BY <1>2, <2>3, <2>4
<1> QED
  BY <1>2, <1>3 DEF Report

\* Only a report changes what is said on a request, and a last word stays.
LEMMA LastWordStays ==
  ASSUME OwnTypes, [StatusNext]_allVars
  PROVE  /\ (\A q \in Requests : ~Report(q)) => said' = said
         /\ \A q \in Requests : said[q] \in Final => said'[q] = said[q]
<1>1. ASSUME \A q \in Requests : ~Report(q) PROVE said' = said
  <2>1. ASSUME NEW r \in LOs, NEW q \in Requests, LODies(r) \/ Take(r, q) PROVE said' = said
    BY <2>1 DEF LODies, Take
  <2>2. CASE \A r \in LOs : ~LODies(r) /\ \A q \in Requests : ~Take(r, q)
    BY <1>1, <2>2, WireFrame
  <2>3. CASE ~(\A r \in LOs : ~LODies(r) /\ \A q \in Requests : ~Take(r, q))
    <3>1. CASE \E r \in LOs : LODies(r)
      BY <3>1 DEF LODies
    <3>2. CASE \E r \in LOs, q \in Requests : Take(r, q)
      BY <3>2 DEF Take
    <3> QED
      BY <2>3, <3>1, <3>2
  <2> QED
    BY <2>2, <2>3
<1>2. ASSUME NEW q \in Requests, said[q] \in Final PROVE said'[q] = said[q]
  BY <1>1, <1>2, ReportSays
<1> QED
  BY <1>1, <1>2

\* A final report on its way is the last word on its request.
LastWordInv ==
  /\ \A r \in LOs, q \in Requests : \A i \in 1 .. Len(wire[r][q]) :
        wire[r][q][i] \in Final => wire[r][q][i] = said[q]
  /\ \A r \in LOs :
        relay[r] # None /\ relay[r].state \in Final => relay[r].state = said[relay[r].request]
  /\ \A h \in calls : h.state \in Final => h.state = said[h.request]

LEMMA LastWordStep ==
  ASSUME OwnTypes, LastWordInv, [StatusNext]_allVars
  PROVE  LastWordInv'
<1>0. \A q \in Requests : said[q] \in Final => said'[q] = said[q]
  BY LastWordStays
<1>1. ASSUME NEW r \in LOs, NEW q \in Requests, NEW i \in 1 .. Len(wire'[r][q]),
             wire'[r][q][i] \in Final
      PROVE  wire'[r][q][i] = said'[q]
  <2>1. ASSUME wire'[r][q] = wire[r][q] PROVE wire'[r][q][i] = said'[q]
    BY <1>0, <1>1, <2>1 DEF LastWordInv
  <2>2. ASSUME NEW m \in Requests, Report(m) PROVE wire'[r][q][i] = said'[q]
    <3>1. CASE wire'[r][q] # wire[r][q]
      <4>1. m = q /\ said'[q] \in Reported /\ wire'[r][q] = Append(wire[r][q], said'[q])
        BY <2>2, <3>1, ReportEffect
      <4>2. wire[r][q] \in Seq(Reported)
        BY DEF OwnTypes
      <4>3. /\ Len(wire[r][q]) \in Nat /\ Len(wire'[r][q]) = Len(wire[r][q]) + 1
            /\ \A j \in 1 .. Len(wire[r][q]) : wire'[r][q][j] = wire[r][q][j]
            /\ wire'[r][q][Len(wire[r][q]) + 1] = said'[q]
        BY <4>1, <4>2, AppendProperties, LenProperties
      <4>4. i \in 1 .. Len(wire[r][q]) \/ i = Len(wire[r][q]) + 1
        BY <4>3
      <4> QED
        BY <1>0, <1>1, <4>3, <4>4 DEF LastWordInv
    <3> QED
      BY <2>1, <3>1
  <2>3. ASSUME NEW o \in LOs, NEW m \in Requests, Take(o, m) PROVE wire'[r][q][i] = said'[q]
    <3>1. CASE o = r /\ m = q
      <4>1. /\ Len(wire[r][q]) \in Nat /\ Len(wire'[r][q]) = Len(wire[r][q]) - 1
            /\ \A j \in 1 .. Len(wire'[r][q]) : wire'[r][q][j] = wire[r][q][j + 1]
        BY <2>3, <3>1, TakeEffect
      <4>2. i + 1 \in 1 .. Len(wire[r][q]) /\ wire'[r][q][i] = wire[r][q][i + 1]
        BY <4>1
      <4> QED
        BY <1>0, <1>1, <4>2 DEF LastWordInv
    <3> QED
      BY <2>1, <2>3, <3>1, TakeEffect
  <2>4. ASSUME NEW o \in LOs, LODies(o) PROVE wire'[r][q][i] = said'[q]
    <3>1. wire'[r][q] = wire[r][q] \/ wire'[r][q] = << >>
      BY <2>4 DEF LODies, OwnTypes
    <3>2. wire'[r][q] # << >>
      <4>1. Len(<< >>) = 0
        BY EmptySeq
      <4> QED
        BY <1>1, <4>1
    <3> QED
      BY <2>1, <3>1, <3>2
  <2> QED
    BY <2>1, <2>2, <2>3, <2>4, WireFrame
<1>2. ASSUME NEW r \in LOs, relay'[r] # None, relay'[r].state \in Final
      PROVE  relay'[r].state = said'[relay'[r].request]
  <2>1. ASSUME relay[r] # None, relay'[r].state = relay[r].state, relay'[r].request = relay[r].request
        PROVE  relay'[r].state = said'[relay'[r].request]
    BY <1>0, <1>2, <2>1, RelayType DEF LastWordInv
  <2>2. ASSUME NEW q \in Requests, Take(r, q) PROVE relay'[r].state = said'[relay'[r].request]
    <3>1. /\ Len(wire[r][q]) >= 1 /\ Len(wire[r][q]) \in Nat
          /\ relay'[r].request = q /\ relay'[r].state = wire[r][q][1] /\ said' = said
      BY <1>2, <2>2, TakeEffect
    <3>2. 1 \in 1 .. Len(wire[r][q])
      BY <3>1
    <3> QED
      BY <1>2, <3>1, <3>2 DEF LastWordInv
  <2>3. ASSUME Record(r) \/ Post(r) PROVE relay'[r].state = said'[relay'[r].request]
    <3>1. relay[r] # None /\ \E step \in {"record", "post", "wait"} : relay' = [relay EXCEPT ![r].step = step]
      BY <2>3 DEF Record, Post
    <3>2. relay'[r].state = relay[r].state /\ relay'[r].request = relay[r].request
      BY <3>1, RelayMoves
    <3> QED
      BY <2>1, <3>1, <3>2
  <2>4. ASSUME relay'[r] = relay[r] PROVE relay'[r].state = said'[relay'[r].request]
    BY <1>2, <2>1, <2>4
  <2>5. PostFails(r) \/ Reply(r) \/ Cut(r) \/ LODies(r) => relay'[r] = None
    BY DEF PostFails, Reply, Cut, LODies, OwnTypes
  <2>6. ASSUME NEW o \in LOs, o # r, LOStep(o) \/ Cut(o) \/ LODies(o) PROVE relay'[r] = relay[r]
    BY <2>6 DEF LOStep, Take, Record, Post, PostFails, Reply, Cut, LODies, OwnTypes
  <2>7. ASSUME \A o \in LOs : ~LOStep(o) /\ ~Cut(o) /\ ~LODies(o) PROVE relay'[r] = relay[r]
    BY <2>7 DEF StatusNext, Create, SaveDeploymentStatus, Count, Answer, Connect, Report, COStep,
       Update, UpdateFails, CountDown, Cast, CODies, statusVars, allVars
  <2> QED
    BY <1>2, <2>2, <2>3, <2>4, <2>5, <2>6, <2>7 DEF LOStep
<1>3. ASSUME NEW h \in calls', h.state \in Final
      PROVE  h.state = said'[h.request]
  <2>1. ASSUME NEW g \in calls, h.state = g.state, h.request = g.request PROVE h.state = said'[h.request]
    BY <1>0, <1>3, <2>1, CallType DEF LastWordInv
  <2>2. ASSUME NEW r \in LOs, Post(r) PROVE h.state = said'[h.request]
    <3>1. CASE h = CallOf(r, "update")
      <4>1. relay[r] # None /\ h.state = relay[r].state /\ h.request = relay[r].request
        BY <2>2, <3>1, PostEffect
      <4> QED
        BY <1>0, <1>3, <4>1, RelayType DEF LastWordInv
    <3> QED
      BY <2>1, <2>2, <3>1, PostEffect
  <2>3. ASSUME NEW g \in calls, COStep(g) PROVE h.state = said'[h.request]
    <3>1. CASE h \in calls
      BY <2>1, <3>1
    <3>2. CASE h \notin calls
      <4>1. PICK step \in {"update", "gauge", "cast"} : Proceed(g, step)
        BY <2>3, <3>2, HandlerStep
      <4>2. h.state = g.state /\ h.request = g.request
        BY <3>2, <4>1, ProceedEffect
      <4> QED
        BY <2>1, <4>2
    <3> QED
      BY <3>1, <3>2
  <2>4. ASSUME \A r \in LOs : ~Post(r), \A g \in calls : ~COStep(g) PROVE calls' \subseteq calls
    BY <2>4 DEF StatusNext, Create, SaveDeploymentStatus, Count, Answer, Connect, Report, LOStep,
       Take, Record, PostFails, Reply, Cut, LODies, CODies, statusVars, allVars
  <2> QED
    BY <2>1, <2>2, <2>3, <2>4
<1> QED
  BY <1>1, <1>2, <1>3 DEF LastWordInv

\* A final report that the gauge has yet to see: under way to the LO, in its hand, or
\* with a handler of the CO.
FinalOnWire(r, q) == \E i \in 1 .. Len(wire[r][q]) : wire[r][q][i] \in Final
FinalInHand(r, q) ==
  relay[r] # None /\ relay[r].request = q /\ relay[r].state \in Final /\ relay[r].step # "wait"
FinalAtCO(r, q) ==
  \E h \in calls : h.lo = r /\ h.request = q /\ h.state \in Final /\ h.step # "cast"
Uncounted(r, q) == FinalOnWire(r, q) \/ FinalInHand(r, q) \/ FinalAtCO(r, q)

\* The LOs and requests that the gauge is through with.
Over == {p \in LOs \X Requests : said[p[2]] \in Final /\ ~Uncounted(p[1], p[2])}

\* What is taken from a wire is in the LO's hand.
LEMMA TakeUncounted ==
  ASSUME OwnTypes, NEW o \in LOs, NEW m \in Requests, Take(o, m), NEW r \in LOs, NEW q \in Requests
  PROVE  Uncounted(r, q)' <=> Uncounted(r, q)
<1>1. /\ relay[o] = None /\ relay'[o] # None /\ relay'[o].request = m
      /\ relay'[o].state = wire[o][m][1] /\ relay'[o].step = "record"
      /\ calls' = calls
  <2>1. relay'[o] = [request |-> m, state |-> Head(wire[o][m]), step |-> "record"]
    BY DEF Take, OwnTypes
  <2>2. Head(wire[o][m]) \in Reported
    BY HeadTailProperties DEF Take, OwnTypes
  <2>3. relay'[o] \in Relayed
    BY <2>1, <2>2 DEF Relayed
  <2>4. relay'[o] # None
    BY <2>3, StatusAssumption
  <2> QED
    BY <2>4, TakeEffect DEF Take
<1>2. FinalAtCO(r, q)' <=> FinalAtCO(r, q)
  BY <1>1 DEF FinalAtCO
<1>3. CASE ~(o = r /\ m = q)
  <2>1. wire'[r][q] = wire[r][q]
    BY <1>3, TakeEffect
  <2>2. FinalOnWire(r, q)' <=> FinalOnWire(r, q)
    BY <2>1 DEF FinalOnWire
  <2>3. FinalInHand(r, q)' <=> FinalInHand(r, q)
    <3>1. CASE o = r
      BY <1>1, <1>3, <3>1 DEF FinalInHand
    <3>2. CASE o # r
      <4>1. relay'[r] = relay[r]
        BY <3>2, TakeEffect
      <4> QED
        BY <4>1 DEF FinalInHand
    <3> QED
      BY <3>1, <3>2
  <2> QED
    BY <1>2, <2>2, <2>3 DEF Uncounted
<1>4. CASE o = r /\ m = q
  <2>1. /\ Len(wire[r][q]) >= 1 /\ Len(wire[r][q]) \in Nat
        /\ Len(wire'[r][q]) = Len(wire[r][q]) - 1
        /\ \A i \in 1 .. Len(wire'[r][q]) : wire'[r][q][i] = wire[r][q][i + 1]
    BY <1>4, TakeEffect
  <2>2. FinalInHand(r, q)' <=> wire[r][q][1] \in Final
    BY <1>1, <1>4 DEF FinalInHand
  <2>3. ~FinalInHand(r, q)
    BY <1>1, <1>4 DEF FinalInHand
  <2>4. ASSUME FinalOnWire(r, q) PROVE FinalOnWire(r, q)' \/ wire[r][q][1] \in Final
    <3>1. PICK i \in 1 .. Len(wire[r][q]) : wire[r][q][i] \in Final
      BY <2>4 DEF FinalOnWire
    <3>2. CASE i # 1
      <4>1. i - 1 \in 1 .. Len(wire'[r][q]) /\ (i - 1) + 1 = i
        BY <2>1, <3>2
      <4>2. wire'[r][q][i - 1] \in Final
        BY <2>1, <3>1, <4>1
      <4> QED
        BY <4>1, <4>2 DEF FinalOnWire
    <3> QED
      BY <3>1, <3>2
  <2>5. ASSUME FinalOnWire(r, q)' PROVE FinalOnWire(r, q)
    <3>1. PICK i \in 1 .. Len(wire'[r][q]) : wire'[r][q][i] \in Final
      BY <2>5 DEF FinalOnWire
    <3>2. i + 1 \in 1 .. Len(wire[r][q]) /\ wire[r][q][i + 1] \in Final
      BY <2>1, <3>1
    <3> QED
      BY <3>2 DEF FinalOnWire
  <2>6. wire[r][q][1] \in Final => FinalOnWire(r, q)
    BY <2>1 DEF FinalOnWire
  <2> QED
    BY <1>2, <2>2, <2>3, <2>4, <2>5, <2>6 DEF Uncounted
<1> QED
  BY <1>3, <1>4

\* What the LO posts is with the CO.
LEMMA PostUncounted ==
  ASSUME OwnTypes, NEW o \in LOs, Post(o), NEW r \in LOs, NEW q \in Requests
  PROVE  Uncounted(r, q)' <=> Uncounted(r, q)
<1>1. FinalOnWire(r, q)' <=> FinalOnWire(r, q)
  <2>1. wire' = wire
    BY PostEffect
  <2> QED
    BY <2>1 DEF FinalOnWire
<1>2. CASE o # r
  <2>1. relay'[r] = relay[r]
    BY <1>2, PostEffect
  <2>2. FinalInHand(r, q)' <=> FinalInHand(r, q)
    BY <2>1 DEF FinalInHand
  <2>3. \A h \in calls' : h.lo = r => h \in calls
    BY <1>2, PostEffect
  <2>4. FinalAtCO(r, q)' <=> FinalAtCO(r, q)
    BY <2>3, PostEffect DEF FinalAtCO
  <2> QED
    BY <1>1, <2>2, <2>4 DEF Uncounted
<1>3. CASE o = r
  <2> DEFINE k == CallOf(r, "update")
  <2>1. /\ relay[r] # None /\ relay[r].step = "post" /\ relay'[r].step = "wait"
        /\ k.lo = r /\ k.request = relay[r].request /\ k.state = relay[r].state
        /\ k.step = "update" /\ calls' = calls \union {k}
    BY <1>3, PostEffect
  <2> HIDE DEF k
  <2>2. ~FinalInHand(r, q)'
    BY <2>1 DEF FinalInHand
  <2>3. FinalAtCO(r, q)' <=> FinalAtCO(r, q) \/ FinalInHand(r, q)
    BY <2>1 DEF FinalAtCO, FinalInHand
  <2> QED
    BY <1>1, <2>2, <2>3 DEF Uncounted
<1> QED
  BY <1>2, <1>3

\* Any other step of an LO, or its death, puts nothing on the way.
LEMMA RelayUncounted ==
  ASSUME OwnTypes, NEW o \in LOs,
         Record(o) \/ PostFails(o) \/ Reply(o) \/ Cut(o) \/ LODies(o),
         NEW r \in LOs, NEW q \in Requests
  PROVE  /\ Uncounted(r, q)' => Uncounted(r, q)
         /\ ~trouble' => (Uncounted(r, q) => Uncounted(r, q)')
<1>1. FinalAtCO(r, q)' <=> FinalAtCO(r, q)
  <2>1. calls' = calls
    BY DEF Record, PostFails, Reply, Cut, LODies
  <2> QED
    BY <2>1 DEF FinalAtCO
<1>2. /\ wire'[r][q] = wire[r][q] \/ (LODies(o) /\ wire'[r][q] = << >>)
      /\ ~LODies(o) => wire'[r][q] = wire[r][q]
  BY DEF Record, PostFails, Reply, Cut, LODies, OwnTypes
<1>3. /\ FinalOnWire(r, q)' => FinalOnWire(r, q)
      /\ ~trouble' => (FinalOnWire(r, q) => FinalOnWire(r, q)')
  <2>1. CASE wire'[r][q] = wire[r][q]
    BY <2>1 DEF FinalOnWire
  <2>2. CASE LODies(o) /\ wire'[r][q] = << >>
    <3>1. Len(<< >>) = 0 /\ 1 .. 0 = {}
      BY EmptySeq
    <3>2. ~FinalOnWire(r, q)'
      BY <2>2, <3>1 DEF FinalOnWire
    <3>3. trouble'
      BY <2>2 DEF LODies
    <3> QED
      BY <3>2, <3>3
  <2> QED
    BY <1>2, <2>1, <2>2
<1>4. /\ FinalInHand(r, q)' => FinalInHand(r, q)
      /\ ~trouble' => (FinalInHand(r, q) => FinalInHand(r, q)')
  <2>1. CASE relay'[r] = relay[r]
    BY <2>1 DEF FinalInHand
  <2>2. CASE relay'[r] # relay[r]
    <3>1. o = r
      BY <2>2 DEF Record, PostFails, Reply, Cut, LODies, OwnTypes
    <3>2. CASE Record(r)
      <4>1. relay[r] # None /\ relay[r].step = "record" /\ relay' = [relay EXCEPT ![r].step = "post"]
        BY <3>2 DEF Record
      <4>2. /\ relay'[r].request = relay[r].request /\ relay'[r].state = relay[r].state
            /\ relay'[r].step = "post"
        BY <4>1, RelayMoves
      <4>3. relay[r] \in Relayed
        BY <4>1, RelayType
      <4>4. relay'[r] \in Relayed
        BY <4>1, <4>3 DEF OwnTypes, Relayed
      <4>5. relay'[r] # None
        BY <4>4, StatusAssumption
      <4> QED
        BY <4>1, <4>2, <4>5 DEF FinalInHand
    <3>3. CASE PostFails(r) \/ Cut(r) \/ LODies(r)
      <4>1. relay'[r] = None
        BY <3>3 DEF PostFails, Cut, LODies, OwnTypes
      <4>2. trouble'
        BY <3>3 DEF PostFails, Cut, LODies
      <4> QED
        BY <4>1, <4>2 DEF FinalInHand
    <3>4. CASE Reply(r)
      <4>1. relay'[r] = None /\ relay[r].step = "wait"
        BY <3>4 DEF Reply, OwnTypes
      <4> QED
        BY <4>1 DEF FinalInHand
    <3> QED
      BY <3>1, <3>2, <3>3, <3>4
  <2> QED
    BY <2>1, <2>2
<1> QED
  BY <1>1, <1>3, <1>4 DEF Uncounted

\* A handler's step keeps its report before the gauge, or past it.
LEMMA HandlerUncounted ==
  ASSUME OwnTypes, NEW h \in calls, COStep(h), NEW r \in LOs, NEW q \in Requests,
         ~(CountDown(h) /\ h.state \in Final /\ h.lo = r /\ h.request = q)
  PROVE  Uncounted(r, q)' <=> Uncounted(r, q)
<1>1. UNCHANGED <<wire, relay, said>>
  BY HandlerStep
<1>2. FinalOnWire(r, q)' <=> FinalOnWire(r, q)
  BY <1>1 DEF FinalOnWire
<1>3. FinalInHand(r, q)' <=> FinalInHand(r, q)
  BY <1>1 DEF FinalInHand
<1>4. FinalAtCO(r, q)' <=> FinalAtCO(r, q)
  <2>1. CASE Cast(h)
    <3>1. calls' = calls \ {h} /\ h.step = "cast"
      BY <2>1 DEF Cast
    <3> QED
      BY <3>1 DEF FinalAtCO
  <2>2. ASSUME NEW step \in {"update", "gauge", "cast"}, Proceed(h, step), h.step # "cast",
               step # "cast" \/ ~(h.state \in Final /\ h.lo = r /\ h.request = q)
        PROVE  FinalAtCO(r, q)' <=> FinalAtCO(r, q)
    <3> DEFINE k == [h EXCEPT !.step = step]
    <3>1. /\ k.lo = h.lo /\ k.request = h.request /\ k.state = h.state /\ k.step = step
          /\ calls' = (calls \ {h}) \union {k}
      BY <2>2, CallType DEF Proceed
    <3> HIDE DEF k
    <3> QED
      BY <2>2, <3>1 DEF FinalAtCO
  <2>3. CASE Update(h) \/ UpdateFails(h)
    <3>1. Proceed(h, "gauge") /\ h.step = "update"
      BY <2>3 DEF Update, UpdateFails
    <3> QED
      BY <2>2, <3>1
  <2>4. CASE CountDown(h)
    <3>1. Proceed(h, "cast") /\ h.step = "gauge"
      BY <2>4 DEF CountDown
    <3> QED
      BY <2>2, <2>4, <3>1
  <2> QED
    BY <2>1, <2>3, <2>4 DEF COStep
<1> QED
  BY <1>2, <1>3, <1>4 DEF Uncounted

\* The gauge sees a last word once: no other final report on the request is on the
\* way of this LO.
LEMMA CountedOnce ==
  ASSUME StatusInv, LastWordInv, NEW h \in calls, CountDown(h), h.state \in Final
  PROVE  /\ h.lo \in LOs /\ h.request \in Requests /\ said[h.request] \in Final
         /\ Uncounted(h.lo, h.request) /\ ~Uncounted(h.lo, h.request)'
<1>0. OwnTypes /\ CallsApart /\ CallsInOrder
  BY TypeParts DEF StatusInv
<1>1. /\ h.lo \in LOs /\ h.request \in Requests /\ said[h.request] = h.state
      /\ h.step = "gauge" /\ Proceed(h, "cast") /\ UNCHANGED <<wire, relay>>
  BY <1>0, CallType DEF CountDown, LastWordInv
<1> DEFINE r == h.lo
           q == h.request
           k == [h EXCEPT !.step = "cast"]
<1>2. k.step = "cast" /\ calls' = (calls \ {h}) \union {k}
  BY <1>0, <1>1, CallType DEF Proceed
<1> HIDE DEF k
<1>3. Level(h.state) = 3 /\ \A s : Level(s) <= 3 /\ Level(s) \in Nat
  BY DEF Level, Final
<1>4. ~FinalOnWire(r, q)
  <2>1. \A i \in 1 .. Len(wire[r][q]) : Level(h.state) < Level(wire[r][q][i])
    BY <1>0 DEF CallsInOrder
  <2> QED
    BY <1>3, <2>1 DEF FinalOnWire
<1>5. ~FinalInHand(r, q)
  <2>1. relay[r] # None /\ relay[r].request = q /\ relay[r].step # "wait" =>
          Level(h.state) < Level(relay[r].state)
    BY <1>0 DEF CallsInOrder
  <2> QED
    BY <1>3, <2>1 DEF FinalInHand
<1>6. \A g \in calls \ {h} : ~(g.lo = r /\ g.request = q /\ g.state \in Final)
  <2> SUFFICES ASSUME NEW g \in calls \ {h}, g.lo = r, g.request = q, g.state \in Final
               PROVE  FALSE
    OBVIOUS
  <2>1. g.state = h.state
    BY <1>1 DEF LastWordInv
  <2>2. g = h
    BY <1>0, <2>1 DEF CallsApart
  <2> QED
    BY <2>2
<1>7. ~FinalAtCO(r, q)'
  BY <1>2, <1>6 DEF FinalAtCO
<1>8. FinalAtCO(r, q)
  BY <1>1 DEF FinalAtCO
<1>9. ~FinalOnWire(r, q)' /\ ~FinalInHand(r, q)'
  <2>1. FinalOnWire(r, q)' <=> FinalOnWire(r, q)
    BY <1>1 DEF FinalOnWire
  <2>2. FinalInHand(r, q)' <=> FinalInHand(r, q)
    BY <1>1 DEF FinalInHand
  <2> QED
    BY <1>4, <1>5, <2>1, <2>2
<1> QED
  BY <1>1, <1>7, <1>8, <1>9 DEF Uncounted

\* What the gauge is through with it is through with for good, and without trouble only
\* a handler that counts down adds to it.
LEMMA OverStep ==
  ASSUME StatusInv, LastWordInv, [StatusNext]_allVars, NEW r \in LOs, NEW q \in Requests
  PROVE  /\ <<r, q>> \in Over => <<r, q>> \in Over'
         /\ /\ ~trouble'
            /\ \A h \in calls :
                 ~(CountDown(h) /\ h.state \in Final /\ h.lo = r /\ h.request = q)
            => (<<r, q>> \in Over' => <<r, q>> \in Over)
<1>0. OwnTypes
  BY TypeParts DEF StatusInv
<1>1. /\ <<r, q>> \in Over <=> said[q] \in Final /\ ~Uncounted(r, q)
      /\ <<r, q>> \in Over' <=> said'[q] \in Final /\ ~Uncounted(r, q)'
  BY DEF Over
<1>2. ASSUME said'[q] = said[q], Uncounted(r, q)' <=> Uncounted(r, q)
      PROVE  <<r, q>> \in Over' <=> <<r, q>> \in Over
  BY <1>1, <1>2
<1>3. ASSUME NEW m \in Requests, Report(m)
      PROVE  /\ <<r, q>> \in Over => <<r, q>> \in Over'
             /\ ~trouble' => (<<r, q>> \in Over' => <<r, q>> \in Over)
  <2>1. CASE m # q
    <3>1. wire'[r][q] = wire[r][q] /\ said'[q] = said[q] /\ UNCHANGED <<relay, calls>>
      BY <1>0, <1>3, <2>1, ReportEffect, ReportSays
    <3>2. Uncounted(r, q)' <=> Uncounted(r, q)
      BY <3>1 DEF Uncounted, FinalOnWire, FinalInHand, FinalAtCO
    <3> QED
      BY <1>2, <3>1, <3>2
  <2>2. CASE m = q
    <3>1. said[q] \notin Final
      BY <1>0, <1>3, <2>2, ReportSays
    <3>2. ASSUME ~trouble', said'[q] \in Final PROVE FinalOnWire(r, q)'
      <4>1. wire'[r][q] = Append(wire[r][q], said'[q])
        BY <1>0, <1>3, <2>2, <3>2, ReportSays
      <4>2. wire[r][q] \in Seq(Reported) /\ said'[q] \in Reported
        BY <1>0, <3>2 DEF OwnTypes, Reported
      <4>3. /\ Len(wire[r][q]) \in Nat /\ Len(wire'[r][q]) = Len(wire[r][q]) + 1
            /\ wire'[r][q][Len(wire[r][q]) + 1] = said'[q]
        BY <4>1, <4>2, AppendProperties, LenProperties
      <4>4. Len(wire[r][q]) + 1 \in 1 .. Len(wire'[r][q])
        BY <4>3
      <4> QED
        BY <3>2, <4>3, <4>4 DEF FinalOnWire
    <3> QED
      BY <1>1, <3>1, <3>2 DEF Uncounted
  <2> QED
    BY <2>1, <2>2
<1>4. ASSUME NEW o \in LOs, NEW m \in Requests, Take(o, m)
      PROVE  <<r, q>> \in Over' <=> <<r, q>> \in Over
  BY <1>0, <1>2, <1>4, TakeUncounted, TakeEffect
<1>5. ASSUME NEW o \in LOs, Post(o)
      PROVE  <<r, q>> \in Over' <=> <<r, q>> \in Over
  BY <1>0, <1>2, <1>5, PostUncounted, PostEffect
<1>6. ASSUME NEW o \in LOs, Record(o) \/ PostFails(o) \/ Reply(o) \/ Cut(o) \/ LODies(o)
      PROVE  /\ <<r, q>> \in Over => <<r, q>> \in Over'
             /\ ~trouble' => (<<r, q>> \in Over' => <<r, q>> \in Over)
  <2>1. said' = said
    BY <1>6 DEF Record, PostFails, Reply, Cut, LODies
  <2>2. /\ Uncounted(r, q)' => Uncounted(r, q)
        /\ ~trouble' => (Uncounted(r, q) => Uncounted(r, q)')
    BY <1>0, <1>6, RelayUncounted
  <2> QED
    BY <1>1, <2>1, <2>2
<1>7. ASSUME NEW h \in calls, COStep(h)
      PROVE  /\ <<r, q>> \in Over => <<r, q>> \in Over'
             /\ ~(CountDown(h) /\ h.state \in Final /\ h.lo = r /\ h.request = q)
                => (<<r, q>> \in Over' => <<r, q>> \in Over)
  <2>1. said' = said
    BY <1>0, <1>7, HandlerStep
  <2>2. CASE ~(CountDown(h) /\ h.state \in Final /\ h.lo = r /\ h.request = q)
    BY <1>0, <1>2, <1>7, <2>1, <2>2, HandlerUncounted
  <2>3. CASE CountDown(h) /\ h.state \in Final /\ h.lo = r /\ h.request = q
    <3>1. Uncounted(r, q)
      BY <2>3, CountedOnce
    <3> QED
      BY <1>1, <2>3, <3>1
  <2> QED
    BY <2>2, <2>3
<1>8. CASE CODies
  <2>1. UNCHANGED <<said, wire, relay>> /\ calls' = {} /\ trouble'
    BY <1>8 DEF CODies
  <2>2. Uncounted(r, q)' => Uncounted(r, q)
    BY <2>1 DEF Uncounted, FinalOnWire, FinalInHand, FinalAtCO
  <2> QED
    BY <1>1, <2>1, <2>2
<1>9. ASSUME UNCHANGED <<said, wire, relay, calls>>
      PROVE  <<r, q>> \in Over' <=> <<r, q>> \in Over
  <2>1. Uncounted(r, q)' <=> Uncounted(r, q)
    BY <1>9 DEF Uncounted, FinalOnWire, FinalInHand, FinalAtCO
  <2> QED
    BY <1>2, <1>9, <2>1
<1>10. Create \/ (\E c \in Clients : Connect(c) \/ (Serve(c) /\ UNCHANGED statusVars))
         \/ UNCHANGED allVars => UNCHANGED <<said, wire, relay, calls>>
  BY DEF Create, SaveDeploymentStatus, Count, Answer, Connect, statusVars, allVars
<1> QED
  BY <1>3, <1>4, <1>5, <1>6, <1>7, <1>8, <1>9, <1>10 DEF StatusNext, LOStep

\* Up once the CO has counted the deployment.
Counts == IF creation \in {"counted", "answered"} THEN 1 ELSE 0

\* The gauge goes down at most once for every LO and request, and without trouble so often.
GaugeInv ==
  /\ gauge \in -Cardinality(Over) .. Counts
  /\ ~trouble => creation # "died" /\ gauge = Counts - Cardinality(Over)

LEMMA OverSize ==
  ASSUME IsFiniteSet(Requests), IsFiniteSet(LOs)
  PROVE  /\ IsFiniteSet(Over) /\ Cardinality(Over) \in Nat
         /\ Cardinality(LOs \X Requests) \in Nat
         /\ Cardinality(Over) <= Cardinality(LOs \X Requests)
<1>1. IsFiniteSet(LOs \X Requests)
  BY FS_Product
<1>2. Over \subseteq LOs \X Requests
  BY DEF Over
<1> QED
  BY <1>1, <1>2, FS_Subset, FS_CardinalityType

\* How a step changes what the gauge is through with, in number.
LEMMA OverGrows ==
  ASSUME IsFiniteSet(Requests), IsFiniteSet(LOs), StatusInv, LastWordInv, [StatusNext]_allVars
  PROVE  /\ Cardinality(Over) \in Nat /\ Cardinality(Over') \in Nat
         /\ Cardinality(Over) <= Cardinality(Over')
         /\ /\ ~trouble'
            /\ \A h \in calls : ~(CountDown(h) /\ h.state \in Final)
            => Cardinality(Over') = Cardinality(Over)
         /\ \A h \in calls : CountDown(h) /\ h.state \in Final =>
              /\ Cardinality(Over) + 1 <= Cardinality(Over')
              /\ ~trouble' => Cardinality(Over') = Cardinality(Over) + 1
<1>1. /\ IsFiniteSet(Over) /\ Cardinality(Over) \in Nat
      /\ Over \subseteq LOs \X Requests
  BY OverSize DEF Over
<1>2. Over' \subseteq LOs \X Requests
  BY DEF Over
<1>3. IsFiniteSet(Over') /\ Cardinality(Over') \in Nat
  BY <1>2, FS_Product, FS_Subset, FS_CardinalityType
<1>4. Over \subseteq Over'
  BY <1>1, OverStep
<1>5. Cardinality(Over) <= Cardinality(Over')
  BY <1>3, <1>4, FS_Subset
<1>6. ASSUME ~trouble', \A h \in calls : ~(CountDown(h) /\ h.state \in Final)
      PROVE  Cardinality(Over') = Cardinality(Over)
  <2>1. Over' \subseteq Over
    BY <1>2, <1>6, OverStep
  <2>2. Over' = Over
    BY <1>4, <2>1
  <2> QED
    BY <2>2
<1>7. ASSUME NEW h \in calls, CountDown(h), h.state \in Final
      PROVE  /\ Cardinality(Over) + 1 <= Cardinality(Over')
             /\ ~trouble' => Cardinality(Over') = Cardinality(Over) + 1
  <2> DEFINE p == <<h.lo, h.request>>
  <2>1. /\ h.lo \in LOs /\ h.request \in Requests /\ said[h.request] \in Final
        /\ Uncounted(h.lo, h.request) /\ ~Uncounted(h.lo, h.request)'
    BY <1>7, CountedOnce
  <2>2. said' = said
    BY <1>7 DEF CountDown
  <2>3. p \notin Over /\ p \in Over'
    BY <2>1, <2>2 DEF Over
  <2>4. /\ IsFiniteSet(Over \union {p})
        /\ Cardinality(Over \union {p}) = Cardinality(Over) + 1
    BY <1>1, <2>3, FS_AddElement
  <2>5. Over \union {p} \subseteq Over'
    BY <1>4, <2>3
  <2>6. Cardinality(Over \union {p}) <= Cardinality(Over')
    BY <1>3, <2>5, FS_Subset
  <2>7. ASSUME ~trouble' PROVE Over' \subseteq Over \union {p}
    <3> SUFFICES ASSUME NEW r \in LOs, NEW q \in Requests, <<r, q>> \in Over', <<r, q>> # p
                 PROVE  <<r, q>> \in Over
      BY <1>2
    <3>1. ASSUME NEW g \in calls, CountDown(g), g.lo = r, g.request = q PROVE FALSE
      <4>1. Proceed(g, "cast") /\ g.step = "gauge" /\ Proceed(h, "cast")
        BY <1>7, <3>1 DEF CountDown
      <4>2. g # h
        BY <3>1
      <4>3. h \notin calls'
        <5>1. [h EXCEPT !.step = "cast"].step = "cast" /\ h.step = "gauge"
          BY <1>7, CallType, TypeParts DEF StatusInv, CountDown
        <5>2. [h EXCEPT !.step = "cast"] # h
          BY <5>1
        <5> QED
          BY <4>1, <5>2 DEF Proceed
      <4>4. h \in calls'
        BY <4>1, <4>2 DEF Proceed
      <4> QED
        BY <4>3, <4>4
    <3> QED
      BY <2>7, <3>1, OverStep
  <2>8. ~trouble' => Cardinality(Over') = Cardinality(Over) + 1
    <3> SUFFICES ASSUME ~trouble' PROVE Cardinality(Over') = Cardinality(Over) + 1
      OBVIOUS
    <3>1. Over' = Over \union {p}
      BY <2>5, <2>7
    <3> QED
      BY <2>4, <3>1
  <2> QED
    BY <2>4, <2>6, <2>8
<1> QED
  BY <1>1, <1>3, <1>5, <1>6, <1>7

LEMMA GaugeInvStep ==
  ASSUME IsFiniteSet(Requests), IsFiniteSet(LOs), StatusInv, LastWordInv, GaugeInv,
         [StatusNext]_allVars
  PROVE  GaugeInv'
<1> DEFINE c == Cardinality(Over)
           d == Cardinality(Over')
<1>0. OwnTypes /\ gauge \in Int /\ Counts \in {0, 1}
  BY TypeParts DEF StatusInv, OwnTypes, Counts
<1>1. c \in Nat /\ d \in Nat /\ c <= d
  BY OverGrows
<1>2. -c <= gauge /\ gauge <= Counts
  BY <1>0, <1>1 DEF GaugeInv
<1>3. ~trouble' => ~trouble /\ creation # "died" /\ gauge = Counts - c
  BY TroubleStays DEF GaugeInv
<1>4. GaugeInv' <=> /\ gauge' \in -d .. Counts'
                    /\ ~trouble' => creation' # "died" /\ gauge' = Counts' - d
  BY DEF GaugeInv
<1>5. CASE \E h \in calls : CountDown(h) /\ h.state \in Final
  <2>1. PICK h \in calls : CountDown(h) /\ h.state \in Final
    BY <1>5
  <2>2. gauge' = gauge - 1 /\ creation' = creation
    BY <2>1 DEF CountDown
  <2>3. Counts' = Counts
    BY <2>2 DEF Counts
  <2>4. c + 1 <= d /\ (~trouble' => d = c + 1)
    BY <2>1, OverGrows
  <2>5. gauge' \in -d .. Counts'
    <3> HIDE DEF c, d
    <3> QED
      BY <1>0, <1>1, <1>2, <2>2, <2>3, <2>4
  <2>6. ~trouble' => creation' # "died" /\ gauge' = Counts' - d
    <3> HIDE DEF c, d
    <3> QED
      BY <1>0, <1>1, <1>3, <2>2, <2>3, <2>4
  <2> QED
    BY <1>4, <2>5, <2>6
<1>6. CASE \A h \in calls : ~(CountDown(h) /\ h.state \in Final)
  <2>1. ~trouble' => d = c
    BY <1>6, OverGrows
  <2> HIDE DEF c, d
  <2>2. CASE CODies
    <3>1. gauge' = 0 /\ trouble' = TRUE
      BY <2>2 DEF CODies
    <3>2. Counts' \in {0, 1}
      BY DEF Counts
    <3> QED
      BY <1>1, <1>4, <3>1, <3>2
  <2>3. CASE Count
    <3>1. /\ gauge' = gauge + 1 /\ creation' = "counted" /\ creation = "saved"
      BY <2>3 DEF Count
    <3>2. Counts = 0 /\ Counts' = 1
      BY <3>1 DEF Counts
    <3> QED
      BY <1>0, <1>1, <1>2, <1>3, <1>4, <2>1, <3>1, <3>2
  <2>4. CASE SaveDeploymentStatus \/ Answer
    <3>1. /\ gauge' = gauge /\ creation' \in {"saved", "answered"}
          /\ creation' = "answered" <=> creation = "counted"
          /\ creation \in {"pushed", "counted"}
      BY <2>4 DEF SaveDeploymentStatus, Answer
    <3>2. Counts' = Counts
      BY <3>1 DEF Counts
    <3> QED
      BY <1>0, <1>1, <1>2, <1>3, <1>4, <2>1, <3>1, <3>2
  <2>5. CASE ~CODies /\ ~Create
    <3>1. ASSUME NEW h \in calls, COStep(h) PROVE gauge' = gauge /\ creation' = creation
      BY <1>6, <3>1 DEF COStep, Update, UpdateFails, CountDown, Cast
    <3>2. gauge' = gauge /\ creation' = creation
      BY <2>5, <3>1 DEF StatusNext, Connect, Report, LOStep, Take, Record, Post,
         PostFails, Reply, Cut, LODies, statusVars, allVars
    <3>3. Counts' = Counts
      BY <3>2 DEF Counts
    <3> QED
      BY <1>0, <1>1, <1>2, <1>3, <1>4, <2>1, <3>2, <3>3
  <2> QED
    BY <2>2, <2>3, <2>4, <2>5 DEF Create
<1> QED
  BY <1>5, <1>6

LEMMA GaugeInvariant ==
  ASSUME IsFiniteSet(Requests), IsFiniteSet(LOs)
  PROVE  StatusSpec => [](StatusInv /\ GaugeInv)
<1>1. StatusInit => LastWordInv /\ GaugeInv
  <2> SUFFICES ASSUME StatusInit PROVE LastWordInv /\ GaugeInv
    OBVIOUS
  <2>1. /\ \A r \in LOs, q \in Requests : Len(wire[r][q]) = 0
        /\ \A r \in LOs : relay[r] = None
        /\ \A q \in Requests : said[q] = None
        /\ calls = {} /\ gauge = 0 /\ creation = "pushed" /\ None \notin Final
    BY StatusAssumption DEF StatusInit, Reported
  <2>2. LastWordInv
    BY <2>1 DEF LastWordInv
  <2>3. Over = {}
    BY <2>1 DEF Over
  <2>4. Cardinality(Over) = 0 /\ Counts = 0
    BY <2>1, <2>3, FS_EmptySet DEF Counts
  <2> QED
    BY <2>1, <2>2, <2>4 DEF GaugeInv
<1>2. StatusInv /\ LastWordInv /\ GaugeInv /\ [StatusNext]_allVars => LastWordInv' /\ GaugeInv'
  BY LastWordStep, GaugeInvStep, TypeParts DEF StatusInv
<1> QED
  BY <1>1, <1>2, StatusInvHolds, PTL DEF StatusSpec

\* With finitely many of both there are finitely many requests.
LEMMA RequestsFinite ==
  ASSUME IsFiniteSet(Nodes), IsFiniteSet(LOs)
  PROVE  IsFiniteSet(Requests)
BY FS_Product DEF Requests

\* Whatever is lost, fails or dies, the gauge of one deployment is at most 1 and goes down
\* at most once for every LO and every request of any LO to any node: an LO has no report
\* counted twice.
THEOREM GaugeInBounds ==
  ASSUME IsFiniteSet(Nodes), IsFiniteSet(LOs)
  PROVE  StatusSpec => [](gauge \in -Cardinality(LOs \X Requests) .. 1)
<1>1. StatusInv /\ GaugeInv => gauge \in -Cardinality(LOs \X Requests) .. 1
  <2> SUFFICES ASSUME StatusInv, GaugeInv PROVE gauge \in -Cardinality(LOs \X Requests) .. 1
    OBVIOUS
  <2>1. Counts \in {0, 1} /\ gauge \in -Cardinality(Over) .. Counts
    BY DEF Counts, GaugeInv
  <2> QED
    BY <2>1, OverSize, RequestsFinite
<1>2. StatusSpec => [](StatusInv /\ GaugeInv)
  BY GaugeInvariant, RequestsFinite
<1> QED
  BY <1>1, <1>2, PTL

\* When all is done and nothing was lost, every LO has had every request counted once, its
\* own and those of the others: with more than one LO or node the gauge says less than
\* nothing, -3 with two LOs and one node (DeploymentStatusHandler).
THEOREM GaugeCountsEveryLO ==
  ASSUME IsFiniteSet(Nodes), IsFiniteSet(LOs)
  PROVE  StatusSpec => []GaugeIsBalanced
<1>1. StatusInv /\ GaugeInv => GaugeIsBalanced
  <2> SUFFICES ASSUME StatusInv, GaugeInv, Settled, ~trouble
               PROVE  gauge = 1 - Cardinality(LOs \X Requests)
    BY DEF GaugeIsBalanced
  <2>1. /\ creation = "answered" /\ gauge = Counts - Cardinality(Over)
    BY DEF GaugeInv, Settled
  <2>2. Counts = 1
    BY <2>1 DEF Counts
  <2>3. \A r \in LOs, q \in Requests : ~Uncounted(r, q) /\ said[q] \in Final
    <3>1. \A r \in LOs, q \in Requests : Len(wire[r][q]) = 0
      <4>1. Len(<< >>) = 0
        BY EmptySeq
      <4> QED
        BY <4>1 DEF Settled
    <3>2. \A r \in LOs, q \in Requests : ~FinalOnWire(r, q)
      BY <3>1 DEF FinalOnWire
    <3> QED
      BY <3>2 DEF Settled, Uncounted, FinalInHand, FinalAtCO
  <2>4. Over = LOs \X Requests
    BY <2>3 DEF Over
  <2> QED
    BY <2>1, <2>2, <2>4
<1>2. StatusSpec => [](StatusInv /\ GaugeInv)
  BY GaugeInvariant, RequestsFinite
<1> QED
  BY <1>1, <1>2, PTL

-----------------------------------------------------------------------------
(* One node and one LO, as long as nothing is lost, fails or dies.         *)

\* The node's last report is the last on its way; a handler works on the report that the
\* LO waits for; a final row is the node's last report; what is created has its row.
OneInv(q, r) ==
  /\ PartsInv
  /\ ~trouble =>
       /\ creation # "died"
       /\ creation # "pushed" => row # None
       /\ Len(wire[r][q]) > 0 => wire[r][q][Len(wire[r][q])] = said[q]
       /\ relay[r] # None /\ Len(wire[r][q]) = 0 => relay[r].state = said[q]
       /\ \A h \in calls : relay[r] # None /\ relay[r].step = "wait" /\ h.state = relay[r].state
       /\ row \in Final =>
            row = said[q] /\ Len(wire[r][q]) = 0 /\ (relay[r] # None => relay[r].state = row)

\* A final report that the LO works on is the last one.
LEMMA FinalIsLast ==
  ASSUME NEW q, NEW r, Requests = {q}, LOs = {r}, StatusInv, OneInv(q, r), ~trouble,
         relay[r] # None, relay[r].state \in Final
  PROVE  Len(wire[r][q]) = 0 /\ relay[r].state = said[q]
<1>1. relay[r].request = q /\ OwnTypes
  BY RelayType, TypeParts DEF StatusInv
<1>2. Level(relay[r].state) = 3 /\ \A s : Level(s) <= 3
  BY DEF Level, Final
<1>3. \A i \in 1 .. Len(wire[r][q]) : Level(relay[r].state) < Level(wire[r][q][i])
  BY <1>1 DEF StatusInv, RelayInOrder
<1>4. \A i \in 1 .. Len(wire[r][q]) : FALSE
  BY <1>2, <1>3, LevelType
<1>5. Len(wire[r][q]) \in Nat
  BY <1>1, LenProperties DEF OwnTypes
<1>6. Len(wire[r][q]) = 0
  BY <1>4, <1>5
<1> QED
  BY <1>6 DEF OneInv

\* A report that is not lost stands last in the wire.
LEMMA OneReport ==
  ASSUME NEW q, NEW r, Requests = {q}, LOs = {r}, OwnTypes, Report(q), ~trouble'
  PROVE  /\ said[q] \notin Final
         /\ UNCHANGED <<creation, row, parts, gauge, relay, calls, missed>>
         /\ \/ wire' = wire /\ said[q] = None /\ said'[q] \notin Final
            \/ /\ Len(wire[r][q]) \in Nat /\ Len(wire'[r][q]) = Len(wire[r][q]) + 1
               /\ wire'[r][q][Len(wire[r][q]) + 1] = said'[q]
<1>1. PICK s \in Node!After(q, said[q]), R \in SUBSET LOs :
        /\ said' = [said EXCEPT ![q] = s]
        /\ IF s = "completed"
           THEN UNCHANGED <<wire, trouble>>
           ELSE /\ wire' = [o \in LOs |->
                     IF o \in R THEN [wire[o] EXCEPT ![q] = Append(wire[o][q], s)] ELSE wire[o]]
                /\ trouble' = (trouble \/ R # LOs)
  BY DEF Report
<1>2. said'[q] = s
  BY <1>1 DEF OwnTypes
<1>3. CASE s # "completed"
  <2>1. R = LOs
    BY <1>1, <1>3
  <2>2. wire'[r] = [wire[r] EXCEPT ![q] = Append(wire[r][q], s)]
    BY <1>1, <1>3, <2>1
  <2>3. wire'[r][q] = Append(wire[r][q], s) /\ wire[r][q] \in Seq(Reported)
    BY <2>2 DEF OwnTypes
  <2>4. s \in Reported
    BY <1>1, <1>3 DEF Node!After, Reported, Final
  <2>5. /\ Len(wire[r][q]) \in Nat /\ Len(wire'[r][q]) = Len(wire[r][q]) + 1
        /\ wire'[r][q][Len(wire[r][q]) + 1] = s
    BY <2>3, <2>4, AppendProperties, LenProperties
  <2> QED
    BY <1>2, <2>5 DEF Report
<1>4. CASE s = "completed"
  <2>1. said[q] = None
    BY <1>1, <1>4 DEF Report, Node!After, Final
  <2> QED
    BY <1>1, <1>2, <1>4, <2>1 DEF Report, Final
<1> QED
  BY <1>3, <1>4

\* No handler is left when the LO has its answer.
LEMMA NotWorking ==
  ASSUME NEW q, NEW r, Requests = {q}, LOs = {r}, OwnTypes, relay[r] # None, ~Working(r),
         \A h \in calls : h.state = relay[r].state
  PROVE  calls = {}
<1> SUFFICES ASSUME NEW h \in calls PROVE FALSE
  OBVIOUS
<1>1. h \in Calls /\ h.lo = r /\ h.request = q /\ relay[r].request = q
  BY CallType, RelayType
<1>2. h.step \in {"update", "gauge", "cast"} /\ h = CallOf(r, h.step)
  BY <1>1 DEF Calls, CallOf
<1> QED
  BY <1>2 DEF Working

\* Nothing is on its way before the node's first report.
LEMMA NothingSaid ==
  ASSUME NEW q, NEW r, Requests = {q}, LOs = {r}, StatusInv, said[q] = None
  PROVE  Len(wire[r][q]) = 0 /\ relay[r] = None
<1>1. OwnTypes /\ Len(wire[r][q]) \in Nat
  BY TypeParts, LenProperties DEF StatusInv, OwnTypes
<1>2. Level(None) = 0 /\ \A s \in Reported : Level(s) >= 1
  BY StatusAssumption DEF Level, Reported, Final
<1>3. ASSUME relay[r] # None PROVE FALSE
  <2>1. relay[r].request = q /\ relay[r].state \in Reported
    BY <1>1, <1>3, RelayType
  <2>2. Level(relay[r].state) <= Level(said[q])
    BY <1>3, <2>1 DEF StatusInv, RelayInOrder
  <2> QED
    BY <1>2, <2>1, <2>2, LevelType
<1>4. ASSUME Len(wire[r][q]) # 0 PROVE FALSE
  <2>1. 1 \in 1 .. Len(wire[r][q])
    BY <1>1, <1>4
  <2>2. wire[r][q] \in Seq(Reported)
    BY <1>1 DEF OwnTypes
  <2>3. wire[r][q][1] \in Reported
    BY <2>1, <2>2, ElementOfSeq
  <2>4. Level(wire[r][q][1]) <= Level(said[q])
    BY <2>1 DEF StatusInv, WireInOrder
  <2> QED
    BY <1>2, <2>3, <2>4, LevelType
<1> QED
  BY <1>3, <1>4

LEMMA OneInvStep ==
  ASSUME NEW q, NEW r, Requests = {q}, LOs = {r}, StatusInv, OneInv(q, r), [StatusNext]_allVars
  PROVE  OneInv(q, r)'
<1>0. OwnTypes /\ Len(wire[r][q]) \in Nat
  BY TypeParts, LenProperties DEF StatusInv, OwnTypes
<1>a. "installing" \notin Final /\ None \notin Final /\ None \notin Reported
      /\ "installing" # None
  BY StatusAssumption DEF Reported, Final
<1>1. PartsInv'
  BY <1>0, PartsStep DEF OneInv
<1> DEFINE Order ==
      /\ creation # "died"
      /\ creation # "pushed" => row # None
      /\ Len(wire[r][q]) > 0 => wire[r][q][Len(wire[r][q])] = said[q]
      /\ relay[r] # None /\ Len(wire[r][q]) = 0 => relay[r].state = said[q]
      /\ \A h \in calls : relay[r] # None /\ relay[r].step = "wait" /\ h.state = relay[r].state
      /\ row \in Final =>
           row = said[q] /\ Len(wire[r][q]) = 0 /\ (relay[r] # None => relay[r].state = row)
<1>2. ASSUME ~trouble' PROVE Order'
  <2>0. ~trouble /\ Order
    BY <1>2, TroubleStays DEF OneInv
  <2>1. CASE SaveDeploymentStatus
    <3>1. UNCHANGED <<wire, said, relay, calls>> /\ row' = "installing" /\ creation' = "saved"
      BY <1>2, <2>1 DEF SaveDeploymentStatus
    <3> QED
      BY <1>a, <2>0, <3>1
  <2>2. CASE Count \/ Answer
    BY <2>0, <2>2 DEF Count, Answer
  <2>3. CASE Report(q)
    <3>1. said[q] \notin Final /\ UNCHANGED <<creation, row, relay, calls>>
      BY <1>0, <1>2, <2>3, OneReport
    <3>2. row \notin Final
      BY <2>0, <3>1
    <3>3. CASE wire' = wire /\ said[q] = None
      BY <2>0, <3>1, <3>2, <3>3, NothingSaid
    <3>4. CASE /\ Len(wire'[r][q]) = Len(wire[r][q]) + 1
               /\ wire'[r][q][Len(wire[r][q]) + 1] = said'[q]
      BY <1>0, <2>0, <3>1, <3>2, <3>4
    <3> QED
      BY <1>0, <1>2, <2>3, <3>3, <3>4, OneReport
  <2>4. CASE Take(r, q)
    <3>1. /\ relay[r] = None /\ Len(wire[r][q]) >= 1 /\ Len(wire'[r][q]) = Len(wire[r][q]) - 1
          /\ \A i \in 1 .. Len(wire'[r][q]) : wire'[r][q][i] = wire[r][q][i + 1]
          /\ relay'[r] # None => relay'[r].state = wire[r][q][1]
          /\ UNCHANGED <<said, calls>>
      BY <1>0, <2>4, TakeEffect DEF Take
    <3>2. UNCHANGED <<creation, row>> /\ calls = {} /\ row \notin Final
      BY <2>0, <2>4, <3>1 DEF Take
    <3>3. Len(wire'[r][q]) > 0 => wire'[r][q][Len(wire'[r][q])] = said[q]
      BY <1>0, <2>0, <3>1
    <3>4. Len(wire'[r][q]) = 0 => wire[r][q][1] = said[q]
      BY <1>0, <2>0, <3>1
    <3> QED
      BY <2>0, <3>1, <3>2, <3>3, <3>4
  <2>5. CASE Record(r)
    <3>1. /\ relay[r] # None /\ relay[r].step = "record" /\ UNCHANGED <<creation, wire, said, calls>>
          /\ row' \in {row, Updated(relay[r].state)} /\ relay' = [relay EXCEPT ![r].step = "post"]
      BY <2>5 DEF Record
    <3>2. relay'[r].state = relay[r].state
      BY <1>0, <3>1, RelayMoves
    <3>3. calls = {}
      BY <2>0, <3>1
    <3>4. row' \in Final =>
            row' = said[q] /\ Len(wire[r][q]) = 0 /\ relay[r].state = row'
      BY <1>a, <2>0, <3>1, FinalIsLast DEF Updated
    <3>5. row # None => row' # None
      BY <1>0, <1>a, <3>1, RelayType DEF Updated
    <3> QED
      BY <2>0, <3>1, <3>2, <3>3, <3>4, <3>5
  <2>6. CASE Post(r)
    <3>1. UNCHANGED <<creation, row>>
      BY <2>6 DEF Post
    <3>2. calls = {}
      BY <1>0, <2>0, <2>6, PostEffect
    <3>3. /\ relay'[r].step = "wait" /\ relay'[r].state = relay[r].state /\ relay[r] # None
          /\ CallOf(r, "update").state = relay[r].state
          /\ calls' = calls \union {CallOf(r, "update")} /\ UNCHANGED <<wire, said>>
      BY <1>0, <2>6, PostEffect
    <3>4. relay'[r] # None
      BY <1>0, <2>6, PostEffect
    <3>5. \A h \in calls' : h.state = relay[r].state
      BY <3>2, <3>3
    <3> QED
      BY <2>0, <3>1, <3>3, <3>4, <3>5
  <2>7. CASE Reply(r)
    <3>1. /\ relay[r] # None /\ ~Working(r) /\ relay' = [relay EXCEPT ![r] = None]
          /\ UNCHANGED <<creation, row, wire, said, calls>>
      BY <2>7 DEF Reply
    <3>2. calls = {}
      BY <1>0, <2>0, <3>1, NotWorking
    <3>3. relay'[r] = None
      BY <1>0, <3>1 DEF OwnTypes
    <3> QED
      BY <2>0, <3>1, <3>2, <3>3
  <2>8. CASE PostFails(r) \/ Cut(r) \/ LODies(r) \/ CODies \/ \E h \in calls : UpdateFails(h)
    BY <1>2, <2>8 DEF PostFails, Cut, LODies, CODies, UpdateFails
  <2>9. ASSUME NEW h \in calls, NEW step \in {"update", "gauge", "cast"},
               Proceed(h, step) \/ calls' = calls \ {h}
        PROVE  \A g \in calls' : relay[r] # None /\ relay[r].step = "wait" /\ g.state = relay[r].state
    BY <1>0, <2>0, <2>9, ProceedEffect
  <2>10. ASSUME NEW h \in calls, Update(h) PROVE Order'
    <3>1. UNCHANGED <<creation, wire, said, relay>> /\ Proceed(h, "gauge") /\ row' = Updated(h.state)
      BY <2>10 DEF Update
    <3>2. h.state = relay[r].state /\ relay[r] # None
      BY <2>0
    <3>3. row' \in Final =>
            row' = said[q] /\ Len(wire[r][q]) = 0 /\ relay[r].state = row'
      BY <1>a, <2>0, <3>1, <3>2, FinalIsLast DEF Updated
    <3>4. row # None => row' # None
      BY <1>0, <1>a, <3>1, CallType DEF Updated
    <3> QED
      BY <2>0, <2>9, <3>1, <3>3, <3>4
  <2>11. ASSUME NEW h \in calls, CountDown(h) \/ Cast(h) PROVE Order'
    <3>1. UNCHANGED <<creation, row, wire, said, relay>>
          /\ (Proceed(h, "cast") \/ calls' = calls \ {h})
      BY <2>11 DEF CountDown, Cast
    <3> QED
      BY <2>0, <2>9, <3>1
  <2>12. ASSUME UNCHANGED statusVars PROVE Order'
    BY <2>0, <2>12 DEF statusVars
  <2>13. UNCHANGED allVars \/ (\E c \in Clients : Connect(c)) => UNCHANGED statusVars
    BY DEF allVars, Connect
  <2>14. LOStep(r) => Take(r, q) \/ Record(r) \/ Post(r) \/ PostFails(r) \/ Reply(r)
    BY DEF LOStep
  <2> HIDE DEF Order
  <2> QED
    BY <2>1, <2>2, <2>3, <2>4, <2>5, <2>6, <2>7, <2>8, <2>10, <2>11, <2>12, <2>13, <2>14
       DEF StatusNext, Create, COStep
<1> QED
  BY <1>1, <1>2 DEF OneInv

\* The node's last report is final and the CO's handler has been at the row with it.
Shown(q, r) ==
  /\ said[q] \in Final /\ Len(wire[r][q]) = 0
  /\ \/ relay[r] = None
     \/ /\ relay[r].step = "wait" /\ relay[r].state \in Final
        /\ \A h \in calls : h.step \in {"gauge", "cast"}

\* The row has it, unless it came before the row.
RowIsShown(q, r) ==
  ~trouble /\ Shown(q, r) =>
    row = said[q] \/ (said[q] \in missed /\ row \in {None, "installing"})

\* Everything but a handler's own step leaves a report where it was, or before.
LEMMA ShownStep ==
  ASSUME NEW q, NEW r, Requests = {q}, LOs = {r}, StatusInv, OneInv(q, r), [StatusNext]_allVars,
         ~trouble', \A h \in calls : ~COStep(h)
  PROVE  Shown(q, r)' <=> Shown(q, r)
<1>0. /\ OwnTypes /\ ~trouble /\ Len(wire[r][q]) \in Nat
      /\ \A h \in calls : relay[r] # None /\ relay[r].step = "wait" /\ h.state = relay[r].state
  BY TroubleStays, TypeParts, LenProperties DEF StatusInv, OwnTypes, OneInv
<1>1. ASSUME UNCHANGED <<said, wire, relay, calls>> PROVE Shown(q, r)' <=> Shown(q, r)
  BY <1>1 DEF Shown
<1>2. CASE Report(q)
  <2>1. said[q] \notin Final /\ (said'[q] \notin Final \/ Len(wire'[r][q]) # 0)
    BY <1>0, <1>2, OneReport
  <2> QED
    BY <2>1 DEF Shown
<1>3. CASE Take(r, q)
  <2>1. Len(wire[r][q]) # 0 /\ relay'[r].step = "record" /\ relay'[r] # None
    <3>1. relay'[r] = [request |-> q, state |-> Head(wire[r][q]), step |-> "record"]
      BY <1>0, <1>3 DEF Take, OwnTypes
    <3>2. Head(wire[r][q]) \in Reported
      BY <1>0, <1>3, HeadTailProperties DEF Take, OwnTypes
    <3>3. relay'[r] \in Relayed
      BY <3>1, <3>2 DEF Relayed
    <3> QED
      BY <1>0, <1>3, <3>1, <3>3, TakeEffect, StatusAssumption
  <2> QED
    BY <2>1 DEF Shown
<1>4. CASE Record(r)
  <2>1. relay[r] # None /\ relay[r].step = "record" /\ relay' = [relay EXCEPT ![r].step = "post"]
    BY <1>4 DEF Record
  <2>2. relay[r] \in Relayed
    BY <1>0, <2>1, RelayType
  <2>3. relay'[r].step = "post" /\ relay'[r] \in Relayed
    BY <1>0, <2>1, <2>2 DEF OwnTypes, Relayed
  <2>4. relay'[r] # None
    BY <2>3, StatusAssumption
  <2> QED
    BY <2>1, <2>3, <2>4 DEF Shown
<1>5. CASE Post(r)
  <2>1. relay[r] # None /\ relay[r].step = "post" /\ relay'[r] # None
        /\ CallOf(r, "update") \in calls' /\ CallOf(r, "update").step = "update"
    BY <1>0, <1>5, PostEffect
  <2> QED
    BY <2>1 DEF Shown
<1>6. CASE Reply(r)
  <2>1. /\ relay[r] # None /\ relay[r].step = "wait" /\ ~Working(r)
        /\ relay' = [relay EXCEPT ![r] = None] /\ UNCHANGED <<said, wire, calls>>
    BY <1>6 DEF Reply
  <2>2. calls = {}
    BY <1>0, <2>1, NotWorking
  <2>3. relay'[r] = None
    BY <1>0, <2>1 DEF OwnTypes
  <2>4. Len(wire[r][q]) = 0 => relay[r].state = said[q]
    BY <1>0, <2>1 DEF OneInv
  <2> QED
    BY <2>1, <2>2, <2>3, <2>4 DEF Shown
<1>7. ~PostFails(r) /\ ~Cut(r) /\ ~LODies(r) /\ ~CODies
  BY DEF PostFails, Cut, LODies, CODies
<1>8. ASSUME ~Report(q), ~LOStep(r)
      PROVE  UNCHANGED <<said, wire, relay, calls>>
  BY <1>7, <1>8 DEF StatusNext, Create, SaveDeploymentStatus, Count, Answer, Connect,
     statusVars, allVars
<1> QED
  BY <1>1, <1>2, <1>3, <1>4, <1>5, <1>6, <1>7, <1>8 DEF LOStep

\* With one LO there is one handler, on the report that the LO waits for.
LEMMA OneHandler ==
  ASSUME NEW q, NEW r, Requests = {q}, LOs = {r}, StatusInv, OneInv(q, r), ~trouble,
         NEW h \in calls
  PROVE  calls = {h} /\ relay[r] # None /\ relay[r].step = "wait" /\ h.state = relay[r].state
<1>1. \A k \in calls : /\ relay[r] # None /\ relay[r].step = "wait" /\ k.state = relay[r].state
                       /\ k.lo = r /\ k.request = q
  BY CallType, TypeParts DEF StatusInv, OneInv
<1>2. \A k \in calls : k = h
  BY <1>1, TypeParts DEF StatusInv, CallsApart
<1> QED
  BY <1>1, <1>2

\* A handler's own step.
LEMMA HandlerShown ==
  ASSUME NEW q, NEW r, Requests = {q}, LOs = {r}, StatusInv, OneInv(q, r), ~trouble,
         NEW h \in calls, UNCHANGED <<said, wire, relay>>
  PROVE  /\ Shown(q, r) <=> h.state \in Final /\ h.step \in {"gauge", "cast"}
         /\ calls' = {} => (Shown(q, r)' <=> h.state \in Final)
         /\ \A step \in {"gauge", "cast"} : Proceed(h, step) =>
              (Shown(q, r)' <=> h.state \in Final)
<1>1. calls = {h} /\ relay[r] # None /\ relay[r].step = "wait" /\ h.state = relay[r].state
  BY OneHandler
<1>2. h.state \in Final => Len(wire[r][q]) = 0 /\ said[q] = h.state
  BY <1>1, FinalIsLast
<1>3. ASSUME NEW step \in {"gauge", "cast"}, Proceed(h, step)
      PROVE  Shown(q, r)' <=> h.state \in Final
  <2>1. calls' = {[h EXCEPT !.step = step]} /\ [h EXCEPT !.step = step].step = step
    BY <1>1, <1>3, CallType, TypeParts DEF Proceed, StatusInv
  <2> QED
    BY <1>1, <1>2, <2>1 DEF Shown
<1> QED
  BY <1>1, <1>2, <1>3 DEF Shown

LEMMA RowStep ==
  ASSUME NEW q, NEW r, Requests = {q}, LOs = {r}, StatusInv, OneInv(q, r), [StatusNext]_allVars,
         RowIsShown(q, r)
  PROVE  RowIsShown(q, r)'
<1> SUFFICES ASSUME ~trouble', Shown(q, r)'
             PROVE  \/ row' = said'[q]
                    \/ said'[q] \in missed' /\ row' \in {None, "installing"}
  BY DEF RowIsShown
<1>0. /\ ~trouble /\ OwnTypes /\ None \notin Final
      /\ Shown(q, r) => \/ row = said[q] /\ row \in Final /\ row # None
                        \/ said[q] \in missed /\ row \in {None, "installing"}
  <2>1. ~trouble /\ OwnTypes
    BY TroubleStays, TypeParts DEF StatusInv
  <2>2. None \notin Final
    BY StatusAssumption DEF Reported
  <2> QED
    BY <2>1, <2>2 DEF RowIsShown, Shown
<1>1. ASSUME \A h \in calls : ~COStep(h)
      PROVE  row' = said'[q] \/ (said'[q] \in missed' /\ row' \in {None, "installing"})
  <2>1. Shown(q, r)
    BY <1>1, ShownStep
  <2>2. ~Report(q) /\ ~Record(r)
    BY <2>1 DEF Report, Record, Shown
  <2>3. UNCHANGED <<said, missed>> /\ (row' = row \/ (creation = "pushed" /\ row' = "installing"))
    BY <1>1, <2>2 DEF StatusNext, Create, SaveDeploymentStatus, Count, Answer,
       Connect, LOStep, Take, Post, PostFails, Reply, Cut, LODies, CODies, statusVars, allVars
  <2>4. row = said[q] /\ row # None => creation # "pushed"
    BY DEF OneInv, PartsInv
  <2> QED
    BY <1>0, <2>1, <2>3, <2>4
<1>2. ASSUME NEW h \in calls, COStep(h)
      PROVE  row' = said'[q] \/ (said'[q] \in missed' /\ row' \in {None, "installing"})
  <2>1. UNCHANGED <<said, wire, relay>>
    BY <1>0, <1>2, HandlerStep
  <2>2. Shown(q, r) <=> h.state \in Final /\ h.step \in {"gauge", "cast"}
    BY <1>0, <2>1, HandlerShown
  <2>3. CASE Update(h)
    <3>1. /\ row' = Updated(h.state) /\ Proceed(h, "gauge")
          /\ row = None => missed' = missed \union {h.state}
      BY <2>3 DEF Update
    <3>2. h.state \in Final
      BY <1>0, <2>1, <3>1, HandlerShown
    <3>3. said[q] = h.state
      BY <1>0, <3>2, OneHandler, FinalIsLast
    <3> QED
      BY <2>1, <3>1, <3>3 DEF Updated
  <2>4. CASE CountDown(h)
    <3>1. h.step = "gauge" /\ Proceed(h, "cast") /\ row' = row /\ missed' = missed
      BY <2>4 DEF CountDown
    <3>2. h.state \in Final
      BY <1>0, <2>1, <3>1, HandlerShown
    <3> QED
      BY <1>0, <2>1, <2>2, <3>1, <3>2
  <2>5. CASE Cast(h)
    <3>1. h.step = "cast" /\ calls' = calls \ {h} /\ row' = row /\ missed' = missed
      BY <2>5 DEF Cast
    <3>2. calls' = {}
      BY <1>0, <3>1, OneHandler
    <3>3. h.state \in Final
      BY <1>0, <2>1, <3>2, HandlerShown
    <3> QED
      BY <1>0, <2>1, <2>2, <3>1, <3>3
  <2>6. ~UpdateFails(h)
    BY DEF UpdateFails
  <2> QED
    BY <1>2, <2>3, <2>4, <2>5, <2>6 DEF COStep
<1> QED
  BY <1>1, <1>2

OneNodeInv(q, r) ==
  /\ StatusInv
  /\ OneInv(q, r)
  /\ RowIsShown(q, r)

LEMMA OneNodeInit ==
  ASSUME NEW q, NEW r, Requests = {q}, LOs = {r}, StatusInit
  PROVE  OneNodeInv(q, r)
<1>1. StatusInv
  BY StatusInitInv
<1>2. /\ Len(wire[r][q]) = 0 /\ relay[r] = None /\ calls = {} /\ row = None
      /\ creation = "pushed" /\ gauge = 0 /\ said[q] = None
  BY DEF StatusInit
<1>3. None \notin Final
  BY StatusAssumption DEF Reported
<1>4. OneInv(q, r)
  BY <1>2, <1>3 DEF OneInv, PartsInv
<1>5. ~Shown(q, r)
  BY <1>2, <1>3 DEF Shown
<1> QED
  BY <1>1, <1>2, <1>4, <1>5 DEF OneNodeInv, RowIsShown

LEMMA OneNodeHolds ==
  ASSUME NEW q, NEW r, Requests = {q}, LOs = {r}
  PROVE  StatusSpec => []OneNodeInv(q, r)
<1>1. StatusInit => OneNodeInv(q, r)
  BY OneNodeInit
<1>2. OneNodeInv(q, r) /\ StatusInv' /\ [StatusNext]_allVars => OneNodeInv(q, r)'
  BY OneInvStep, RowStep DEF OneNodeInv
<1> QED
  BY <1>1, <1>2, StatusInvHolds, PTL DEF StatusSpec

\* With one node and one LO a final state in the row is the last, as long as nothing is
\* lost: the LO waits for the CO's answer before it takes the next report.
THEOREM FinalRowStays ==
  ASSUME NEW n, NEW r, Nodes = {n}, LOs = {r}
  PROVE  StatusSpec => FinalStays
<1> DEFINE q == <<r, n>>
<1>0. Requests = {q}
  BY DEF Requests
<1> HIDE DEF q
<1>1. OneNodeInv(q, r) /\ [StatusNext]_allVars => [(row \in Final /\ ~trouble') => row' = row]_allVars
  <2> SUFFICES ASSUME OneNodeInv(q, r), [StatusNext]_allVars, row \in Final, ~trouble'
               PROVE  row' = row
    OBVIOUS
  <2>0. /\ ~trouble /\ OneInv(q, r) /\ row # None /\ creation # "pushed"
        /\ relay[r] # None => relay[r].state = row
        /\ \A h \in calls : h.state = row
    <3>1. ~trouble /\ OneInv(q, r)
      BY TroubleStays DEF OneNodeInv
    <3>2. row # None
      BY StatusAssumption DEF Reported
    <3> QED
      BY <3>1, <3>2 DEF OneInv, PartsInv
  <2>1. CASE Record(r)
    BY <2>0, <2>1 DEF Record, Updated
  <2>2. ASSUME NEW h \in calls, Update(h) PROVE row' = row
    BY <2>0, <2>2 DEF Update, Updated
  <2>3. ASSUME ~Record(r), \A h \in calls : ~Update(h) PROVE row' = row
    BY <2>0, <2>3 DEF StatusNext, Create, SaveDeploymentStatus, Count, Answer, Connect, Report,
       LOStep, COStep, Take, Post, PostFails, Reply, Cut, LODies, UpdateFails, CountDown, Cast,
       CODies, statusVars, allVars
  <2> QED
    BY <2>1, <2>2, <2>3
<1>2. StatusSpec => []OneNodeInv(q, r)
  BY <1>0, OneNodeHolds, PTL
<1> QED
  BY <1>1, <1>2, PTL DEF StatusSpec, FinalStays

\* When the one node has said its last word and everybody has dealt with it, nothing is
\* counted as active and the row says the same, or the last word came before the row was
\* created and the row says installing for good.
THEOREM SettledRowIsTrue ==
  ASSUME NEW n, NEW r, Nodes = {n}, LOs = {r}
  PROVE  StatusSpec => []SettledIsTrue
<1> DEFINE q == <<r, n>>
<1>0. Requests = {q}
  BY DEF Requests
<1> HIDE DEF q
<1>1. OneNodeInv(q, r) /\ GaugeIsBalanced => SettledIsTrue
  <2> SUFFICES ASSUME OneNodeInv(q, r), Settled, ~trouble
               PROVE  row = said[q] \/ (said[q] \in missed /\ row = "installing")
    BY <1>0 DEF SettledIsTrue
  <2>1. said[q] \in Final /\ Len(wire[r][q]) = 0 /\ relay[r] = None
    <3>1. Len(<< >>) = 0
      BY EmptySeq
    <3> QED
      BY <1>0, <3>1 DEF Settled
  <2>2. row = said[q] \/ (said[q] \in missed /\ row \in {None, "installing"})
    BY <2>1 DEF OneNodeInv, RowIsShown, Shown
  <2>3. row # None
    BY DEF Settled, OneNodeInv, OneInv
  <2> QED
    BY <2>2, <2>3
<1>2. IsFiniteSet(Nodes) /\ IsFiniteSet(LOs)
  BY FS_Singleton
<1>3. StatusSpec => []OneNodeInv(q, r)
  BY <1>0, OneNodeHolds, PTL
<1>4. StatusSpec => []GaugeIsBalanced
  BY <1>2, GaugeCountsEveryLO, PTL
<1> QED
  BY <1>1, <1>3, <1>4, PTL

-----------------------------------------------------------------------------
(* What a client reads of one node.                                        *)

\* Older than everything that is still to be broadcast.
CastBelow(q, r, s) ==
  /\ Level(s) <= Level(said[q])
  /\ Below(Level(s), wire[r][q])
  /\ relay[r] # None =>
       IF relay[r].step = "wait" THEN Level(s) <= Level(relay[r].state)
                                 ELSE Level(s) < Level(relay[r].state)
  /\ \A h \in calls : Level(s) < Level(h.state)

\* The broadcasts go up.
CastInOrder(q, r) ==
  /\ \A i \in 1 .. Len(cast) : cast[i] \in Reported
  /\ ~trouble =>
       /\ \A i, j \in 1 .. Len(cast) : i < j => Level(cast[i]) < Level(cast[j])
       /\ \A i \in 1 .. Len(cast) : CastBelow(q, r, cast[i])

LEMMA CastBelowStep ==
  ASSUME NEW q, NEW r, Requests = {q}, LOs = {r}, StatusInv, OneInv(q, r), [StatusNext]_allVars,
         ~trouble', NEW s, CastBelow(q, r, s)
  PROVE  CastBelow(q, r, s)'
<1>0. OwnTypes /\ ~trouble
  BY TroubleStays, TypeParts DEF StatusInv
<1>r. relay[r] # None => relay[r].request = q
  BY <1>0, RelayType
<1>1. CASE Report(q)
  <2>1. calls' = calls /\ relay' = relay
    BY <1>1 DEF Report
  <2>2. Level(s) <= Level(said'[q]) /\ Below(Level(s), wire'[r][q])
    BY <1>0, <1>1, ReportKeepsBelow, LevelType DEF CastBelow
  <2> QED
    BY <2>1, <2>2 DEF CastBelow, Below
<1>2. CASE Take(r, q)
  <2>1. Below(Level(s), wire'[r][q]) /\ Level(s) < Level(wire[r][q][1])
    BY <1>0, <1>2, TakeKeepsBelow, LevelType DEF CastBelow
  <2>2. /\ UNCHANGED <<said, calls>>
        /\ relay'[r] # None => relay'[r].state = wire[r][q][1] /\ relay'[r].step = "record"
    BY <1>0, <1>2, TakeEffect
  <2> QED
    BY <2>1, <2>2 DEF CastBelow, Below
<1>3. CASE Record(r)
  <2>1. /\ relay[r] # None /\ relay[r].step = "record" /\ UNCHANGED <<wire, said, calls>>
        /\ relay' = [relay EXCEPT ![r].step = "post"]
    BY <1>3 DEF Record
  <2>2. relay'[r].state = relay[r].state /\ relay'[r].step = "post"
    BY <1>0, <2>1, RelayMoves
  <2> QED
    BY <2>1, <2>2 DEF CastBelow, Below
<1>4. CASE Post(r)
  <2>1. /\ relay[r] # None /\ relay[r].step = "post"
        /\ relay'[r].step = "wait" /\ relay'[r].state = relay[r].state
        /\ calls' = calls \union {CallOf(r, "update")}
        /\ CallOf(r, "update").state = relay[r].state /\ UNCHANGED <<wire, said>>
    BY <1>0, <1>4, PostEffect
  <2>2. Level(s) < Level(relay[r].state)
    BY <2>1 DEF CastBelow
  <2> QED
    BY <2>1, <2>2, LevelType DEF CastBelow, Below
<1>5. CASE Reply(r)
  <2>1. relay' = [relay EXCEPT ![r] = None] /\ UNCHANGED <<wire, said, calls>>
    BY <1>5 DEF Reply
  <2>2. relay'[r] = None
    BY <1>0, <2>1 DEF OwnTypes
  <2> QED
    BY <2>1, <2>2 DEF CastBelow, Below
<1>6. ASSUME NEW h \in calls, COStep(h) PROVE CastBelow(q, r, s)'
  <2>1. UNCHANGED <<wire, said, relay>>
    BY <1>0, <1>6, HandlerStep
  <2>2. \A g \in calls' : \E k \in calls : g.state = k.state
    <3>1. CASE calls' = calls \ {h}
      BY <3>1
    <3>2. ASSUME NEW step \in {"update", "gauge", "cast"}, Proceed(h, step)
          PROVE  \A g \in calls' : \E k \in calls : g.state = k.state
      BY <1>0, <3>2, ProceedEffect
    <3> QED
      BY <1>0, <1>6, <3>1, <3>2, HandlerStep
  <2> QED
    BY <2>1, <2>2 DEF CastBelow, Below
<1>7. ~PostFails(r) /\ ~Cut(r) /\ ~LODies(r) /\ ~CODies
  BY DEF PostFails, Cut, LODies, CODies
<1>8. ASSUME ~Report(q), ~LOStep(r), \A h \in calls : ~COStep(h)
      PROVE  UNCHANGED <<said, wire, relay, calls>>
  BY <1>7, <1>8 DEF StatusNext, Create, SaveDeploymentStatus, Count, Answer, Connect,
     statusVars, allVars
<1>9. ASSUME UNCHANGED <<said, wire, relay, calls>> PROVE CastBelow(q, r, s)'
  BY <1>9 DEF CastBelow, Below
<1> QED
  BY <1>1, <1>2, <1>3, <1>4, <1>5, <1>6, <1>7, <1>8, <1>9 DEF LOStep

LEMMA CastStep ==
  ASSUME NEW q, NEW r, Requests = {q}, LOs = {r}, StatusInv, OneInv(q, r), [StatusNext]_allVars,
         CastInOrder(q, r)
  PROVE  CastInOrder(q, r)'
<1>0. OwnTypes /\ StreamTypeOK /\ cast \in Seq(States) /\ Len(cast) \in Nat
  BY TypeParts, LenProperties DEF StatusInv, StreamTypeOK
<1>1. CASE cast' = cast
  <2>1. ASSUME ~trouble' PROVE ~trouble
    BY <2>1, TroubleStays
  <2>2. ASSUME ~trouble', NEW i \in 1 .. Len(cast) PROVE CastBelow(q, r, cast[i])'
    <3>1. CastBelow(q, r, cast[i])
      BY <2>1, <2>2 DEF CastInOrder
    <3>2. \A s : CastBelow(q, r, s) => CastBelow(q, r, s)'
      BY <2>2, CastBelowStep
    <3> QED
      BY <1>1, <3>1, <3>2 DEF CastBelow
  <2> QED
    BY <1>1, <2>1, <2>2 DEF CastInOrder
<1>2. ASSUME NEW h \in calls, Cast(h) PROVE CastInOrder(q, r)'
  <2>1. /\ cast' = Append(cast, h.state) /\ calls' = calls \ {h} /\ trouble' = trouble
        /\ UNCHANGED <<said, wire, relay>>
    BY <1>2 DEF Cast, Broadcast
  <2>2. h.state \in Reported /\ h.state \in States /\ h.lo = r /\ h.request = q
    BY <1>0, CallType, StatusAssumption
  <2>3. /\ Len(cast') = Len(cast) + 1 /\ cast'[Len(cast) + 1] = h.state
        /\ \A i \in 1 .. Len(cast) : cast'[i] = cast[i]
    BY <1>0, <2>1, <2>2, AppendProperties
  <2>4. \A i \in 1 .. Len(cast') : i \in 1 .. Len(cast) \/ i = Len(cast) + 1
    BY <1>0, <2>3
  <2>5. \A i \in 1 .. Len(cast') : cast'[i] \in Reported
    BY <2>2, <2>3, <2>4 DEF CastInOrder
  <2>6. ASSUME ~trouble
        PROVE  /\ \A i, j \in 1 .. Len(cast') : i < j => Level(cast'[i]) < Level(cast'[j])
               /\ (\A i \in 1 .. Len(cast) : CastBelow(q, r, cast[i]))'
    <3>1. calls = {h} /\ relay[r] # None /\ relay[r].step = "wait" /\ h.state = relay[r].state
      BY <2>6, OneHandler
    <3>2. \A i \in 1 .. Len(cast) : Level(cast[i]) < Level(h.state)
      BY <2>6 DEF CastInOrder, CastBelow
    <3>3. Level(h.state) <= Level(said[q]) /\ Below(Level(h.state), wire[r][q])
      BY <2>2 DEF StatusInv, CallsInOrder, Below
    <3>4. CastBelow(q, r, h.state)'
      BY <2>1, <3>1, <3>3, LevelType DEF CastBelow, Below
    <3>5. ASSUME NEW s, CastBelow(q, r, s) PROVE CastBelow(q, r, s)'
      BY <2>1, <3>5 DEF CastBelow, Below
    <3>6. ASSUME NEW i \in 1 .. Len(cast') PROVE CastBelow(q, r, cast[i])'
      <4>1. CASE i \in 1 .. Len(cast)
        <5>1. CastBelow(q, r, cast[i])
          BY <2>6, <4>1 DEF CastInOrder
        <5> QED
          BY <2>3, <3>5, <4>1, <5>1 DEF CastBelow
      <4>2. CASE i = Len(cast) + 1
        BY <2>3, <3>4, <4>2 DEF CastBelow
      <4> QED
        BY <2>4, <4>1, <4>2
    <3>7. \A i, j \in 1 .. Len(cast') : i < j => Level(cast'[i]) < Level(cast'[j])
      BY <1>0, <2>3, <2>4, <2>6, <3>2 DEF CastInOrder
    <3> QED
      BY <3>6, <3>7
  <2>7. ASSUME ~trouble' PROVE ~trouble
    BY <2>7, TroubleStays
  <2> QED
    BY <2>5, <2>6, <2>7 DEF CastInOrder
<1>3. ASSUME \A h \in calls : ~Cast(h) PROVE cast' = cast
  BY <1>3 DEF StatusNext, Create, SaveDeploymentStatus, Count, Answer, Connect, Register, Serve,
     Write, Unregister, Report, LOStep, COStep, Take, Record, Post, PostFails, Reply, Cut,
     LODies, Update, UpdateFails, CountDown, CODies, StreamsDie, statusVars, streamVars, allVars
<1> QED
  BY <1>1, <1>2, <1>3

\* With one node and one LO a client reads a node's reports in the order in which it made
\* them, each at most once, whatever its channel had to drop.
THEOREM ClientReadsProgress ==
  ASSUME NEW n, NEW r, Nodes = {n}, LOs = {r}
  PROVE  StatusSpec => []ClientSeesProgress
<1> DEFINE q == <<r, n>>
<1>0. Requests = {q}
  BY DEF Requests
<1> HIDE DEF q
<1>1. StatusInit => CastInOrder(q, r)
  <2>1. StatusInit => Len(cast) = 0
    BY DEF StatusInit, StreamInit
  <2> QED
    BY <2>1 DEF CastInOrder
<1>2. OneNodeInv(q, r) /\ CastInOrder(q, r) /\ [StatusNext]_allVars => CastInOrder(q, r)'
  BY <1>0, CastStep DEF OneNodeInv
<1>3. OneNodeInv(q, r) /\ CastInOrder(q, r) => ClientSeesProgress
  <2> SUFFICES ASSUME StatusInv, CastInOrder(q, r), ~trouble, NEW c \in Clients,
                      NEW i \in 1 .. Len(got[c]), NEW j \in 1 .. Len(got[c]), i < j
               PROVE  Rank[cast[got[c][i]]] < Rank[cast[got[c][j]]]
    BY DEF ClientSeesProgress, OneNodeInv
  <2>1. StreamInv /\ StreamTypeOK
    BY DEF StatusInv, StreamInv
  <2>2. got[c] \in Seq(Nat) /\ ch[c] \in Seq(Nat) /\ cast \in Seq(States)
    BY <2>1 DEF StreamTypeOK
  <2>3. Len(cast) \in Nat
    BY <2>2, LenProperties
  <2>4. Len(got[c]) \in Nat /\ Len(ch[c]) \in Nat
    BY <2>2, LenProperties
  <2>5. Len(Line(c)) = Len(got[c]) + Len(ch[c])
    BY <2>1, LineType
  <2>6. \A k \in 1 .. Len(got[c]) + Len(ch[c]) :
          Line(c)[k] = IF k <= Len(got[c]) THEN got[c][k] ELSE ch[c][k - Len(got[c])]
    BY <2>2, ConcatProperties DEF Line
  <2>7. ASSUME NEW k \in 1 .. Len(got[c])
        PROVE  k \in 1 .. Len(Line(c)) /\ Line(c)[k] = got[c][k]
    <3>0. \A a, b \in Nat : \A l \in 1 .. a : l \in 1 .. a + b /\ l <= a
      OBVIOUS
    <3>1. k \in 1 .. Len(got[c]) + Len(ch[c]) /\ k <= Len(got[c])
      BY <2>4, <3>0, Zenon
    <3>2. Line(c)[k] = got[c][k]
      BY <2>6, <3>1
    <3> QED
      BY <2>5, <3>1, <3>2
  <2>8. /\ \A k \in 1 .. Len(Line(c)) : Line(c)[k] \in since[c] + 1 .. Len(cast)
        /\ \A k, l \in 1 .. Len(Line(c)) : k < l => Line(c)[k] < Line(c)[l]
        /\ since[c] \in Nat
    BY <2>1 DEF StreamInv, InBroadcastOrder, StreamTypeOK
  <2>9. /\ got[c][i] \in since[c] + 1 .. Len(cast) /\ got[c][j] \in since[c] + 1 .. Len(cast)
        /\ got[c][i] < got[c][j]
    BY <2>7, <2>8
  <2>10. got[c][i] \in 1 .. Len(cast) /\ got[c][j] \in 1 .. Len(cast)
    BY <2>3, <2>8, <2>9
  <2>11. /\ Level(cast[got[c][i]]) < Level(cast[got[c][j]])
         /\ cast[got[c][i]] \in Reported /\ cast[got[c][j]] \in Reported
    BY <2>9, <2>10 DEF CastInOrder
  <2>12. \A s \in Reported : Rank[s] = Level(s)
    BY DEF Rank, Level, Reported, Final
  <2> QED
    BY <2>11, <2>12
<1>4. StatusSpec => []OneNodeInv(q, r)
  BY <1>0, OneNodeHolds, PTL
<1> QED
  BY <1>1, <1>2, <1>3, <1>4, PTL DEF StatusSpec
=============================================================================
