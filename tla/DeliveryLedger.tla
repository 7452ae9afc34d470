--------------------------- MODULE DeliveryLedger ---------------------------
(***************************************************************************)
(* What the local orchestrator promises of the deployments published for   *)
(* its site, with git, queues and goroutines forgotten: each one is decided *)
(* once.  It is either accepted and later deployed, or missed; and nothing *)
(* decided is ever taken up again.                                         *)
(***************************************************************************)
CONSTANT Deployments

VARIABLES accepted,  \* seen by the watcher, on the way to the dispatcher
          deployed,  \* given to DeployToEdges
          missed     \* passed over, or lost on the way: for good

ledger == <<accepted, deployed, missed>>

Undecided == Deployments \ (accepted \union deployed \union missed)

Init ==
  /\ accepted = {}
  /\ deployed = {}
  /\ missed = {}

\* One look at the repository decides every deployment it finds.
Decide(taken, passed) ==
  /\ taken \intersect passed = {}
  /\ accepted' = accepted \union taken
  /\ missed' = missed \union passed
  /\ UNCHANGED deployed

Deploy(d) ==
  /\ accepted' = accepted \ {d}
  /\ deployed' = deployed \union {d}
  /\ UNCHANGED missed

\* The process ends and its memory with it.
Forget ==
  /\ accepted' = {}
  /\ missed' = missed \union accepted
  /\ UNCHANGED deployed

Next ==
  \/ \E taken, passed \in SUBSET Undecided : Decide(taken, passed)
  \/ \E d \in accepted : Deploy(d)
  \/ Forget

Spec == Init /\ [][Next]_ledger

-----------------------------------------------------------------------------
LedgerTypeOK ==
  /\ accepted \in SUBSET Deployments
  /\ deployed \in SUBSET Deployments
  /\ missed \in SUBSET Deployments

\* A deployment has one outcome.
OneOutcome ==
  /\ accepted \intersect deployed = {}
  /\ accepted \intersect missed = {}
  /\ deployed \intersect missed = {}

\* Outcomes are final: nothing is deployed again after it was deployed, and
\* nothing missed is caught up with.
OutcomesAreFinal ==
  [][deployed \subseteq deployed' /\ missed \subseteq missed']_ledger
=============================================================================
