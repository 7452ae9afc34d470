----------------------------- MODULE GitManager -----------------------------
(***************************************************************************)
(* gitmanager.Manager: calls of one process on one registered repository,  *)
(* its mutex, and the working copy, which others may damage.               *)
(***************************************************************************)
EXTENDS Naturals

CONSTANTS Callers,  \* goroutines that use the manager
          None      \* nobody

ASSUME ManagerAssumption == None \notin Callers

VARIABLES pc,       \* where each call is
          op,       \* which method it is
          mutex,    \* the call that holds locks[name]
          copy,     \* the working copy
          ready,    \* callers that were given the repository by EnsureClone
          sawHalf,  \* a call has opened a copy that was not cloned to the end
          died      \* the process was killed before

gitVars == <<pc, op, mutex, copy, ready, sawHalf, died>>

Ops == {"InitRepo", "EnsureClone", "Pull", "CommitAndPush"}
Cloning == {"InitRepo", "EnsureClone"}

GitTypeOK ==
  /\ pc \in [Callers -> {"idle", "lock", "open", "clone", "relock"}]
  /\ op \in [Callers -> Ops]
  /\ mutex \in Callers \union {None}
  /\ copy \in {"none", "damaged", "half", "good"}
  /\ ready \in SUBSET Callers
  /\ sawHalf \in BOOLEAN /\ died \in BOOLEAN
  \* The mutex is held by a call at work.
  /\ mutex # None => pc[mutex] \in {"open", "clone", "relock"}

GitInit ==
  /\ pc = [p \in Callers |-> "idle"]
  /\ op = [p \in Callers |-> "EnsureClone"]
  /\ mutex = None
  /\ copy = "none" /\ ready = {}
  /\ sawHalf = FALSE /\ died = FALSE

-----------------------------------------------------------------------------
Goto(p, l) == pc' = [pc EXCEPT ![p] = l]
Return(p) == Goto(p, "idle") /\ mutex' = None

\* The callers with a repository after p's call succeeds.
Given(p) == IF op[p] = "EnsureClone" THEN ready \union {p} ELSE ready

\* PlainOpen succeeds: a copy without HEAD is a repository, too.
Opens == copy \in {"good", "half"}

\* The watcher pulls only after EnsureClone has returned a repository.
Call(p, o) ==
  /\ pc[p] = "idle" /\ (o = "Pull" => p \in ready)
  /\ Goto(p, "lock") /\ op' = [op EXCEPT ![p] = o]
  /\ UNCHANGED <<mutex, copy, ready, sawHalf, died>>

\* Mutant: EnsureClone takes the manager's mutex only.
LockNothing(p) ==
  /\ pc[p] = "lock" /\ (mutex = None \/ op[p] \in Cloning)
  /\ mutex' = p /\ Goto(p, "open")
  /\ UNCHANGED <<op, copy, ready, sawHalf, died>>

Lock(p) ==
  /\ pc[p] = "lock" /\ mutex = None
  /\ mutex' = p /\ Goto(p, "open")
  /\ UNCHANGED <<op, copy, ready, sawHalf, died>>

\* The call finds a repository, works in it and returns; a pull that succeeds
\* makes it whole.
Open(p) ==
  /\ pc[p] = "open" /\ Opens
  /\ Return(p)
  /\ sawHalf' = (sawHalf \/ copy = "half")
  /\ copy' \in {copy} \union (IF op[p] = "Pull" THEN {"good"} ELSE {})
  /\ ready' = Given(p)
  /\ UNCHANGED <<op, died>>

\* The old copy is removed and a clone begun.
Clone(p) ==
  /\ pc[p] = "open" /\ ~Opens /\ op[p] \in Cloning
  /\ copy' = "half" /\ Goto(p, "clone")
  /\ UNCHANGED <<op, mutex, ready, sawHalf, died>>

\* Mutant: an error returns with the mutex held.
CloneEndsLocked(p) ==
  /\ pc[p] = "clone"
  /\ copy' \in {"good", "none"}
  /\ Goto(p, "idle")
  /\ mutex' = IF copy' = "none" THEN p ELSE None
  /\ ready' = IF copy' = "good" THEN Given(p) ELSE ready
  /\ UNCHANGED <<op, sawHalf, died>>

\* A clone that fails takes its directory away again.
CloneEnds(p) ==
  /\ pc[p] = "clone"
  /\ copy' \in {"good", "none"} /\ Return(p)
  /\ ready' = IF copy' = "good" THEN Given(p) ELSE ready
  /\ UNCHANGED <<op, sawHalf, died>>

CommitFails(p) ==
  /\ pc[p] = "open" /\ ~Opens /\ op[p] = "CommitAndPush"
  /\ Return(p)
  /\ UNCHANGED <<op, copy, ready, sawHalf, died>>

\* Pull calls ensureCloneLocked, which locks the mutex that Pull holds: the
\* call has no further step.
Relock(p) ==
  /\ pc[p] = "open" /\ ~Opens /\ op[p] = "Pull"
  /\ Goto(p, "relock")
  /\ UNCHANGED <<op, mutex, copy, ready, sawHalf, died>>

\* Somebody removes the copy or breaks it, which the manager cannot prevent.
Damage ==
  /\ copy = "good"
  /\ copy' \in {"none", "damaged"}
  /\ UNCHANGED <<pc, op, mutex, ready, sawHalf, died>>

\* The process is killed and starts again.
Kill ==
  /\ pc' = [p \in Callers |-> "idle"]
  /\ mutex' = None /\ ready' = {} /\ died' = TRUE
  /\ UNCHANGED <<op, copy, sawHalf>>

Step(p) ==
  Lock(p) \/ Open(p) \/ Clone(p) \/ CloneEnds(p) \/ CommitFails(p) \/ Relock(p)

GitNext ==
  \/ Damage \/ Kill
  \/ \E p \in Callers : Step(p) \/ \E o \in Ops : Call(p, o)

GitSpec == GitInit /\ [][GitNext]_gitVars

\* Goroutines run, git answers, and sync.Mutex starves nobody.
FairGitSpec == GitSpec /\ \A p \in Callers : SF_gitVars(Step(p))

-----------------------------------------------------------------------------
\* Nobody works in a copy that another call is still cloning: a half copy is met
\* only when the process was killed while it cloned.
HalfOnlyAfterKill == sawHalf => died

\* A call returns, unless some pull has met a copy that does not open.
OnlyPullHangs ==
  \A p \in Callers :
    pc[p] # "idle" ~> (pc[p] = "idle" \/ \E q \in Callers : pc[q] = "relock")

\* A pull that cannot open the copy ensures it is cloned again, and returns.
PullRecovers == \A p \in Callers : pc[p] # "idle" ~> pc[p] = "idle"
=============================================================================
