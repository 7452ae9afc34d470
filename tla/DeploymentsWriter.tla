-------------------------- MODULE DeploymentsWriter --------------------------
(***************************************************************************)
(* The CO process at the grain of its git calls: API handlers that run at  *)
(* the same time, each in co.CreateDeployment for a deployment of its own, *)
(* and gitmanager.CommitAndPush under the mutex of the repository.  The    *)
(* process may die between any two calls.  It implements DesiredState,     *)
(* which knows only the outcomes.                                          *)
(***************************************************************************)
EXTENDS Integers

CONSTANTS Deployments,  \* the calls of CreateDeployment, one per uuid
          Local,        \* GitLocal mode: the working copy is the origin
          None          \* nobody

ASSUME WriterAssumption == Local \in BOOLEAN /\ None \notin Deployments

VARIABLES up,       \* the CO runs
          pc,       \* where each call is
          lock,     \* the call that holds locks["deployments"]
          seen,     \* the index as each call's Add has read it
          index,    \* the files in the index, committed or not
          at,       \* the commit a file was added in, 0 when HEAD has it not
          commits,  \* HEAD
          origin    \* the last commit the origin has

writerVars == <<up, pc, lock, seen, index, at, commits, origin>>

Working == {"open", "add", "stage", "commit", "push"}

WriterTypeOK ==
  /\ up \in BOOLEAN
  /\ pc \in [Deployments -> {"idle", "write", "lock", "done", "dead"} \union Working]
  /\ lock \in Deployments \union {None}
  /\ seen \in [Deployments -> SUBSET Deployments]
  /\ index \in SUBSET Deployments
  /\ at \in [Deployments -> 0 .. commits]
  /\ commits \in Nat
  /\ origin \in 0 .. commits

WriterInit ==
  /\ up = TRUE
  /\ pc = [d \in Deployments |-> "idle"]
  /\ lock = None
  /\ seen = [d \in Deployments |-> {}]
  /\ index = {}
  /\ at = [d \in Deployments |-> 0]
  /\ commits = 0
  /\ origin = 0

-----------------------------------------------------------------------------
Goto(d, l) == pc' = [pc EXCEPT ![d] = l]

\* The call returns, with or without an error, and gives up the mutex.
Return(d) == Goto(d, "done") /\ lock' = None

\* Files that the next commit would add: git refuses one that changes nothing.
Uncommitted == {x \in index : at[x] = 0}

\* The handler draws a uuid and calls CreateDeployment.
Begin(d) ==
  /\ up /\ pc[d] = "idle"
  /\ Goto(d, "write")
  /\ UNCHANGED <<up, lock, seen, index, at, commits, origin>>

\* MkdirAll and WriteFile, outside the mutex.
Write(d) ==
  /\ pc[d] = "write"
  /\ Goto(d, "lock")
  /\ UNCHANGED <<up, lock, seen, index, at, commits, origin>>

WriteError(d) ==
  /\ pc[d] = "write"
  /\ Goto(d, "done")
  /\ UNCHANGED <<up, lock, seen, index, at, commits, origin>>

\* Mutant: nobody waits for the mutex.
LockAtOnce(d) ==
  /\ pc[d] = "lock"
  /\ lock' = d
  /\ Goto(d, "open")
  /\ UNCHANGED <<up, seen, index, at, commits, origin>>

\* withLock.
Lock(d) ==
  /\ pc[d] = "lock" /\ lock = None
  /\ lock' = d
  /\ Goto(d, "open")
  /\ UNCHANGED <<up, seen, index, at, commits, origin>>

\* PlainOpen and Worktree.
Open(d) ==
  /\ pc[d] = "open"
  /\ Goto(d, "add")
  /\ UNCHANGED <<up, lock, seen, index, at, commits, origin>>

OpenError(d) ==
  /\ pc[d] \in {"open", "add", "stage"}
  /\ Return(d)
  /\ UNCHANGED <<up, seen, index, at, commits, origin>>

\* Worktree.Add reads the index file ...
ReadIndex(d) ==
  /\ pc[d] = "add"
  /\ seen' = [seen EXCEPT ![d] = index]
  /\ Goto(d, "stage")
  /\ UNCHANGED <<up, lock, index, at, commits, origin>>

\* ... and writes it back with one more file.
Stage(d) ==
  /\ pc[d] = "stage"
  /\ index' = seen[d] \union {d}
  /\ Goto(d, "commit")
  /\ UNCHANGED <<up, lock, seen, at, commits, origin>>

\* The commit has the files of the index, and no other.
Commit(d) ==
  /\ pc[d] = "commit" /\ Uncommitted # {}
  /\ commits' = commits + 1
  /\ at' = [x \in Deployments |-> IF x \notin index THEN 0
                                  ELSE IF at[x] = 0 THEN commits + 1 ELSE at[x]]
  /\ origin' = IF Local THEN commits + 1 ELSE origin
  /\ Goto(d, "push")
  /\ UNCHANGED <<up, lock, seen, index>>

\* Mutant: after a failed commit the mutex is kept.
CommitErrorKeepsLock(d) ==
  /\ pc[d] = "commit"
  /\ Goto(d, "done")
  /\ UNCHANGED <<up, lock, seen, index, at, commits, origin>>

CommitError(d) ==
  /\ pc[d] = "commit"
  /\ Return(d)
  /\ UNCHANGED <<up, seen, index, at, commits, origin>>

Push(d) ==
  /\ pc[d] = "push"
  /\ origin' = commits
  /\ Return(d)
  /\ UNCHANGED <<up, seen, index, at, commits>>

PushError(d) ==
  /\ pc[d] = "push"
  /\ Return(d)
  /\ UNCHANGED <<up, seen, index, at, commits, origin>>

\* The process dies.  A call whose file is in the index has had an effect; of
\* the others nothing is left that git knows of.
Crash ==
  /\ up
  /\ up' = FALSE
  /\ lock' = None
  /\ pc' = [d \in Deployments |->
              IF pc[d] \in {"idle", "done", "dead"} THEN pc[d]
              ELSE IF pc[d] \in {"commit", "push"} THEN "done" ELSE "dead"]
  /\ UNCHANGED <<seen, index, at, commits, origin>>

\* InitRepo finds the working copy and opens it.
Restart ==
  /\ ~up
  /\ up' = TRUE
  /\ UNCHANGED <<pc, lock, seen, index, at, commits, origin>>

\* Mutant: the new clone starts with the index of the old one.
RecloneKeepsIndex ==
  /\ ~up /\ ~Local
  /\ up' = TRUE
  /\ commits' = origin
  /\ at' = [d \in Deployments |-> IF at[d] > origin THEN 0 ELSE at[d]]
  /\ UNCHANGED <<pc, lock, seen, index, origin>>

\* Mutant: files of commits that the clone has not are taken for committed.
RecloneKeepsFiles ==
  /\ ~up /\ ~Local
  /\ up' = TRUE
  /\ commits' = origin
  /\ index' = {d \in Deployments : at[d] \in 1 .. origin}
  /\ UNCHANGED <<pc, lock, seen, at, origin>>

\* InitRepo does not find it, or cannot open it, and clones the origin.
Reclone ==
  /\ ~up /\ ~Local
  /\ up' = TRUE
  /\ commits' = origin
  /\ at' = [d \in Deployments |-> IF at[d] > origin THEN 0 ELSE at[d]]
  /\ index' = {d \in Deployments : at[d] \in 1 .. origin}
  /\ UNCHANGED <<pc, lock, seen, origin>>

Step(d) ==
  \/ Write(d) \/ WriteError(d) \/ Lock(d) \/ Open(d) \/ OpenError(d)
  \/ ReadIndex(d) \/ Stage(d) \/ Commit(d) \/ CommitError(d)
  \/ Push(d) \/ PushError(d)

WriterNext ==
  \/ Crash \/ Restart \/ Reclone
  \/ \E d \in Deployments : Begin(d) \/ Step(d)

WriterSpec == WriterInit /\ [][WriterNext]_writerVars

\* A handler that can run does; sync.Mutex lets no waiter starve.
FairWriterSpec == WriterSpec /\ \A d \in Deployments : SF_writerVars(Step(d))

-----------------------------------------------------------------------------
\* What HEAD has is in the index: the next commit takes no file away that an
\* earlier call committed (Add reads the index and writes it back).
NothingIsTakenAway == \A d \in Deployments : at[d] # 0 => d \in index

\* One call at a time is between Lock and Unlock, also after a crash.
OneCallWorks == \A d \in Deployments : pc[d] \in Working => lock = d

\* No call waits for ever: not for the mutex, nor for one that died with it.
CallsReturn == \A d \in Deployments : pc[d] = "write" ~> pc[d] \in {"done", "dead"}

-----------------------------------------------------------------------------
(* The outcomes.  A call that has committed and not yet tried to push has  *)
(* no outcome, except in local mode, where clones see its commit already.  *)

Pushing == \E d \in Deployments : pc[d] = "push" /\ ~Local
Newest == {x \in Deployments : Pushing /\ at[x] = commits}

Outcome == {d \in Deployments : pc[d] = "done" \/ (pc[d] = "push" /\ Local)}

Repo == INSTANCE DesiredState
          WITH created <- Outcome,
               staged <- (Uncommitted \union Newest) \intersect Outcome,
               at <- [d \in Deployments |-> IF d \in Newest THEN 0 ELSE at[d]],
               commits <- IF Pushing THEN commits - 1 ELSE commits

\* With all interleavings and crashes the calls have the outcomes, and the
\* readers the view, that DesiredState describes.
ImplementsRepo == Repo!RepoSpec
=============================================================================
