---------------------------- MODULE DesiredState ----------------------------
(***************************************************************************)
(* The deployments repository as the central orchestrator (CO) writes it:  *)
(* one desiredstate.yaml per deployment, added, committed and pushed by    *)
(* gitmanager.CommitAndPush.  A commit is its number; a deployment is the  *)
(* uuid the API handler draws for one site, so it is written only once.    *)
(***************************************************************************)
EXTENDS Integers

CONSTANTS Deployments,  \* the deployment ids the CO will ever draw
          Local         \* GitLocal mode: the CO's working copy is the origin

ASSUME LocalAssumption == Local \in BOOLEAN

VARIABLES created,  \* the deployments CreateDeployment was called for
          staged,   \* files in the index of the CO's repository, not committed
          at,       \* the commit that holds a deployment's file, 0 for none
          commits,  \* the last commit of the CO's repository, 0 when empty
          origin    \* the last commit a clone of the repository can see

repoVars == <<created, staged, at, commits, origin>>

RepoTypeOK ==
  /\ created \in SUBSET Deployments
  /\ staged \in SUBSET Deployments
  /\ at \in [Deployments -> Nat]
  /\ commits \in Nat
  /\ origin \in 0 .. commits

RepoInit ==
  /\ created = {}
  /\ staged = {}
  /\ at = [d \in Deployments |-> 0]
  /\ commits = 0
  /\ origin = 0

-----------------------------------------------------------------------------
(* co.CreateDeployment and CommitAndPush.  Whatever they return, the API   *)
(* handler goes on with the next site: each action is one outcome.         *)

\* The file is not written, or not added to the index.
WriteFails(d) ==
  /\ d \notin created
  /\ created' = created \union {d}
  /\ UNCHANGED <<staged, at, commits, origin>>

\* The file is in the index when Commit fails, and nothing takes it out.
CommitFails(d) ==
  /\ d \notin created
  /\ created' = created \union {d}
  /\ staged' = staged \union {d}
  /\ UNCHANGED <<at, commits, origin>>

\* Mutant: the index is not empty after the commit.
CommitIndexKeepsIndex(d) ==
  /\ d \notin created
  /\ created' = created \union {d}
  /\ staged' = staged \union {d}
  /\ commits' = commits + 1
  /\ at' = [x \in Deployments |->
              IF x \in staged \union {d} THEN commits + 1 ELSE at[x]]

\* The commit takes the whole index: also what a failed commit left there.
CommitIndex(d) ==
  /\ d \notin created
  /\ created' = created \union {d}
  /\ staged' = {}
  /\ commits' = commits + 1
  /\ at' = [x \in Deployments |->
              IF x \in staged \union {d} THEN commits + 1 ELSE at[x]]

\* A push sends every commit the origin does not have yet.
Push(d) ==
  /\ CommitIndex(d)
  /\ origin' = commits + 1

\* The commit stays when the push fails; in local mode clones read it anyway.
PushFails(d) ==
  /\ CommitIndex(d)
  /\ origin' = IF Local THEN commits + 1 ELSE origin

\* Mutant: the last published commit is taken for an unpushed one.
RecloneTooShort ==
  /\ ~Local
  /\ staged' = {}
  /\ commits' = origin
  /\ at' = [d \in Deployments |-> IF at[d] >= origin THEN 0 ELSE at[d]]
  /\ UNCHANGED <<created, origin>>

\* A CO that restarts without a usable working copy clones the origin again
\* (InitRepo, remote mode): the index and the unpushed commits are gone.
Reclone ==
  /\ ~Local
  /\ staged' = {}
  /\ commits' = origin
  /\ at' = [d \in Deployments |-> IF at[d] > origin THEN 0 ELSE at[d]]
  /\ UNCHANGED <<created, origin>>

CreateDeployment(d) ==
  WriteFails(d) \/ CommitFails(d) \/ Push(d) \/ PushFails(d)

RepoNext == Reclone \/ \E d \in Deployments : CreateDeployment(d)

RepoSpec == RepoInit /\ [][RepoNext]_repoVars

-----------------------------------------------------------------------------
\* A deployment is published when a clone of the origin holds its file.
Published(d) == at[d] \in 1 .. origin

\* What a clone has seen stays true: the origin only grows, and a deployment
\* it holds is neither moved to another commit nor withdrawn, whatever fails
\* in CommitAndPush and however often the CO is reinstalled.
PublishedIsFinal ==
  [][/\ origin' >= origin
     /\ \A d \in Deployments : Published(d) => at'[d] = at[d]]_repoVars

\* Every commit adds the file of some deployment and no file is both in the
\* index and in a commit: CommitAndPush never commits an unchanged tree, which
\* git would refuse, nor loses track of what it had staged.
CommitsAreChanges ==
  /\ \A n \in 1 .. commits : \E d \in created : at[d] = n
  /\ \A d \in staged : d \in created /\ at[d] = 0
=============================================================================
