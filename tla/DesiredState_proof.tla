------------------------- MODULE DesiredState_proof -------------------------
(***************************************************************************)
(* What the deployments repository keeps for its readers, for any number   *)
(* of deployments, in local and in remote mode.                            *)
(***************************************************************************)
EXTENDS DesiredState, TLAPS

\* A file that was never written, or is only staged, is in no commit.
OnlyWrittenIsCommitted == \A d \in Deployments : d \notin created => at[d] = 0

RepoInv == RepoTypeOK /\ CommitsAreChanges /\ OnlyWrittenIsCommitted

\* The inductive step of the repository invariant: CommitAndPush and InitRepo.
LEMMA RepoInvStep ==
  ASSUME RepoInv, [RepoNext]_repoVars
  PROVE  RepoInv'
<1> USE LocalAssumption DEF RepoInv, RepoTypeOK, CommitsAreChanges,
        OnlyWrittenIsCommitted
<1>1. CASE UNCHANGED repoVars
  BY <1>1 DEF repoVars
<1>2. CASE Reclone
  BY <1>2 DEF Reclone
<1>3. ASSUME NEW d \in Deployments, WriteFails(d)
      PROVE  RepoInv'
  BY <1>3 DEF WriteFails
<1>4. ASSUME NEW d \in Deployments, CommitFails(d)
      PROVE  RepoInv'
  BY <1>4 DEF CommitFails
<1>5. ASSUME NEW d \in Deployments, CommitIndex(d),
             origin' \in {origin, commits + 1}
      PROVE  RepoInv'
  <2>1. RepoTypeOK'
    BY <1>5 DEF CommitIndex
  <2>2. at'[d] = commits' /\ d \in created'
    BY <1>5 DEF CommitIndex
  <2>3. \A x \in Deployments : at[x] # 0 => at'[x] = at[x]
    BY <1>5 DEF CommitIndex
  <2>4. ASSUME NEW n \in 1 .. commits'
        PROVE  \E x \in created' : at'[x] = n
    <3>1. CASE n = commits'
      BY <3>1, <2>2
    <3>2. CASE n # commits'
      <4>1. n \in 1 .. commits
        BY <3>2, <1>5 DEF CommitIndex
      <4>2. PICK x \in created : at[x] = n
        BY <4>1
      <4>3. at'[x] = n /\ x \in created'
        BY <4>1, <4>2, <2>3, <1>5 DEF CommitIndex
      <4> QED
        BY <4>3
    <3> QED
      BY <3>1, <3>2
  <2>5. OnlyWrittenIsCommitted'
    BY <1>5 DEF CommitIndex
  <2> QED
    BY <2>1, <2>4, <2>5, <1>5 DEF CommitIndex
<1>6. ASSUME NEW d \in Deployments, Push(d)
      PROVE  RepoInv'
  BY <1>5, <1>6 DEF Push
<1>7. ASSUME NEW d \in Deployments, PushFails(d)
      PROVE  RepoInv'
  BY <1>5, <1>7 DEF PushFails
<1> QED
  BY <1>1, <1>2, <1>3, <1>4, <1>6, <1>7 DEF RepoNext, CreateDeployment

\* Type correctness of the repository and its bookkeeping: every commit has a
\* file of its own and nothing staged is committed already (CommitAndPush).
THEOREM RepoInvariant == RepoSpec => []RepoInv
<1>1. RepoInit => RepoInv
  BY DEF RepoInit, RepoInv, RepoTypeOK, CommitsAreChanges, OnlyWrittenIsCommitted
<1>2. RepoInv /\ [RepoNext]_repoVars => RepoInv'
  BY RepoInvStep
<1> QED
  BY <1>1, <1>2, PTL DEF RepoSpec

\* git never refuses CommitAndPush for an unchanged tree, and no file is lost
\* between index and history (CommitAndPush, InitRepo).
THEOREM CommitsAdd == RepoSpec => []CommitsAreChanges
<1>1. RepoInv => CommitsAreChanges
  BY DEF RepoInv
<1> QED
  BY <1>1, RepoInvariant, PTL

\* One step of the repository, as its readers see it.
LEMMA PublishedIsKept ==
  ASSUME RepoInv, [RepoNext]_repoVars
  PROVE  /\ origin' >= origin
         /\ \A d \in Deployments : Published(d) => at'[d] = at[d]
<1> USE LocalAssumption DEF RepoInv, RepoTypeOK, CommitsAreChanges,
        OnlyWrittenIsCommitted, Published
<1>1. CASE UNCHANGED repoVars
  BY <1>1 DEF repoVars
<1>2. CASE Reclone
  BY <1>2 DEF Reclone
<1>3. CASE \E d \in Deployments : WriteFails(d) \/ CommitFails(d)
  BY <1>3 DEF WriteFails, CommitFails
<1>4. CASE \E d \in Deployments : Push(d) \/ PushFails(d)
  BY <1>4 DEF Push, PushFails, CommitIndex
<1> QED
  BY <1>1, <1>2, <1>3, <1>4 DEF RepoNext, CreateDeployment

\* Nothing is ever added to a commit a clone can see.
LEMMA OldCommitsAreKept ==
  ASSUME RepoInv, [RepoNext]_repoVars
  PROVE  \A d \in Deployments : at'[d] \in 1 .. origin => Published(d)
<1> USE LocalAssumption DEF RepoInv, RepoTypeOK, Published
<1>1. CASE UNCHANGED repoVars
  BY <1>1 DEF repoVars
<1>2. CASE Reclone
  BY <1>2 DEF Reclone
<1>3. CASE \E d \in Deployments : WriteFails(d) \/ CommitFails(d)
  BY <1>3 DEF WriteFails, CommitFails
<1>4. CASE \E d \in Deployments : Push(d) \/ PushFails(d)
  BY <1>4 DEF Push, PushFails, CommitIndex
<1> QED
  BY <1>1, <1>2, <1>3, <1>4 DEF RepoNext, CreateDeployment

\* A clone never sees the repository go back: whatever fails in CommitAndPush,
\* and when InitRepo clones anew, published deployments stay where they are.
THEOREM PublishedForever == RepoSpec => PublishedIsFinal
<1>1. RepoInv /\ [RepoNext]_repoVars
        => [/\ origin' >= origin
            /\ \A d \in Deployments : Published(d) => at'[d] = at[d]]_repoVars
  BY PublishedIsKept
<1> QED
  BY <1>1, RepoInvariant, PTL DEF RepoSpec, PublishedIsFinal
=============================================================================
