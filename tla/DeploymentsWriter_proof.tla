----------------------- MODULE DeploymentsWriter_proof -----------------------
(***************************************************************************)
(* The mutex of the repository makes CommitAndPush atomic for its readers, *)
(* for any number of concurrent calls, crashes and new clones.             *)
(***************************************************************************)
EXTENDS DeploymentsWriter, TLAPS

\* The file of a call is in the index once it is staged, and what the call has
\* read of the index is still true when it writes it back.
IndexIsCurrent ==
  /\ \A d \in Deployments : d \in index => pc[d] \in {"commit", "push", "done"}
  /\ \A d \in Deployments : pc[d] \in {"commit", "push"} => d \in index
  /\ \A d \in Deployments : pc[d] = "stage" => seen[d] = index

\* The file of a call is in HEAD only when its commit was made, and no call
\* leaves files behind between its commit and its push.
CommitIsDone ==
  /\ \A d \in Deployments : at[d] # 0 => pc[d] \in {"push", "done"}
  /\ \A d \in Deployments : pc[d] = "push" =>
       /\ at[d] = commits /\ commits # 0
       /\ \A x \in index : at[x] # 0
       /\ origin # commits <=> ~Local

\* Nothing runs in a dead process.
DeadIsIdle == ~up => \A d \in Deployments : pc[d] \in {"idle", "done", "dead"}

WriterInv ==
  /\ WriterTypeOK
  /\ OneCallWorks
  /\ NothingIsTakenAway
  /\ IndexIsCurrent
  /\ CommitIsDone
  /\ DeadIsIdle

-----------------------------------------------------------------------------
\* Types: co.CreateDeployment and gitmanager.CommitAndPush.
LEMMA TypeStep ==
  ASSUME WriterInv, [WriterNext]_writerVars
  PROVE  WriterTypeOK'
<1> USE WriterAssumption DEF WriterInv, WriterTypeOK, Goto, Return, Working
<1>1. CASE UNCHANGED writerVars
  BY <1>1 DEF writerVars
<1>2. CASE Crash
  BY <1>2 DEF Crash
<1>3. CASE Restart
  BY <1>3 DEF Restart
<1>4. CASE Reclone
  BY <1>4 DEF Reclone
<1>5. ASSUME NEW d \in Deployments, Begin(d)
      PROVE  WriterTypeOK'
  BY <1>5 DEF Begin
<1>6. ASSUME NEW d \in Deployments, Commit(d)
      PROVE  WriterTypeOK'
  <2>1. at' \in [Deployments -> 0 .. commits']
    BY <1>6 DEF Commit
  <2>2. commits' \in Nat /\ origin' \in 0 .. commits'
    BY <1>6 DEF Commit
  <2>3. pc' \in [Deployments -> {"idle", "write", "lock", "done", "dead"} \union Working]
    BY <1>6 DEF Commit
  <2> QED
    BY <2>1, <2>2, <2>3, <1>6 DEF Commit
<1>7. ASSUME NEW d \in Deployments, Stage(d)
      PROVE  WriterTypeOK'
  BY <1>7 DEF Stage
<1>8. ASSUME NEW d \in Deployments,
             \/ Write(d) \/ WriteError(d) \/ Lock(d) \/ Open(d) \/ OpenError(d)
             \/ ReadIndex(d) \/ CommitError(d) \/ Push(d) \/ PushError(d)
      PROVE  WriterTypeOK'
  BY <1>8 DEF Write, WriteError, Lock, Open, OpenError, ReadIndex, CommitError,
     Push, PushError
<1> QED
  BY <1>1, <1>2, <1>3, <1>4, <1>5, <1>6, <1>7, <1>8 DEF WriterNext, Step

\* The mutex is held by the one call that works.
LEMMA MutexStep ==
  ASSUME WriterInv, [WriterNext]_writerVars
  PROVE  OneCallWorks'
<1> USE WriterAssumption DEF WriterInv, WriterTypeOK, OneCallWorks, Goto, Return, Working
<1>1. CASE UNCHANGED writerVars
  BY <1>1 DEF writerVars
<1>2. CASE Crash
  BY <1>2 DEF Crash
<1>3. CASE Restart \/ Reclone
  BY <1>3 DEF Restart, Reclone
<1>4. ASSUME NEW d \in Deployments, Begin(d) \/ Step(d)
      PROVE  OneCallWorks'
  <2>1. CASE Begin(d) \/ Write(d) \/ WriteError(d)
    BY <2>1 DEF Begin, Write, WriteError
  <2>2. CASE Lock(d)
    BY <2>2 DEF Lock
  <2>3. CASE Open(d) \/ ReadIndex(d) \/ Stage(d) \/ Commit(d)
    BY <2>3 DEF Open, ReadIndex, Stage, Commit
  <2>4. CASE OpenError(d) \/ CommitError(d) \/ Push(d) \/ PushError(d)
    BY <2>4 DEF OpenError, CommitError, Push, PushError
  <2> QED
    BY <1>4, <2>1, <2>2, <2>3, <2>4 DEF Step
<1> QED
  BY <1>1, <1>2, <1>3, <1>4 DEF WriterNext

\* What HEAD has stays in the index, and the index is what the calls staged.
LEMMA IndexStep ==
  ASSUME WriterInv, [WriterNext]_writerVars
  PROVE  NothingIsTakenAway' /\ IndexIsCurrent'
<1> USE WriterAssumption DEF WriterInv, WriterTypeOK, NothingIsTakenAway,
        IndexIsCurrent, Goto, Return
<1>1. CASE UNCHANGED writerVars
  BY <1>1 DEF writerVars
<1>2. CASE Crash
  BY <1>2 DEF Crash
<1>3. CASE Restart
  BY <1>3 DEF Restart
<1>4. CASE Reclone
  <2>1. \A d \in Deployments : pc[d] \notin {"commit", "push", "stage"}
    BY <1>4 DEF Reclone, DeadIsIdle
  <2>2. NothingIsTakenAway'
    BY <1>4 DEF Reclone
  <2>3. \A d \in Deployments : d \in index' => pc[d] = "done"
    BY <1>4, <2>1 DEF Reclone, CommitIsDone
  <2>4. pc' = pc
    BY <1>4 DEF Reclone
  <2> QED
    BY <2>1, <2>2, <2>3, <2>4
<1>5. ASSUME NEW d \in Deployments, Begin(d) \/ Write(d) \/ WriteError(d)
             \/ Lock(d) \/ Open(d) \/ OpenError(d)
      PROVE  NothingIsTakenAway' /\ IndexIsCurrent'
  BY <1>5 DEF Begin, Write, WriteError, Lock, Open, OpenError
<1>6. ASSUME NEW d \in Deployments, ReadIndex(d)
      PROVE  NothingIsTakenAway' /\ IndexIsCurrent'
  BY <1>6 DEF ReadIndex
<1>7. ASSUME NEW d \in Deployments, Stage(d)
      PROVE  NothingIsTakenAway' /\ IndexIsCurrent'
  <2>1. index' = index \union {d}
    BY <1>7 DEF Stage
  <2>2. \A x \in Deployments : pc[x] = "stage" => x = d
    BY <1>7 DEF Stage, OneCallWorks, Working
  <2> QED
    BY <1>7, <2>1, <2>2 DEF Stage
<1>8. ASSUME NEW d \in Deployments, Commit(d)
      PROVE  NothingIsTakenAway' /\ IndexIsCurrent'
  BY <1>8 DEF Commit
<1>9. ASSUME NEW d \in Deployments, CommitError(d) \/ Push(d) \/ PushError(d)
      PROVE  NothingIsTakenAway' /\ IndexIsCurrent'
  BY <1>9 DEF CommitError, Push, PushError
<1> QED
  BY <1>1, <1>2, <1>3, <1>4, <1>5, <1>6, <1>7, <1>8, <1>9 DEF WriterNext, Step

\* A commit takes the whole index, and only the call that made it is between
\* commit and push.
LEMMA CommitStep ==
  ASSUME WriterInv, [WriterNext]_writerVars
  PROVE  CommitIsDone'
<1> USE WriterAssumption DEF WriterInv, WriterTypeOK, CommitIsDone, Goto, Return
<1>1. CASE UNCHANGED writerVars
  BY <1>1 DEF writerVars
<1>2. CASE Crash
  BY <1>2 DEF Crash
<1>3. CASE Restart
  BY <1>3 DEF Restart
<1>4. CASE Reclone
  BY <1>4 DEF Reclone, DeadIsIdle
<1>5. ASSUME NEW d \in Deployments, Begin(d) \/ Write(d) \/ WriteError(d)
             \/ Lock(d) \/ Open(d) \/ OpenError(d) \/ ReadIndex(d)
      PROVE  CommitIsDone'
  BY <1>5 DEF Begin, Write, WriteError, Lock, Open, OpenError, ReadIndex
<1>6. ASSUME NEW d \in Deployments, Stage(d)
      PROVE  CommitIsDone'
  <2>1. \A x \in Deployments : pc'[x] # "push"
    BY <1>6 DEF Stage, OneCallWorks, Working
  <2>2. at' = at /\ pc' = [pc EXCEPT ![d] = "commit"] /\ pc[d] = "stage"
    BY <1>6 DEF Stage
  <2> QED
    BY <2>1, <2>2
<1>7. ASSUME NEW d \in Deployments, Commit(d)
      PROVE  CommitIsDone'
  <2>1. \A x \in Deployments : pc'[x] = "push" => x = d
    BY <1>7 DEF Commit, OneCallWorks, Working
  <2>2. d \in index /\ at[d] = 0
    BY <1>7 DEF Commit, IndexIsCurrent
  <2>3. \A x \in index : at'[x] # 0
    BY <1>7 DEF Commit
  <2>4. at'[d] = commits' /\ commits' # 0
    BY <1>7, <2>2 DEF Commit
  <2>5. origin' # commits' <=> ~Local
    BY <1>7 DEF Commit
  <2>6. \A x \in index : pc'[x] \in {"push", "done"}
    BY <1>7 DEF Commit, IndexIsCurrent, OneCallWorks, Working
  <2>7. \A x \in Deployments : at'[x] # 0 => x \in index
    BY <1>7 DEF Commit
  <2> QED
    BY <2>1, <2>3, <2>4, <2>5, <2>6, <2>7, <1>7 DEF Commit
<1>8. ASSUME NEW d \in Deployments, CommitError(d)
      PROVE  CommitIsDone'
  BY <1>8 DEF CommitError
<1>9. ASSUME NEW d \in Deployments, Push(d) \/ PushError(d)
      PROVE  CommitIsDone'
  <2>1. \A x \in Deployments : pc'[x] # "push"
    BY <1>9 DEF Push, PushError, OneCallWorks, Working
  <2> QED
    BY <2>1, <1>9 DEF Push, PushError
<1> QED
  BY <1>1, <1>2, <1>3, <1>4, <1>5, <1>6, <1>7, <1>8, <1>9 DEF WriterNext, Step

\* A crash leaves no call running, and none begins before the restart.
LEMMA DeadStep ==
  ASSUME WriterInv, [WriterNext]_writerVars
  PROVE  DeadIsIdle'
<1> USE DEF WriterInv, WriterTypeOK, DeadIsIdle, Goto, Return
<1>1. CASE UNCHANGED writerVars
  BY <1>1 DEF writerVars
<1>2. CASE Crash
  BY <1>2 DEF Crash
<1>3. CASE Restart \/ Reclone
  BY <1>3 DEF Restart, Reclone
<1>4. ASSUME NEW d \in Deployments, Begin(d)
      PROVE  DeadIsIdle'
  BY <1>4 DEF Begin
<1>5. ASSUME NEW d \in Deployments, Step(d)
      PROVE  DeadIsIdle'
  <2>1. pc[d] \in {"write", "lock", "open", "add", "stage", "commit", "push"}
    BY <1>5 DEF Step, Write, WriteError, Lock, Open, OpenError, ReadIndex, Stage,
       Commit, CommitError, Push, PushError
  <2>2. up' = up
    BY <1>5 DEF Step, Write, WriteError, Lock, Open, OpenError, ReadIndex, Stage,
       Commit, CommitError, Push, PushError
  <2> QED
    BY <2>1, <2>2
<1> QED
  BY <1>1, <1>2, <1>3, <1>4, <1>5 DEF WriterNext

LEMMA WriterInvStep ==
  ASSUME WriterInv, [WriterNext]_writerVars
  PROVE  WriterInv'
BY TypeStep, MutexStep, IndexStep, CommitStep, DeadStep DEF WriterInv

\* The inductive invariant of the CO's writers.
THEOREM WriterInvariant == WriterSpec => []WriterInv
<1>1. WriterInit => WriterInv
  BY DEF WriterInit, WriterInv, WriterTypeOK, OneCallWorks, Working,
     NothingIsTakenAway, IndexIsCurrent, CommitIsDone, DeadIsIdle
<1>2. WriterInv /\ [WriterNext]_writerVars => WriterInv'
  BY WriterInvStep
<1> QED
  BY <1>1, <1>2, PTL DEF WriterSpec

\* No file is in a commit above HEAD and a reader never sees more than HEAD has, also when
\* a restarted CO clones again and loses commits that were not pushed.
THEOREM WriterTypes == WriterSpec => []WriterTypeOK
<1>1. WriterInv => WriterTypeOK
  BY DEF WriterInv
<1> QED
  BY <1>1, WriterInvariant, PTL

\* Between Lock and Unlock of the deployments repository there is one call,
\* however many handlers run and wherever the process died before.
THEOREM OneAtATime == WriterSpec => []OneCallWorks
<1>1. WriterInv => OneCallWorks
  BY DEF WriterInv
<1> QED
  BY <1>1, WriterInvariant, PTL

\* No commit takes away the file of an earlier one: the index that Add writes
\* back has everything that HEAD has.
THEOREM IndexKeepsHead == WriterSpec => []NothingIsTakenAway
<1>1. WriterInv => NothingIsTakenAway
  BY DEF WriterInv
<1> QED
  BY <1>1, WriterInvariant, PTL

-----------------------------------------------------------------------------
(* Refinement: what each step is to the readers of the repository.         *)

rStaged == (Uncommitted \union Newest) \intersect Outcome
rAt == [d \in Deployments |-> IF d \in Newest THEN 0 ELSE at[d]]
rCommits == IF Pushing THEN commits - 1 ELSE commits

\* Steps outside the index and the history are nothing to the readers.
LEMMA Unseen ==
  ASSUME WriterInv,
         UNCHANGED <<at, commits, origin>>,
         Outcome' = Outcome, Pushing' = Pushing,
         \A x \in Outcome : x \in index' <=> x \in index
  PROVE  UNCHANGED Repo!repoVars
<1>1. Newest' = Newest
  BY DEF Newest
<1>2. rStaged' = rStaged
  BY <1>1 DEF rStaged, Uncommitted
<1>3. rAt' = rAt
  BY <1>1 DEF rAt
<1> QED
  BY <1>2, <1>3 DEF Repo!repoVars, rStaged, rAt

\* Another call than the lock holder's is not between commit and push.
LEMMA NoOtherPushes ==
  ASSUME WriterInv, NEW d \in Deployments, pc[d] \in Working
  PROVE  \A x \in Deployments : pc[x] \in Working => x = d
BY DEF WriterInv, OneCallWorks

\* The steps of a call before its commit.
LEMMA EarlyStep ==
  ASSUME WriterInv, NEW d \in Deployments,
         \/ Begin(d) \/ Write(d) \/ Lock(d) \/ Open(d) \/ ReadIndex(d) \/ Stage(d)
  PROVE  UNCHANGED Repo!repoVars
<1> USE DEF WriterInv, WriterTypeOK, Goto
<1>1. /\ UNCHANGED <<at, commits, origin>>
      /\ pc[d] \in {"idle", "write", "lock", "open", "add", "stage"}
      /\ \E l \in {"write", "lock", "open", "add", "stage", "commit"} :
           pc' = [pc EXCEPT ![d] = l]
  BY DEF Begin, Write, Lock, Open, ReadIndex, Stage
<1>2. Outcome' = Outcome
  BY <1>1 DEF Outcome
<1>3. Pushing' = Pushing
  BY <1>1 DEF Pushing
<1>4. index' \in {index, index \union {d}}
  BY DEF Begin, Write, Lock, Open, ReadIndex, Stage, IndexIsCurrent
<1>5. d \notin Outcome
  BY <1>1 DEF Outcome
<1> QED
  BY <1>1, <1>2, <1>3, <1>4, <1>5, Unseen

\* A call that fails before its file is staged: the write or the add failed.
LEMMA FailedStep ==
  ASSUME WriterInv, NEW d \in Deployments, WriteError(d) \/ OpenError(d)
  PROVE  Repo!WriteFails(d)
<1> USE DEF WriterInv, WriterTypeOK, Goto, Return
<1>1. /\ UNCHANGED <<at, commits, origin, index>>
      /\ pc[d] \in {"write", "open", "add", "stage"}
      /\ pc' = [pc EXCEPT ![d] = "done"]
  BY DEF WriteError, OpenError
<1>2. d \notin Outcome /\ d \notin index
  BY <1>1 DEF Outcome, IndexIsCurrent
<1>3. Outcome' = Outcome \union {d}
  BY <1>1 DEF Outcome
<1>4. Pushing' = Pushing
  BY <1>1 DEF Pushing
<1>5. Newest' = Newest
  BY <1>1, <1>4 DEF Newest
<1>6. d \notin Newest
  BY <1>1 DEF Newest, Pushing, CommitIsDone
<1>7. rStaged' = rStaged
  BY <1>1, <1>2, <1>3, <1>5, <1>6 DEF rStaged, Uncommitted
<1>8. rAt' = rAt
  BY <1>1, <1>5 DEF rAt
<1> QED
  BY <1>1, <1>2, <1>3, <1>4, <1>7, <1>8 DEF Repo!WriteFails, rStaged, rAt

\* A failed commit leaves the file of the call in the index.
LEMMA CommitErrorStep ==
  ASSUME WriterInv, NEW d \in Deployments, pc[d] = "commit",
         UNCHANGED <<at, commits, origin, index>>,
         \A x \in Deployments : pc'[x] = "done" <=> pc[x] = "done" \/ x = d,
         \A x \in Deployments : pc'[x] # "push"
  PROVE  Repo!CommitFails(d)
<1> USE DEF WriterInv, WriterTypeOK
<1>1. ~Pushing /\ ~Pushing'
  BY NoOtherPushes DEF Pushing, Working
<1>2. Newest = {} /\ Newest' = {}
  BY <1>1 DEF Newest
<1>3. d \notin Outcome
  BY DEF Outcome
<1>4. Outcome' = Outcome \union {d}
  BY <1>1, NoOtherPushes DEF Outcome, Working
<1>5. d \in Uncommitted
  BY DEF Uncommitted, IndexIsCurrent, CommitIsDone
<1>6. Uncommitted' = Uncommitted
  BY DEF Uncommitted
<1>7. rStaged' = rStaged \union {d}
  BY <1>2, <1>4, <1>5, <1>6 DEF rStaged
<1>8. rAt' = rAt
  BY <1>2 DEF rAt
<1> QED
  BY <1>1, <1>3, <1>4, <1>7, <1>8 DEF Repo!CommitFails, rStaged, rAt

\* The files that wait for a commit are those of calls that failed, and the
\* one of the call that commits now.
LEMMA WaitingFiles ==
  ASSUME WriterInv, NEW d \in Deployments, pc[d] = "commit"
  PROVE  /\ ~Pushing /\ Newest = {}
         /\ d \in Uncommitted
         /\ Uncommitted \ {d} \subseteq Outcome
<1> USE DEF WriterInv, WriterTypeOK
<1>1. ~Pushing
  BY NoOtherPushes DEF Pushing, Working
<1>2. d \in Uncommitted
  BY DEF Uncommitted, IndexIsCurrent, CommitIsDone
<1>3. \A x \in index : x # d => pc[x] = "done"
  BY NoOtherPushes DEF IndexIsCurrent, Working
<1> QED
  BY <1>1, <1>2, <1>3 DEF Newest, Outcome, Uncommitted

\* A commit is seen by nobody before the push, but for local mode.
LEMMA CommitSeen ==
  ASSUME WriterInv, NEW d \in Deployments, Commit(d)
  PROVE  Repo!PushFails(d) \/ UNCHANGED Repo!repoVars
<1> USE WriterAssumption DEF WriterInv, WriterTypeOK, Goto
<1>0. pc[d] = "commit" /\ pc' = [pc EXCEPT ![d] = "push"] /\ index' = index
      /\ commits' = commits + 1
  BY DEF Commit
<1>1. \A x \in Deployments : at'[x] = IF x \in Uncommitted THEN commits + 1 ELSE at[x]
  BY DEF Commit, Uncommitted, NothingIsTakenAway
<1>2. Uncommitted' = {}
  BY <1>0, <1>1 DEF Uncommitted
<1>3. \A x \in Deployments : at[x] # commits + 1
  OBVIOUS
<1>4. d \notin Outcome
  BY <1>0 DEF Outcome
<1>5. CASE Local
  <2>1. ~Pushing' /\ Newest' = {} /\ ~Pushing
    BY <1>5 DEF Pushing, Newest
  <2>2. Outcome' = Outcome \union {d}
    BY <1>0, <1>5 DEF Outcome
  <2>3. rStaged' = {}
    BY <1>2, <2>1 DEF rStaged
  <2>4. \A x \in Deployments : x \in rStaged \union {d} <=> x \in Uncommitted
    BY <1>0, <1>4, WaitingFiles DEF rStaged, Uncommitted
  <2>5. rAt' = [x \in Deployments |->
                  IF x \in rStaged \union {d} THEN commits + 1 ELSE rAt[x]]
    BY <1>0, <1>1, <2>1, <2>4, WaitingFiles DEF rAt
  <2>6. origin' = commits + 1
    BY <1>5 DEF Commit
  <2> QED
    BY <1>0, <1>4, <1>5, <2>1, <2>2, <2>3, <2>5, <2>6
       DEF Repo!PushFails, Repo!CommitIndex, rStaged, rAt
<1>6. CASE ~Local
  <2>1. Pushing' /\ ~Pushing /\ Newest = {}
    BY <1>0, <1>6, WaitingFiles DEF Pushing
  <2>2. Outcome' = Outcome
    BY <1>0, <1>6 DEF Outcome
  <2>3. Newest' = Uncommitted
    BY <1>0, <1>1, <1>3, <2>1 DEF Newest, Uncommitted
  <2>4. rStaged' = rStaged
    BY <1>2, <2>1, <2>2, <2>3 DEF rStaged
  <2>5. rAt' = rAt
    BY <1>0, <1>1, <2>1, <2>3 DEF rAt, Uncommitted
  <2>6. rCommits' = rCommits /\ origin' = origin
    BY <1>0, <1>6, <2>1 DEF rCommits, Commit
  <2> QED
    BY <2>2, <2>4, <2>5, <2>6 DEF Repo!repoVars, rStaged, rAt, rCommits
<1> QED
  BY <1>5, <1>6

\* The end of a call that has committed, by a push, a failed push or a crash.
LEMMA PushEnds ==
  ASSUME WriterInv, WriterInv', NEW d \in Deployments, pc[d] = "push",
         UNCHANGED <<at, commits, index>>,
         origin' \in {origin, commits},
         \A x \in Deployments : pc'[x] = "done" <=> pc[x] = "done" \/ x = d,
         \A x \in Deployments : pc'[x] # "push"
  PROVE  Repo!Push(d) \/ Repo!PushFails(d) \/ UNCHANGED Repo!repoVars
<1> USE WriterAssumption DEF WriterInv, WriterTypeOK
<1>1. ~Pushing' /\ Newest' = {}
  BY DEF Pushing, Newest
<1>2. Uncommitted = {} /\ Uncommitted' = {}
  BY DEF Uncommitted, CommitIsDone
<1>3. \A x \in Deployments : pc[x] = "push" => x = d
  BY NoOtherPushes DEF Working
<1>4. rStaged' = {}
  BY <1>1, <1>2 DEF rStaged
<1>5. rAt' = at
  BY <1>1 DEF rAt
<1>6. CASE Local
  <2>1. ~Pushing /\ Newest = {}
    BY <1>6 DEF Pushing, Newest
  <2>2. Outcome' = Outcome
    BY <1>3, <1>6 DEF Outcome
  <2>3. rStaged = {} /\ rAt = at
    BY <1>2, <2>1 DEF rStaged, rAt
  <2>4. origin' = origin
    BY <1>6 DEF CommitIsDone
  <2> QED
    BY <1>1, <1>4, <1>5, <2>1, <2>2, <2>3, <2>4 DEF Repo!repoVars, rStaged, rAt
<1>7. CASE ~Local
  <2>1. Pushing
    BY <1>7 DEF Pushing
  <2>2. d \notin Outcome
    BY <1>7 DEF Outcome
  <2>3. Outcome' = Outcome \union {d}
    BY <1>7 DEF Outcome
  <2>4. at[d] = commits /\ commits # 0 /\ commits \in Nat
    BY DEF CommitIsDone
  <2>5. \A x \in Newest : x \in Outcome \union {d}
    BY <1>3, <2>4 DEF Newest, Outcome, CommitIsDone
  <2>6. \A x \in Deployments : x \in rStaged \union {d} <=> x \in Newest
    BY <1>2, <2>1, <2>2, <2>4, <2>5 DEF rStaged, Newest
  <2>7. rCommits = commits - 1 /\ rCommits + 1 = commits /\ rCommits' = commits
    BY <1>1, <2>1, <2>4 DEF rCommits
  <2>8. \A x \in Newest : at[x] = commits
    BY DEF Newest
  <2>9. rAt' = [x \in Deployments |->
                  IF x \in rStaged \union {d} THEN rCommits + 1 ELSE rAt[x]]
    BY <1>5, <2>6, <2>7, <2>8 DEF rAt
  <2>10. Repo!CommitIndex(d)
    BY <1>4, <2>2, <2>3, <2>7, <2>9 DEF Repo!CommitIndex, rStaged, rAt, rCommits
  <2>11. origin' = origin \/ origin' = rCommits + 1
    BY <2>7
  <2> QED
    BY <1>7, <2>10, <2>11 DEF Repo!Push, Repo!PushFails, rCommits
<1> QED
  BY <1>6, <1>7

\* The process dies in the middle of any number of calls.
LEMMA CrashSeen ==
  ASSUME WriterInv, WriterInv', Crash
  PROVE  \/ \E d \in Deployments : Repo!CreateDeployment(d)
         \/ UNCHANGED Repo!repoVars
<1> USE DEF WriterInv, WriterTypeOK
<1>1. UNCHANGED <<at, commits, origin, index>>
  BY DEF Crash
<1>2. \A x \in Deployments : pc'[x] # "push" /\ pc'[x] # "commit"
  BY DEF Crash
<1>3. \A x \in Deployments : pc'[x] = "done" <=> pc[x] \in {"done", "commit", "push"}
  BY DEF Crash
<1>4. CASE \E d \in Deployments : pc[d] = "commit"
  <2>1. PICK d \in Deployments : pc[d] = "commit"
    BY <1>4
  <2>2. \A x \in Deployments : pc'[x] = "done" <=> pc[x] = "done" \/ x = d
    BY <1>3, <2>1, NoOtherPushes DEF Working
  <2> QED
    BY <1>1, <1>2, <2>1, <2>2, CommitErrorStep DEF Repo!CreateDeployment
<1>5. CASE \E d \in Deployments : pc[d] = "push"
  <2>1. PICK d \in Deployments : pc[d] = "push"
    BY <1>5
  <2>2. \A x \in Deployments : pc'[x] = "done" <=> pc[x] = "done" \/ x = d
    BY <1>3, <2>1, NoOtherPushes DEF Working
  <2> QED
    BY <1>1, <1>2, <2>1, <2>2, PushEnds DEF Repo!CreateDeployment
<1>6. CASE \A d \in Deployments : pc[d] \notin {"commit", "push"}
  <2>1. ~Pushing /\ ~Pushing'
    BY <1>2, <1>6 DEF Pushing
  <2>2. Outcome' = Outcome
    BY <1>2, <1>3, <1>6 DEF Outcome
  <2>3. Pushing' = Pushing
    BY <2>1 DEF Pushing
  <2>4. \A x \in Outcome : x \in index' <=> x \in index
    BY <1>1
  <2> HIDE DEF WriterInv, WriterTypeOK
  <2> QED
    BY <1>1, <2>2, <2>3, <2>4, Unseen
<1> QED
  BY <1>4, <1>5, <1>6

\* A new clone has what the origin has, and an empty index.
LEMMA RecloneSeen ==
  ASSUME WriterInv, Reclone
  PROVE  Repo!Reclone
<1> USE DEF WriterInv, WriterTypeOK
<1>1. ~Pushing /\ ~Pushing' /\ Newest = {} /\ Newest' = {}
  BY DEF Reclone, DeadIsIdle, Pushing, Newest
<1>2. Outcome' = Outcome /\ ~Local
  BY DEF Reclone, Outcome
<1>3. Uncommitted' = {}
  BY DEF Reclone, Uncommitted
<1>4. rStaged' = {}
  BY <1>1, <1>3 DEF rStaged
<1>5. rAt = at
  BY <1>1 DEF rAt
<1>6. rAt' = [d \in Deployments |-> IF rAt[d] > origin THEN 0 ELSE rAt[d]]
  <2>1. \A d \in Deployments : at'[d] = IF at[d] > origin THEN 0 ELSE at[d]
    BY DEF Reclone
  <2>2. rAt' = [d \in Deployments |-> at'[d]]
    BY <1>1 DEF rAt
  <2> QED
    BY <1>5, <2>1, <2>2
<1>7. rCommits' = origin /\ origin' = origin
  BY <1>1 DEF Reclone, rCommits
<1> HIDE DEF WriterInv, WriterTypeOK
<1> QED
  BY <1>2, <1>4, <1>6, <1>7 DEF Repo!Reclone, rStaged, rAt, rCommits

\* Every step of the CO is a step or nothing to the readers.
LEMMA WriterStepSeen ==
  ASSUME WriterInv, WriterInv', [WriterNext]_writerVars
  PROVE  [Repo!RepoNext]_(Repo!repoVars)
<1>1. CASE UNCHANGED writerVars
  BY <1>1, Zenon DEF writerVars, Repo!repoVars, Outcome, Uncommitted, Newest, Pushing
<1>2. CASE Crash
  BY <1>2, CrashSeen DEF Repo!RepoNext
<1>3. CASE Restart
  <2>1. UNCHANGED <<pc, index, at, commits, origin>>
    BY <1>3 DEF Restart
  <2>2. Outcome' = Outcome /\ Pushing' = Pushing
    BY <2>1 DEF Outcome, Pushing
  <2> QED
    BY <2>1, <2>2, Unseen
<1>4. CASE Reclone
  BY <1>4, RecloneSeen DEF Repo!RepoNext
<1>5. ASSUME NEW d \in Deployments, Begin(d) \/ Step(d)
      PROVE  [Repo!RepoNext]_(Repo!repoVars)
  <2>1. CASE \/ Begin(d) \/ Write(d) \/ Lock(d) \/ Open(d) \/ ReadIndex(d) \/ Stage(d)
    BY <2>1, EarlyStep
  <2>2. CASE WriteError(d) \/ OpenError(d)
    BY <2>2, FailedStep DEF Repo!RepoNext, Repo!CreateDeployment
  <2>3. CASE Commit(d)
    BY <2>3, CommitSeen DEF Repo!RepoNext, Repo!CreateDeployment
  <2>4. CASE CommitError(d)
    <3>1. pc[d] = "commit" /\ pc' = [pc EXCEPT ![d] = "done"]
          /\ UNCHANGED <<at, commits, origin, index>>
      BY <2>4 DEF CommitError, Return, Goto
    <3>2. \A x \in Deployments : pc[x] # "push"
      BY <3>1, NoOtherPushes DEF Working
    <3>3. \A x \in Deployments : pc'[x] # "push"
      BY <3>1, <3>2 DEF WriterInv, WriterTypeOK
    <3>4. \A x \in Deployments : pc'[x] = "done" <=> pc[x] = "done" \/ x = d
      BY <3>1 DEF WriterInv, WriterTypeOK
    <3> QED
      BY <3>1, <3>3, <3>4, CommitErrorStep DEF Repo!RepoNext, Repo!CreateDeployment
  <2>5. CASE Push(d) \/ PushError(d)
    <3>1. pc[d] = "push" /\ pc' = [pc EXCEPT ![d] = "done"]
          /\ UNCHANGED <<at, commits, index>> /\ origin' \in {origin, commits}
      BY <2>5 DEF Push, PushError, Return, Goto
    <3>2. \A x \in Deployments : pc[x] = "push" => x = d
      BY <3>1, NoOtherPushes DEF Working
    <3>3. \A x \in Deployments : pc'[x] # "push"
      BY <3>1, <3>2 DEF WriterInv, WriterTypeOK
    <3>4. \A x \in Deployments : pc'[x] = "done" <=> pc[x] = "done" \/ x = d
      BY <3>1 DEF WriterInv, WriterTypeOK
    <3> QED
      BY <3>1, <3>3, <3>4, PushEnds DEF Repo!RepoNext, Repo!CreateDeployment
  <2> QED
    BY <1>5, <2>1, <2>2, <2>3, <2>4, <2>5 DEF Step
<1> QED
  BY <1>1, <1>2, <1>3, <1>4, <1>5 DEF WriterNext

\* The CO at the grain of its git calls implements DesiredState: concurrent
\* handlers, failures at any call and crashes have only its outcomes.
THEOREM RepoImplemented == WriterSpec => ImplementsRepo
<1>1. WriterInit => Repo!RepoInit
  BY DEF WriterInit, Repo!RepoInit, Outcome, Uncommitted, Newest, Pushing
<1>2. WriterInv /\ WriterInv' /\ [WriterNext]_writerVars
        => [Repo!RepoNext]_(Repo!repoVars)
  BY WriterStepSeen
<1> QED
  BY <1>1, <1>2, WriterInvariant, PTL DEF WriterSpec, ImplementsRepo, Repo!RepoSpec
=============================================================================
