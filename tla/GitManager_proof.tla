-------------------------- MODULE GitManager_proof --------------------------
(***************************************************************************)
(* The manager's mutex, for any number of callers: who works in a copy     *)
(* holds it, so nobody meets the half clone of a call that still runs.     *)
(***************************************************************************)
EXTENDS GitManager, TLAPS

Working == {"open", "clone", "relock"}

\* Whoever is past Lock holds the mutex.
WorkersHold == \A p \in Callers : pc[p] \in Working => mutex = p

\* A half copy is being cloned, unless the process was killed over one.
HalfIsCloned == copy = "half" => died \/ \E p \in Callers : pc[p] = "clone"

GitInv ==
  /\ GitTypeOK
  /\ WorkersHold
  /\ HalfIsCloned
  /\ HalfOnlyAfterKill

LEMMA GitInitInv == GitInit => GitInv
<1> SUFFICES ASSUME GitInit PROVE GitInv
  OBVIOUS
<1>1. GitTypeOK
  <2>1. mutex \in Callers \union {None} /\ (mutex # None => pc[mutex] \in Working)
    BY DEF GitInit
  <2>2. sawHalf \in BOOLEAN /\ died \in BOOLEAN
    BY DEF GitInit
  <2> QED
    BY <2>1, <2>2 DEF GitInit, GitTypeOK, Ops, Working
<1>2. WorkersHold
  BY DEF GitInit, WorkersHold, Working
<1>3. HalfIsCloned
  BY DEF GitInit, HalfIsCloned
<1>4. HalfOnlyAfterKill
  BY DEF GitInit, HalfOnlyAfterKill
<1> QED
  BY <1>1, <1>2, <1>3, <1>4 DEF GitInv

\* A step of the manager keeps the types of its state, and mutex and pc in step.
LEMMA GitTypeStep ==
  ASSUME GitInv, [GitNext]_gitVars
  PROVE  GitTypeOK'
<1> USE ManagerAssumption DEF GitInv, GitTypeOK, WorkersHold, Working
<1>1. ASSUME NEW p \in Callers, NEW o \in Ops, Call(p, o) PROVE GitTypeOK'
  BY <1>1 DEF Call, Goto
<1>2. ASSUME NEW p \in Callers, Lock(p) PROVE GitTypeOK'
  BY <1>2 DEF Lock, Goto
<1>3. ASSUME NEW p \in Callers, Open(p) PROVE GitTypeOK'
  <2>1. sawHalf' \in BOOLEAN
    BY <1>3 DEF Open
  <2>2. ready' \in SUBSET Callers
    BY <1>3 DEF Open, Given
  <2>3. copy' \in {"none", "damaged", "half", "good"}
    BY <1>3 DEF Open
  <2> QED
    BY <1>3, <2>1, <2>2, <2>3 DEF Open, Return, Goto
<1>4. ASSUME NEW p \in Callers, Clone(p) PROVE GitTypeOK'
  BY <1>4 DEF Clone, Goto
<1>5. ASSUME NEW p \in Callers, CloneEnds(p) PROVE GitTypeOK'
  BY <1>5 DEF CloneEnds, Return, Goto, Given
<1>6. ASSUME NEW p \in Callers, CommitFails(p) PROVE GitTypeOK'
  BY <1>6 DEF CommitFails, Return, Goto
<1>7. ASSUME NEW p \in Callers, Relock(p) PROVE GitTypeOK'
  BY <1>7 DEF Relock, Goto
<1>8. CASE Damage
  BY <1>8 DEF Damage
<1>9. CASE Kill
  <2>1. died' \in BOOLEAN
    BY <1>9 DEF Kill
  <2> QED
    BY <1>9, <2>1 DEF Kill
<1>10. CASE UNCHANGED gitVars
  BY <1>10 DEF gitVars
<1> QED
  BY <1>1, <1>2, <1>3, <1>4, <1>5, <1>6, <1>7, <1>8, <1>9, <1>10 DEF GitNext, Step

LEMMA WorkersHoldStep ==
  ASSUME GitInv, [GitNext]_gitVars
  PROVE  WorkersHold'
<1> SUFFICES ASSUME NEW q \in Callers PROVE (pc[q] \in Working => mutex = q)'
  BY DEF WorkersHold
<1> DEFINE Holds == pc[q] \in Working => mutex = q
<1>0. Holds /\ pc \in [Callers -> {"idle", "lock", "open", "clone", "relock"}] /\ q # None
  BY ManagerAssumption DEF GitInv, GitTypeOK, WorkersHold
<1>1. ASSUME NEW p \in Callers, NEW o \in Ops, Call(p, o) PROVE Holds'
  BY <1>0, <1>1 DEF Call, Goto, Working
<1>2. ASSUME NEW p \in Callers, Lock(p) PROVE Holds'
  BY <1>0, <1>2 DEF Lock, Goto, Working
<1>3. ASSUME NEW p \in Callers, Return(p), pc[p] \in Working PROVE Holds'
  <2>1. mutex = p
    BY <1>3 DEF GitInv, WorkersHold
  <2> QED
    BY <1>0, <1>3, <2>1 DEF Return, Goto, Working
<1>4. ASSUME NEW p \in Callers, Clone(p) PROVE Holds'
  BY <1>0, <1>4 DEF Clone, Goto, Working
<1>5. ASSUME NEW p \in Callers, Open(p) \/ CloneEnds(p) \/ CommitFails(p) PROVE Holds'
  BY <1>3, <1>5 DEF Open, CloneEnds, CommitFails, Working
<1>6. ASSUME NEW p \in Callers, Relock(p) PROVE Holds'
  BY <1>0, <1>6 DEF Relock, Goto, Working
<1>7. CASE Damage \/ UNCHANGED gitVars
  BY <1>0, <1>7 DEF Damage, gitVars
<1>8. CASE Kill
  BY <1>8 DEF Kill, Working
<1> QED
  BY <1>1, <1>2, <1>4, <1>5, <1>6, <1>7, <1>8 DEF GitNext, Step

\* A call that opens a copy holds the mutex, so nobody else is cloning.
LEMMA OpenMeetsNoClone ==
  ASSUME GitInv, NEW p \in Callers, pc[p] = "open"
  PROVE  /\ \A q \in Callers : pc[q] # "clone"
         /\ copy = "half" => died
BY DEF GitInv, WorkersHold, HalfIsCloned, Working

LEMMA HalfStep ==
  ASSUME GitInv, [GitNext]_gitVars
  PROVE  HalfIsCloned' /\ HalfOnlyAfterKill'
<1> USE DEF HalfIsCloned, HalfOnlyAfterKill
<1>0. /\ HalfIsCloned /\ HalfOnlyAfterKill
      /\ pc \in [Callers -> {"idle", "lock", "open", "clone", "relock"}]
  BY DEF GitInv, GitTypeOK
<1> DEFINE Goal == HalfIsCloned' /\ HalfOnlyAfterKill'
\* A call that is not cloning moves on: those that clone go on.
<1>1. ASSUME NEW p \in Callers, NEW l \in {"idle", "lock", "open", "relock"},
             pc[p] # "clone", Goto(p, l), UNCHANGED <<copy, died, sawHalf>>
      PROVE  Goal
  <2>1. \A q \in Callers : pc[q] = "clone" => pc'[q] = "clone"
    BY <1>0, <1>1 DEF Goto
  <2> QED
    BY <1>0, <1>1, <2>1
<1>2. ASSUME NEW p \in Callers, NEW o \in Ops, Call(p, o) PROVE Goal
  BY <1>1, <1>2 DEF Call
<1>3. ASSUME NEW p \in Callers, Lock(p) PROVE Goal
  BY <1>1, <1>3 DEF Lock
<1>4. ASSUME NEW p \in Callers, Open(p) PROVE Goal
  <2>1. copy = "half" => died
    BY <1>4, OpenMeetsNoClone DEF Open
  <2>2. died' = died /\ (copy' = "half" => copy = "half") /\ (sawHalf' => sawHalf \/ copy = "half")
    BY <1>4 DEF Open
  <2> QED
    BY <1>0, <2>1, <2>2
<1>5. ASSUME NEW p \in Callers, Clone(p) PROVE Goal
  <2>1. pc'[p] = "clone" /\ UNCHANGED <<died, sawHalf>>
    BY <1>0, <1>5 DEF Clone, Goto
  <2> QED
    BY <1>0, <2>1
<1>6. ASSUME NEW p \in Callers, CloneEnds(p) PROVE Goal
  BY <1>0, <1>6 DEF CloneEnds
<1>7. ASSUME NEW p \in Callers, CommitFails(p) PROVE Goal
  BY <1>1, <1>7 DEF CommitFails, Return
<1>8. ASSUME NEW p \in Callers, Relock(p) PROVE Goal
  BY <1>1, <1>8 DEF Relock
<1>9. CASE Damage
  BY <1>0, <1>9 DEF Damage
<1>10. CASE Kill
  BY <1>10 DEF Kill
<1>11. CASE UNCHANGED gitVars
  BY <1>0, <1>11 DEF gitVars
<1> QED
  BY <1>2, <1>3, <1>4, <1>5, <1>6, <1>7, <1>8, <1>9, <1>10, <1>11 DEF GitNext, Step

\* Any call that is past Lock holds the mutex, and whatever half copy there is, is being
\* cloned or was left by a process that was killed.
THEOREM GitInvHolds == GitSpec => []GitInv
<1>1. GitInit => GitInv
  BY GitInitInv
<1>2. GitInv /\ [GitNext]_gitVars => GitInv'
  BY GitTypeStep, WorkersHoldStep, HalfStep DEF GitInv
<1> QED
  BY <1>1, <1>2, PTL DEF GitSpec

\* The manager's state has its types, and a call that holds the mutex is at work.
THEOREM GitTypes == GitSpec => []GitTypeOK
<1>1. GitInv => GitTypeOK
  BY DEF GitInv
<1> QED
  BY <1>1, GitInvHolds, PTL

\* However many calls run at once, none opens a copy that another is cloning
\* (withLock, ensureCloneLocked, InitRepo).
THEOREM NoHalfCopyMet == GitSpec => []HalfOnlyAfterKill
<1>1. GitInv => HalfOnlyAfterKill
  BY DEF GitInv
<1> QED
  BY <1>1, GitInvHolds, PTL

\* The mutex does its work: two calls are never in the copy at once.
OneInTheCopy == \A p, q \in Callers : pc[p] \in Working /\ pc[q] \in Working => p = q

\* At most one call works in the copy, whatever the others do.
THEOREM OneAtWork == GitSpec => []OneInTheCopy
<1>1. GitInv => OneInTheCopy
  BY DEF GitInv, WorkersHold, OneInTheCopy
<1> QED
  BY <1>1, GitInvHolds, PTL

\* A pull that has locked twice never returns, and with it no other call: the manager is
\* lost until the process is killed.
HangIsForGood ==
  [][\A p, q \in Callers :
       pc[p] = "relock" /\ ~Kill =>
         /\ pc'[p] = "relock"
         /\ pc'[q] # pc[q] => pc[q] = "idle" /\ pc'[q] = "lock"]_gitVars

\* The lock that Pull takes a second time, in ensureCloneLocked, is for ever.
THEOREM RelockHangs == GitSpec => HangIsForGood
<1>1. ASSUME GitInv, [GitNext]_gitVars, NEW p \in Callers, NEW q \in Callers,
             pc[p] = "relock", ~Kill
      PROVE  /\ pc'[p] = "relock"
             /\ pc'[q] # pc[q] => pc[q] = "idle" /\ pc'[q] = "lock"
  <2>1. /\ pc \in [Callers -> {"idle", "lock", "open", "clone", "relock"}] /\ mutex = p
        /\ p # None
        /\ \A c \in Callers : pc[c] \in Working => c = p
    BY <1>1, ManagerAssumption DEF GitInv, GitTypeOK, WorkersHold, Working
  <2>2. ASSUME NEW c \in Callers, NEW o \in Ops, Call(c, o)
        PROVE  \A r \in Callers : pc'[r] = pc[r] \/ (pc[r] = "idle" /\ pc'[r] = "lock")
    BY <2>1, <2>2 DEF Call, Goto
  <2>3. ASSUME NEW c \in Callers, Step(c)
        PROVE  FALSE
    <3>1. ~Lock(c)
      BY <2>1 DEF Lock
    <3>2. ~Open(c) /\ ~Clone(c) /\ ~CloneEnds(c) /\ ~CommitFails(c) /\ ~Relock(c)
      BY <1>1, <2>1 DEF Open, Clone, CloneEnds, CommitFails, Relock, Working
    <3> QED
      BY <2>3, <3>1, <3>2 DEF Step
  <2>4. Damage \/ UNCHANGED gitVars => pc' = pc
    BY DEF Damage, gitVars
  <2>5. \A r \in Callers : pc'[r] = pc[r] \/ (pc[r] = "idle" /\ pc'[r] = "lock")
    BY <1>1, <2>2, <2>3, <2>4 DEF GitNext
  <2> QED
    BY <1>1, <2>5
<1>2. GitInv /\ [GitNext]_gitVars =>
        [\A p, q \in Callers :
           pc[p] = "relock" /\ ~Kill =>
             /\ pc'[p] = "relock"
             /\ pc'[q] # pc[q] => pc[q] = "idle" /\ pc'[q] = "lock"]_gitVars
  BY <1>1
<1> QED
  BY <1>2, GitInvHolds, PTL DEF GitSpec, HangIsForGood
=============================================================================
