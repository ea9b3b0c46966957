------------------------ MODULE DeleteCommand_proofs ------------------------
(* Theorems about DeleteCommand, for any set of enrollments. *)
EXTENDS DeleteCommand, TLAPS

(* Every statement of a transaction keeps what the lock guarantees. *)
LEMMA LockInvStep ==
    ASSUME Backend = "mysql", LockInv, [Next]_vars
    PROVE  LockInv'
<1> USE DeleteAssumption DEF LockInv, TypeOK, DeletedAfterResponses, Then,
        Statements
<1>1. ASSUME NEW id \in Enrollments, NotNow(id)
      PROVE  LockInv'
  BY <1>1 DEF NotNow
<1>2. ASSUME NEW id \in Enrollments, Begin(id)
      PROVE  LockInv'
  <2>1. CASE command
    BY <1>2, <2>1 DEF Begin, LockCommand
  <2>2. CASE ~command
    BY <1>2, <2>2 DEF Begin, LockCommand
  <2> QED BY <2>1, <2>2
<1>3. ASSUME NEW id \in Enrollments, DeleteRows(id)
      PROVE  LockInv'
  BY <1>3 DEF DeleteRows
<1>4. ASSUME NEW id \in Enrollments, DeleteUnreferenced(id)
      PROVE  LockInv'
  <2>1. Unreferenced(id) <=> queued \subseteq {id}
    BY DEF Unreferenced
  <2> QED BY <1>4, <2>1 DEF DeleteUnreferenced
<1>5. ASSUME NEW id \in Enrollments, Commit(id)
      PROVE  LockInv'
  <2>1. CASE command
    <3>1. lock = id /\ \A e \in Enrollments \ {id} : tx[e] = "none"
      BY <1>5, <2>1 DEF Commit
    <3>2. id \in dropped <=> queued \subseteq {id}
      BY <1>5, <2>1 DEF Commit
    <3>3. dropped \subseteq {id}
      BY <3>1
    <3>4. lock' = None /\ dropped' = {} /\ \A e \in Enrollments : tx'[e] = "none"
      BY <1>5, <3>1, <3>3 DEF Commit, Unlocked
    <3>5. CASE id \in dropped
      BY <1>5, <3>4, <3>5 DEF Commit
    <3>6. CASE id \notin dropped
      BY <1>5, <2>1, <3>2, <3>4, <3>6 DEF Commit
    <3> QED BY <3>5, <3>6
  <2>2. CASE ~command
    BY <1>5, <2>2 DEF Commit, Unlocked
  <2> QED BY <2>1, <2>2
<1>6. ASSUME NEW id \in Enrollments, Rollback(id)
      PROVE  LockInv'
  BY <1>6 DEF Rollback, Unlocked
<1>7. CASE UNCHANGED vars
  BY <1>7 DEF vars
<1> QED BY <1>1, <1>2, <1>3, <1>4, <1>5, <1>6, <1>7 DEF Next

(* With the FOR UPDATE lock of the mysql backend one transaction at a time *)
(* is past its first statement, and what it then reads of the other        *)
(* enrollments' queue rows still holds when it commits.                    *)
THEOREM LockCorrect ==
    ASSUME Backend = "mysql"
    PROVE  Spec => []LockInv
<1>1. Init => LockInv
  BY DeleteAssumption DEF Init, LockInv, TypeOK, DeletedAfterResponses, Statements
<1>2. LockInv /\ [Next]_vars => LockInv'
  BY LockInvStep
<1> QED BY <1>1, <1>2, PTL DEF Spec

(* Under the lock the command is deleted exactly when the last enrollment  *)
(* has responded, however many answer at once, retry or fail.              *)
THEOREM DeletedCorrect ==
    ASSUME Backend = "mysql"
    PROVE  Spec => []DeletedAfterResponses
<1>1. LockInv => DeletedAfterResponses
  BY DEF LockInv
<1> QED BY <1>1, LockCorrect, PTL

(* What a transaction deletes the command on the strength of holds without *)
(* the lock too: it saw no row of another enrollment, and no row appears   *)
(* once the command is enqueued.                                           *)
DroppedInv ==
    /\ TypeOK
    /\ results \subseteq queued
    /\ \A id \in dropped : tx[id] = "commit" /\ queued \subseteq {id}

LEMMA DroppedInvStep ==
    ASSUME DroppedInv, [Next]_vars
    PROVE  DroppedInv' /\ \A id \in queued \ queued' : tx[id] = "commit"
<1> USE DeleteAssumption DEF DroppedInv, TypeOK, Then, Statements
<1>1. ASSUME NEW id \in Enrollments, NotNow(id)
      PROVE  DroppedInv' /\ UNCHANGED queued
  BY <1>1 DEF NotNow
<1>2. ASSUME NEW id \in Enrollments, Begin(id)
      PROVE  DroppedInv' /\ UNCHANGED queued
  <2>1. lock' \in Enrollments \cup {None}
    BY <1>2 DEF Begin, LockCommand
  <2> QED BY <1>2, <2>1 DEF Begin
<1>3. ASSUME NEW id \in Enrollments, DeleteRows(id)
      PROVE  DroppedInv' /\ UNCHANGED queued
  BY <1>3 DEF DeleteRows
<1>4. ASSUME NEW id \in Enrollments, DeleteUnreferenced(id)
      PROVE  DroppedInv' /\ UNCHANGED queued
  BY <1>4 DEF DeleteUnreferenced, Unreferenced
<1>5. ASSUME NEW id \in Enrollments, Commit(id)
      PROVE  DroppedInv' /\ queued \ queued' \subseteq {id}
  <2>1. CASE id \in dropped
    BY <1>5, <2>1 DEF Commit, Unlocked
  <2>2. CASE id \notin dropped
    BY <1>5, <2>2 DEF Commit, Unlocked
  <2> QED BY <2>1, <2>2
<1>6. ASSUME NEW id \in Enrollments, Rollback(id)
      PROVE  DroppedInv' /\ UNCHANGED queued
  BY <1>6 DEF Rollback, Unlocked
<1>7. CASE UNCHANGED vars
  BY <1>7 DEF vars
<1>8. ASSUME NEW id \in Enrollments, Commit(id)
      PROVE  tx[id] = "commit"
  BY <1>8 DEF Commit
<1> QED BY <1>1, <1>2, <1>3, <1>4, <1>5, <1>6, <1>7, <1>8 DEF Next

(* No answer of one enrollment takes another's queue row, on either        *)
(* backend: not even the cascade of a deleted command reaches a row that   *)
(* waits for its answer.                                                   *)
THEOREM NoneLost == Spec => NoCommandLost
<1>1. Init => DroppedInv
  BY DeleteAssumption DEF Init, DroppedInv, TypeOK, Statements
<1>2. DroppedInv /\ [Next]_vars => DroppedInv'
  BY DroppedInvStep
<1>3. DroppedInv /\ [Next]_vars
        => [\A id \in queued \ queued' : tx[id] = "commit"]_vars
  BY DroppedInvStep
<1> QED BY <1>1, <1>2, <1>3, PTL DEF Spec, NoCommandLost

=============================================================================
