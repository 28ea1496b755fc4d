-------------------------- MODULE OperationsProofs --------------------------
(***************************************************************************)
(* Proofs about the jobs that are run beside the service: the rotation of  *)
(* the session keys, the nightly backup, and the script that has a plan    *)
(* worked through.  They hold for any number of accounts, key versions,    *)
(* runs, days, cycles and interruptions.                                   *)
(***************************************************************************)
EXTENDS KeyRotation, BackupJob, PlanCycleRunner, RowIdsProofs,
        FiniteSetTheorems, SequenceTheorems

-----------------------------------------------------------------------------
(* Key rotation, as long as one job runs at a time.  With two jobs the copy *)
(* of the row that an operation works with may be stale, and the theorems   *)
(* are false.                                                               *)

\* Two jobs never run at the same time.
OneJob == \A i, j \in Jobs : i = j

\* What a job that is under way can rely on.
Holds(j) ==
  /\ pc[j] = "reset" => row.completed
  /\ pc[j] \in {"select", "write", "complete"} => state[j] = row
  /\ pc[j] \in {"mark", "write"} /\ InProgress =>
       \A a \in Pending(row.target) : account[j] <= a

\* The progress that is stored is the id of an account.
LastIsAccount == row # NoState => row.last \in DOMAIN version \cup {0}

\* The inductive invariant: besides NoAccountIsSkipped, the copy of the row is
\* current and the account a job has chosen is the first of those pending.
RotationInv ==
  /\ TypeOK
  /\ LastIsAccount
  /\ NoAccountIsSkipped
  /\ \A j \in Jobs : Holds(j)

-----------------------------------------------------------------------------
\* An account that is added is above all others, so it lies ahead of every job.
LEMMA AddAccountStep ==
  ASSUME RotationInv, AddAccount
  PROVE  RotationInv'
<1> DEFINE new == NextRowId(DOMAIN version)
<1>1. DOMAIN version \subseteq 1 .. MaxAccount /\ MaxAccount \in Nat
  BY RotationAssumption DEF RotationInv, TypeOK
<1>2. new \in 1 .. MaxAccount /\ \A a \in DOMAIN version : a < new
  BY <1>1, NextRowIdFacts DEF AddAccount
<1>3. version' = [a \in DOMAIN version \cup {new} |-> IF a = new THEN 1 ELSE version[a]]
  BY DEF AddAccount
<1>4. UNCHANGED <<row, pc, state, wanted, account, crashes>>
  BY DEF AddAccount
<1> HIDE DEF new
<1>5. TypeOK'
  BY <1>1, <1>2, <1>3, <1>4, RotationAssumption DEF RotationInv, TypeOK, Version
<1>6. Pending(row.target)' \subseteq Pending(row.target) \cup {new}
  BY <1>3, <1>4 DEF Pending
<1>7. LastIsAccount'
  BY <1>3, <1>4 DEF RotationInv, LastIsAccount
<1>8. NoAccountIsSkipped'
  <2> SUFFICES ASSUME InProgress, NEW a \in Pending(row.target)' PROVE a > row.last
    BY <1>4 DEF NoAccountIsSkipped, InProgress
  <2>1. CASE a \in Pending(row.target)
    BY <2>1 DEF RotationInv, NoAccountIsSkipped
  <2>2. CASE a = new
    BY <1>2, <2>2 DEF RotationInv, LastIsAccount, InProgress
  <2> QED
    BY <1>6, <2>1, <2>2
<1>9. ASSUME NEW j \in Jobs PROVE Holds(j)'
  <2>1. Holds(j)
    BY DEF RotationInv
  <2>2. ASSUME pc[j] \in {"mark", "write"}, InProgress, NEW a \in Pending(row.target)'
        PROVE  account[j] <= a
    <3>1. account[j] \in DOMAIN version
      BY <2>2 DEF RotationInv, TypeOK
    <3> QED
      BY <1>1, <1>2, <1>6, <2>1, <2>2, <3>1 DEF Holds
  <2> QED
    BY <1>4, <2>1, <2>2 DEF Holds, InProgress
<1> QED
  BY <1>5, <1>7, <1>8, <1>9 DEF RotationInv

\* next_pending_account_id() returns the first pending account.
LEMMA SelectStep ==
  ASSUME RotationInv, OneJob, NEW j \in Jobs, Select(j)
  PROVE  RotationInv'
<1> DEFINE found == {a \in Pending(state[j].target) : a > state[j].last}
<1>1. state[j] = row /\ row \in State
  BY DEF RotationInv, Holds, TypeOK, Select
<1>2. UNCHANGED <<version, row, wanted, crashes>>
  BY DEF Select
<1>3. found \subseteq DOMAIN version /\ found \subseteq Nat
  BY RotationAssumption DEF RotationInv, TypeOK, Pending
<1>4. state' = [state EXCEPT ![j] = NoState]
  BY DEF Select
<1>5. \/ /\ found # {}
         /\ account' = [account EXCEPT ![j] = Min(found)]
         /\ pc' = [pc EXCEPT ![j] = "mark"]
      \/ pc' = [pc EXCEPT ![j] = "finish"] /\ UNCHANGED account
  BY DEF Select, Goto
<1>6. found # {} => Min(found) \in found /\ \A a \in found : Min(found) <= a
  BY <1>3, MinFacts
<1>7. InProgress => found = Pending(row.target)
  BY <1>1 DEF RotationInv, NoAccountIsSkipped
<1> DEFINE first == Min(found)
<1> HIDE DEF found, first
<1>8. TypeOK'
  BY <1>1, <1>2, <1>3, <1>4, <1>5, <1>6, RotationAssumption DEF first, RotationInv, TypeOK, State
<1>9. NoAccountIsSkipped' /\ LastIsAccount'
  BY <1>2 DEF RotationInv, NoAccountIsSkipped, LastIsAccount, InProgress, Pending
<1>10. Holds(j)'
  <2>1. \A v : Pending(v)' = Pending(v)
    BY <1>2 DEF Pending
  <2> QED
    BY <1>2, <1>4, <1>5, <1>6, <1>7, <2>1 DEF first, Holds, InProgress, RotationInv, TypeOK
<1> QED
  BY <1>8, <1>9, <1>10, OneJob DEF RotationInv, OneJob

\* mark_account_rotated() leaves behind only accounts at the target version.
LEMMA WriteStep ==
  ASSUME RotationInv, OneJob, NEW j \in Jobs, Write(j)
  PROVE  RotationInv'
<1> DEFINE a    == account[j]
           last == Max({state[j].last, a})
<1>1. state[j] = row /\ row \in State /\ a \in DOMAIN version
  BY DEF RotationInv, Holds, TypeOK, Write
<1>2. /\ version' = [version EXCEPT ![a] = IF @ < row.target THEN row.target ELSE @]
      /\ row' = IF last # row.last THEN [row EXCEPT !.last = last] ELSE row
      /\ state' = [state EXCEPT ![j] = NoState]
      /\ account' = [account EXCEPT ![j] = 0]
      /\ pc' = [pc EXCEPT ![j] = "next"]
      /\ UNCHANGED <<wanted, crashes>>
  BY <1>1 DEF Write, Goto
<1>3. last \in {row.last, a} /\ last >= a /\ last >= row.last
  <2>1. {row.last, a} \subseteq 0 .. MaxAccount /\ {row.last, a} # {} /\ MaxAccount \in Nat
    BY <1>1, RotationAssumption DEF RotationInv, TypeOK, State
  <2>2. Max({row.last, a}) \in {row.last, a} /\ \A y \in {row.last, a} : Max({row.last, a}) >= y
    BY <2>1, MaxFacts
  <2> QED
    BY <1>1, <2>2
<1> HIDE DEF last
<1>4. DOMAIN version' = DOMAIN version /\ version' \in [DOMAIN version -> Version]
  BY <1>1, <1>2 DEF RotationInv, TypeOK, State
<1>5. row' \in State /\ row'.target = row.target /\ row'.completed = row.completed
      /\ row'.last = last
  BY <1>1, <1>2, <1>3 DEF RotationInv, TypeOK, State
<1>6. TypeOK'
  BY <1>2, <1>4, <1>5, RotationAssumption DEF RotationInv, TypeOK
<1>7. LastIsAccount'
  BY <1>1, <1>3, <1>4, <1>5, NoStateAssumption DEF RotationInv, LastIsAccount
<1>8. NoAccountIsSkipped'
  <2> SUFFICES ASSUME InProgress', NEW b \in Pending(row.target)' PROVE b > last
    BY <1>5 DEF NoAccountIsSkipped
  <2>1. InProgress
    BY <1>1, <1>5, NoStateAssumption DEF InProgress
  <2>2. b \in DOMAIN version /\ b # a /\ b \in Pending(row.target)
    BY <1>1, <1>2, <1>4, <1>5 DEF Pending, RotationInv, TypeOK, Version, State
  <2>3. a <= b /\ b > row.last
    BY <2>1, <2>2 DEF RotationInv, Holds, NoAccountIsSkipped, Write
  <2> QED
    BY <1>1, <1>3, <2>2, <2>3 DEF RotationInv, TypeOK
<1>9. Holds(j)'
  BY <1>2 DEF Holds, RotationInv, TypeOK
<1> QED
  BY <1>6, <1>7, <1>8, <1>9 DEF RotationInv, OneJob

\* The other operations of a job move neither an account nor the progress, except
\* to begin a rotation from zero.
LEMMA OneJobStep ==
  ASSUME RotationInv, OneJob, NEW j \in Jobs, Step(j) \/ Crash(j) \/ \E v \in Version : Begin(j, v)
  PROVE  RotationInv'
<1> USE RotationAssumption, NoStateAssumption
<1>1. ASSUME NEW v \in Version, Begin(j, v) PROVE RotationInv'
  BY <1>1 DEF Begin, Goto, RotationInv, OneJob, TypeOK, LastIsAccount, NoAccountIsSkipped,
              InProgress, Pending, Holds
<1>2. ASSUME NEW v \in Version, row' = Fresh(v), UNCHANGED version
      PROVE  row' \in State /\ LastIsAccount' /\ NoAccountIsSkipped'
  BY <1>2 DEF Fresh, State, LastIsAccount, NoAccountIsSkipped, Pending, RotationInv, TypeOK
<1>3. CASE Insert(j)
  <2>1. row' \in State /\ LastIsAccount' /\ NoAccountIsSkipped'
    <3>1. CASE row = NoState
      BY <1>2, <1>3, <3>1 DEF Insert, RotationInv, TypeOK
    <3>2. CASE row # NoState
      BY <1>3, <3>2 DEF Insert, RotationInv, TypeOK, LastIsAccount, NoAccountIsSkipped, InProgress,
                        Pending
    <3> QED
      BY <3>1, <3>2
  <2> QED
    BY <1>3, <2>1 DEF Insert, Goto, RotationInv, OneJob, TypeOK, Holds
<1>4. CASE Reset(j)
  <2>1. row' \in State /\ LastIsAccount' /\ NoAccountIsSkipped'
    BY <1>2, <1>4 DEF Reset, RotationInv, TypeOK
  <2> QED
    BY <1>4, <2>1 DEF Reset, Goto, RotationInv, OneJob, TypeOK, Holds
<1>5. CASE Read(j, "next", "select")
  BY <1>5 DEF Read, Goto, RotationInv, OneJob, TypeOK, LastIsAccount, NoAccountIsSkipped,
              InProgress, Pending, Holds
<1>6. CASE Read(j, "mark", "write")
  BY <1>6 DEF Read, Goto, RotationInv, OneJob, TypeOK, LastIsAccount, NoAccountIsSkipped,
              InProgress, Pending, Holds
<1>7. CASE ReadFinish(j)
  BY <1>7 DEF ReadFinish, Read, Goto, RotationInv, OneJob, TypeOK, LastIsAccount,
              NoAccountIsSkipped, InProgress, Pending, Holds
<1>8. CASE Complete(j)
  <2>1. row \in State /\ state[j] = row
    BY <1>8 DEF Complete, RotationInv, TypeOK, Holds
  <2>2. /\ row' \in State /\ row'.last = row.last /\ row'.target = row.target
        /\ row' = row \/ row'.completed
    BY <1>8, <2>1 DEF Complete, State
  <2>3. LastIsAccount' /\ NoAccountIsSkipped'
    BY <1>8, <2>1, <2>2 DEF Complete, RotationInv, LastIsAccount, NoAccountIsSkipped, InProgress,
                            Pending
  <2> QED
    BY <1>8, <2>2, <2>3 DEF Complete, Goto, RotationInv, OneJob, TypeOK, Holds
<1>9. CASE Crash(j)
  BY <1>9 DEF Crash, Goto, RotationInv, OneJob, TypeOK, LastIsAccount, NoAccountIsSkipped,
              InProgress, Pending, Holds
<1> QED
  BY <1>1, <1>3, <1>4, <1>5, <1>6, <1>7, <1>8, <1>9, SelectStep, WriteStep DEF Step

\* The steps of one job keep the invariant.
LEMMA RotationStep == OneJob /\ RotationInv /\ [Next]_vars => RotationInv'
<1> SUFFICES ASSUME OneJob, RotationInv, [Next]_vars PROVE RotationInv'
  OBVIOUS
<1>1. CASE UNCHANGED vars
  BY <1>1 DEF vars, RotationInv, TypeOK, LastIsAccount, NoAccountIsSkipped, InProgress, Pending,
              Holds
<1> QED
  BY <1>1, AddAccountStep, OneJobStep DEF Next

\* The invariant holds when one job runs at a time.
THEOREM RotationInvariance == OneJob => (Spec => []RotationInv)
<1> SUFFICES ASSUME OneJob PROVE Spec => []RotationInv
  OBVIOUS
<1>1. Init => RotationInv
  BY RotationAssumption
  DEF Init, RotationInv, TypeOK, Version, LastIsAccount, NoAccountIsSkipped, InProgress, Holds
<1>2. RotationInv /\ [Next]_vars => RotationInv'
  BY RotationStep
<1> QED
  BY <1>1, <1>2, PTL DEF Spec

-----------------------------------------------------------------------------
\* Wherever the one rotation job is interrupted and however accounts are added,
\* an account that is not rotated yet is one that next_pending_account_id() finds.
THEOREM NothingIsSkipped == OneJob => (Spec => []NoAccountIsSkipped)
<1> SUFFICES ASSUME OneJob PROVE Spec => []NoAccountIsSkipped
  OBVIOUS
<1>1. RotationInv => NoAccountIsSkipped
  BY DEF RotationInv
<1> QED
  BY <1>1, RotationInvariance, PTL

\* complete_if_finished() of the one job marks a rotation as complete only when
\* every account, those added last included, has the target version.
THEOREM CompletesWhenAllRotated == OneJob => (Spec => CompletionIsEarned)
<1> SUFFICES ASSUME OneJob PROVE Spec => CompletionIsEarned
  OBVIOUS
<1>1. RotationInv /\ [Next]_vars =>
        [InProgress /\ row'.completed => Pending(row.target)' = {}]_vars
  <2> SUFFICES ASSUME RotationInv, Next, InProgress, row'.completed
               PROVE  Pending(row.target)' = {}
    BY DEF vars
  <2>1. row \in State
    BY DEF RotationInv, TypeOK, InProgress
  <2>2. ~row.completed /\ row' # row
    BY DEF InProgress
  <2>3. ASSUME NEW j \in Jobs, Write(j) \/ Insert(j) \/ Reset(j) PROVE FALSE
    <3>1. CASE Write(j)
      BY <2>1, <2>2, <3>1 DEF Write, State
    <3>2. CASE Insert(j) \/ Reset(j)
      BY <2>2, <3>2 DEF Insert, Reset, Fresh
    <3> QED
      BY <2>3, <3>1, <3>2
  <2>4. PICK j \in Jobs : Complete(j)
    BY <2>2, <2>3 DEF Next, AddAccount, Step, Read, Select, ReadFinish, Crash, Begin
  <2> QED
    BY <2>1, <2>2, <2>4 DEF Complete, RotationInv, Holds, Pending, State
<1> QED
  BY <1>1, RotationInvariance, PTL DEF Spec, CompletionIsEarned

-----------------------------------------------------------------------------
(* The nightly backup *)

\* What the retention keeps of the days B that have a backup: the days with
\* fewer than n newer ones (_cleanup_old_backups).
Kept(B, n) == {d \in B : Cardinality({e \in B : e > d}) < n}

\* The newest n days are kept: no more than n are, the newest is among them, and
\* a day that is not kept has n newer ones that are.
LEMMA KeptFacts ==
  ASSUME NEW m \in Nat, NEW B, B \subseteq 1 .. m, NEW n \in Nat \ {0}
  PROVE  /\ Cardinality(Kept(B, n)) <= n
         /\ \A d \in B : {e \in B : e > d} = {} => d \in Kept(B, n)
         /\ \A d \in B \ Kept(B, n) : Cardinality({e \in Kept(B, n) : e > d}) >= n
<1> DEFINE Above(d) == {e \in B : e > d}
           K == Kept(B, n)
<1>1. ASSUME NEW T, T \subseteq B
      PROVE  IsFiniteSet(T) /\ Cardinality(T) \in Nat
  <2>1. IsFiniteSet(1 .. m)
    BY FS_Interval
  <2>2. T \in SUBSET (1 .. m)
    BY <1>1
  <2>3. IsFiniteSet(T)
    BY <2>1, <2>2, FS_Subset
  <2> QED
    BY <2>3, FS_CardinalityType
<1>2. ASSUME NEW T, T \subseteq B, NEW U, U \subseteq T
      PROVE  Cardinality(U) <= Cardinality(T)
  BY <1>1, <1>2, FS_Subset
<1>3. K \subseteq B /\ \A d \in B : d \in K <=> Cardinality(Above(d)) < n
  BY DEF Kept
<1> HIDE DEF K
<1>4. Cardinality(K) <= n
  <2>1. CASE K = {}
    BY <2>1, FS_EmptySet
  <2>2. CASE K # {}
    <3>0. K \subseteq Nat
      BY <1>3
    <3>1. PICK x \in K : \A y \in K : x <= y
      BY <2>2, <3>0, LeastNat
    <3>2. K \subseteq Above(x) \cup {x}
      BY <1>3, <3>1
    <3>3. Above(x) \cup {x} \subseteq B /\ Above(x) \subseteq B
      BY <1>3, <3>1
    <3>4. Cardinality(Above(x)) < n /\ Cardinality(Above(x)) \in Nat
      BY <1>1, <1>3, <3>1, <3>3
    <3>5. Cardinality(Above(x) \cup {x}) <= Cardinality(Above(x)) + 1
      <4>1. IsFiniteSet(Above(x))
        BY <1>1, <3>3
      <4> QED
        BY <3>4, <4>1, FS_AddElement
    <3>6. Cardinality(K) <= Cardinality(Above(x) \cup {x})
      BY <1>2, <3>2, <3>3
    <3>7. Cardinality(K) \in Nat /\ Cardinality(Above(x) \cup {x}) \in Nat
      BY <1>1, <1>3, <3>3
    <3> QED
      BY <3>4, <3>5, <3>6, <3>7
  <2> QED
    BY <2>1, <2>2
<1>5. \A d \in B : Above(d) = {} => d \in K
  BY <1>3, FS_EmptySet
<1>6. ASSUME NEW d \in B, d \notin K
      PROVE  Cardinality({e \in K : e > d}) >= n
  <2> DEFINE N == {e \in K : e > d}
  <2>1. N \subseteq Above(d) /\ N \subseteq B /\ Above(d) \subseteq B
    BY <1>3
  <2>2. Cardinality(Above(d)) >= n /\ Cardinality(Above(d)) \in Nat
    BY <1>1, <1>3, <1>6, <2>1
  <2>3. CASE Above(d) \subseteq N
    <3>1. N = Above(d)
      BY <2>1, <2>3
    <3> QED
      BY <2>2, <3>1
  <2>4. CASE ~(Above(d) \subseteq N)
    <3> DEFINE L == Above(d) \ N
    <3>0. 1 .. m \subseteq 0 .. m
      OBVIOUS
    <3>1. L # {} /\ L \subseteq 0 .. m /\ L \subseteq B
      BY <2>4, <3>0
    <3>2. Max(L) \in L /\ \A y \in L : Max(L) >= y
      BY <3>1, MaxFacts
    <3>3. PICK x \in L : \A y \in L : x >= y
      BY <3>2
    <3>4. x \in B /\ x > d /\ x \notin K
      BY <3>3
    <3>5. Above(x) \subseteq N
      <4> SUFFICES ASSUME NEW y \in B, y > x PROVE y \in N
        OBVIOUS
      <4>1. y > d /\ ~(x >= y)
        BY <3>4
      <4> QED
        BY <3>3, <4>1
    <3>6. Cardinality(Above(x)) >= n /\ Cardinality(Above(x)) \in Nat
      BY <1>1, <1>3, <3>4
    <3>7. Cardinality(Above(x)) <= Cardinality(N) /\ Cardinality(N) \in Nat
      BY <1>1, <1>2, <2>1, <3>5
    <3> QED
      BY <3>6, <3>7
  <2> QED
    BY <2>3, <2>4
<1> QED
  BY <1>4, <1>5, <1>6 DEF K

\* The days that have a backup.
Saved == {d \in Days : backup[d] # NoFile}

\* A run is under way while its coroutine is, and while its thread works.
Active(r) == Working(r) \/ UnderWay(r)

\* What the removal of a run leaves, and what its list is worth until it is done:
\* the day's own backup is not on it, all that is left is newer, and as much is
\* left as the run has read from the setting.
Spared(r) == Saved \ stale[r]

Listed(r) ==
  /\ stale[r] \subseteq Saved /\ day[r] \notin stale[r]
  /\ \A d \in stale[r], e \in Spared(r) : e > d
  /\ Cardinality(Spared(r)) <= keep[r]
  /\ stale[r] # {} => Cardinality(Spared(r)) >= keep[r]

\* What a run that is under way can rely on when no other one is: the temporary
\* file is its own, what is in it is whole once it is copied, no backup is of a
\* later day than its own, and nobody else removes any.
Relies(r) ==
  /\ run[r] = "new" \/ UnderWay(r) => notices[r] = 0
  /\ run[r] = "copying" => thread[r] \notin {"list", "remove", "cleaned"}
  /\ run[r] = "reading" => thread[r] = "done"
  /\ run[r] = "cleaning" => thread[r] \in {"list", "remove", "cleaned", "error"}
  /\ Active(r) => /\ day[r] \in Days /\ day[r] <= today
                  /\ \A d \in Days : backup[d] # NoFile => d <= day[r]
                  /\ thread[r] \in {"done", "list", "remove", "cleaned"} =>
                       backup[day[r]] # NoFile
                  /\ thread[r] = "remove" => Listed(r)
                  /\ thread[r] = "cleaned" => Cardinality(Saved) <= keep[r]
  /\ thread[r] = "copy" => fd[r] # NoFile /\ fd[r] = tmp[day[r]]
  /\ thread[r] \in {"check", "replace"} =>
       tmp[day[r]] # NoFile /\ content[tmp[day[r]]] = "full"

\* The inductive invariant of the backup without overlapping runs.
BackupInv ==
  /\ BackupTypeOK
  /\ BackupsAreWhole
  /\ \A d \in Days : backup[d] # NoFile => d <= today
  /\ \A q, r \in Runs : Active(q) /\ Active(r) => q = r
  /\ \A r \in Runs : Relies(r)

\* A file that is created or written leaves the other files alone.
LEMMA FileFacts ==
  ASSUME content \in Seq({"empty", "full"})
  PROVE  /\ Len(content) \in Nat
         /\ \A i \in 1 .. Len(content) : content[i] \in {"empty", "full"}
         /\ LET c == Append(content, "empty")
            IN  /\ c \in Seq({"empty", "full"}) /\ Len(c) = Len(content) + 1
                /\ \A i \in 1 .. Len(content) : c[i] = content[i]
         /\ \A f \in 1 .. Len(content) :
              LET c == [content EXCEPT ![f] = "full"]
              IN  /\ c \in Seq({"empty", "full"}) /\ Len(c) = Len(content)
                  /\ c[f] = "full"
                  /\ \A i \in 1 .. Len(content) : content[i] = "full" => c[i] = "full"
<1>1. /\ Len(content) \in Nat
      /\ \A i \in 1 .. Len(content) : content[i] \in {"empty", "full"}
  BY LenProperties, ElementOfSeq
<1>2. /\ Append(content, "empty") \in Seq({"empty", "full"})
      /\ Len(Append(content, "empty")) = Len(content) + 1
      /\ \A i \in 1 .. Len(content) : Append(content, "empty")[i] = content[i]
  BY AppendProperties
<1>3. ASSUME NEW f \in 1 .. Len(content)
      PROVE  /\ [content EXCEPT ![f] = "full"] \in Seq({"empty", "full"})
             /\ Len([content EXCEPT ![f] = "full"]) = Len(content)
             /\ [content EXCEPT ![f] = "full"][f] = "full"
             /\ \A i \in 1 .. Len(content) :
                  content[i] = "full" => [content EXCEPT ![f] = "full"][i] = "full"
  <2>1. /\ [content EXCEPT ![f] = "full"] \in Seq({"empty", "full"})
        /\ Len([content EXCEPT ![f] = "full"]) = Len(content)
    BY ExceptSeq
  <2>2. DOMAIN content = 1 .. Len(content)
    BY LenProperties
  <2> QED
    BY <2>1, <2>2
<1> QED
  BY <1>1, <1>2, <1>3

\* A run that is not under way relies on nothing but its count of notifications.
LEMMA IdleRun ==
  ASSUME NEW q \in Runs, ~Active(q)', run'[q] = "new" => notices'[q] = 0
  PROVE  Relies(q)'
  BY DEF Relies, Active, Working, UnderWay

\* A step of the only run under way, or of the first to get under way, leaves the
\* others idle.
LEMMA StepOfOne ==
  ASSUME BackupInv, NEW r \in Runs,
         Active(r) \/ \A q \in Runs : ~Active(q),
         \A q \in Runs \ {r} :
           run'[q] = run[q] /\ thread'[q] = thread[q] /\ notices'[q] = notices[q],
         Relies(r)'
  PROVE  /\ \A q \in Runs : Relies(q)'
         /\ \A p, q \in Runs : Active(p)' /\ Active(q)' => p = q
<1>1. ASSUME NEW q \in Runs, q # r PROVE ~Active(q) /\ ~Active(q)'
  <2>1. ~Active(q)
    BY <1>1 DEF BackupInv
  <2> QED
    BY <1>1, <2>1 DEF Active, Working, UnderWay
<1>2. ASSUME NEW q \in Runs, q # r PROVE Relies(q)'
  <2>1. run'[q] = "new" => notices'[q] = 0
    <3>1. Relies(q)
      BY DEF BackupInv
    <3>2. run[q] = "new" => notices[q] = 0
      BY ONLY <3>1 DEF Relies
    <3> QED
      BY <1>2, <3>2
  <2> QED
    BY <1>1, <1>2, <2>1, IdleRun
<1> QED
  BY <1>1, <1>2

\* The thread of the run under way copies to a file of its own, and renames it only
\* when the copy is whole.
LEMMA ThreadStep ==
  ASSUME BackupInv, NEW r \in Runs, Thread(r)
  PROVE  BackupInv'
<1> DEFINE d   == day[r]
           n   == Len(content)
           Ino == 1 .. Len(content) \cup {NoFile}
<1>1. Working(r) /\ thread[r] \notin {"list", "remove"}
  BY DEF Thread, Unlink, OpenTmp, Copy, Check, Replace, Raise, Undo, RaiseEarly, ThreadAt,
         Working
<1>2. Active(r) /\ Relies(r)
  BY <1>1 DEF Active, BackupInv
<1>3. d \in Days /\ d <= today /\ \A e \in Days : backup[e] # NoFile => e <= d
  BY <1>2 DEF Relies
<1>4. PICK to \in {"open", "copy", "check", "replace", "undo", "done", "error"} :
        thread' = [thread EXCEPT ![r] = to]
  BY DEF Thread, Unlink, OpenTmp, Copy, Check, Replace, Raise, Undo, RaiseEarly, ThreadAt
<1>5. UNCHANGED <<run, day, keep, stale, notices, today, retain, deaths>>
  BY DEF Thread, Unlink, OpenTmp, Copy, Check, Replace, Raise, Undo, RaiseEarly, ThreadAt, env
<1>6. /\ thread' \in [Runs -> {"none", "unlink", "open", "copy", "check", "replace", "undo",
                               "done", "list", "remove", "cleaned", "error"}]
      /\ thread'[r] = to
      /\ \A q \in Runs \ {r} : thread'[q] = thread[q]
  BY <1>4 DEF BackupInv, BackupTypeOK
<1>7. content \in Seq({"empty", "full"}) /\ n \in Nat /\ NoFile \notin Nat
  BY FileFacts, BackupAssumption DEF BackupInv, BackupTypeOK
<1>8. tmp \in [Days -> Ino] /\ backup \in [Days -> Ino] /\ fd \in [Runs -> Ino]
  BY DEF BackupInv, BackupTypeOK
<1>9. ASSUME content' \in Seq({"empty", "full"}),
             tmp' \in [Days -> Ino'], backup' \in [Days -> Ino'], fd' \in [Runs -> Ino'],
             \A e \in Days : tmp'[e] # NoFile => tmp'[e] # backup'[e],
             BackupsAreWhole',
             \A e \in Days : backup'[e] # NoFile => e <= d,
             to = "copy" => fd'[r] # NoFile /\ fd'[r] = tmp'[d],
             to \in {"check", "replace"} => tmp'[d] # NoFile /\ content'[tmp'[d]] = "full",
             to = "done" => backup'[d] # NoFile
      PROVE  BackupInv'
  <2>1. BackupTypeOK'
    BY <1>5, <1>6, <1>9 DEF BackupInv, BackupTypeOK
  <2>2. \A e \in Days : backup'[e] # NoFile => e <= today'
    <3>1. today' = today /\ today \in Nat /\ Days \subseteq Nat /\ d \in Nat
      BY <1>3, <1>5 DEF BackupInv, BackupTypeOK, Days
    <3>2. d <= today /\ \A e \in Days : backup'[e] # NoFile => e <= d
      BY <1>3, <1>9
    <3> QED
      BY ONLY <3>1, <3>2
  <2>3. Relies(r)'
    <3>1. run[r] # "cleaning" /\ run[r] # "reading"
      BY <1>1, <1>2 DEF Relies, Working
    <3>2. day'[r] = d /\ run'[r] = run[r] /\ notices'[r] = notices[r] /\ today' = today
      BY <1>5
    <3>3. (run[r] = "new" \/ UnderWay(r) => notices[r] = 0) /\ (UnderWay(r)' <=> UnderWay(r))
      BY <1>2, <3>2 DEF Relies, UnderWay
    <3> QED
      BY <1>3, <1>6, <1>9, <3>1, <3>2, <3>3 DEF Relies
  <2>4. /\ \A q \in Runs : Relies(q)'
        /\ \A p, q \in Runs : Active(p)' /\ Active(q)' => p = q
    BY <1>2, <1>5, <1>6, <2>3, StepOfOne
  <2> QED
    BY <1>9, <2>1, <2>2, <2>4 DEF BackupInv
<1>10. \A e \in Days : tmp[e] # NoFile => tmp[e] # backup[e]
  BY DEF BackupInv, BackupTypeOK
<1>11. BackupsAreWhole
  BY DEF BackupInv
<1>12. CASE Unlink(r) \/ Undo(r)
  <2>1. /\ tmp' = [tmp EXCEPT ![d] = NoFile] /\ UNCHANGED <<content, backup, fd>>
        /\ thread' = [thread EXCEPT ![r] = "open"] \/ thread' = [thread EXCEPT ![r] = "error"]
    BY <1>12 DEF Unlink, Undo, ThreadAt
  <2>2. to \in {"open", "error"}
    BY <1>6, <2>1 DEF BackupInv, BackupTypeOK
  <2>3. tmp' \in [Days -> Ino'] /\ \A e \in Days : tmp'[e] # NoFile => tmp'[e] # backup'[e]
    BY <1>3, <1>8, <1>10, <2>1
  <2>4. BackupsAreWhole'
    BY <1>11, <2>1 DEF BackupsAreWhole
  <2> QED
    BY <1>3, <1>7, <1>8, <1>9, <2>1, <2>2, <2>3, <2>4
<1>13. CASE OpenTmp(r)
  <2>1. to = "copy"
    BY <1>6, <1>13 DEF OpenTmp, ThreadAt, BackupInv, BackupTypeOK
  <2>2. CASE tmp[d] = NoFile
    <3>1. /\ content' = Append(content, "empty") /\ tmp' = [tmp EXCEPT ![d] = n + 1]
          /\ fd' = [fd EXCEPT ![r] = n + 1] /\ backup' = backup
      BY <1>13, <2>2 DEF OpenTmp, Connect, Opened
    <3>2. /\ content' \in Seq({"empty", "full"}) /\ Len(content') = n + 1
          /\ \A i \in 1 .. n : content'[i] = content[i]
      BY <1>7, <3>1, FileFacts
    <3> HIDE DEF n
    <3>3. /\ tmp \in [Days -> 1 .. n \cup {NoFile}] /\ backup \in [Days -> 1 .. n \cup {NoFile}]
          /\ fd \in [Runs -> 1 .. n \cup {NoFile}]
      BY <1>8 DEF n
    <3>4. /\ tmp' \in [Days -> 1 .. n + 1 \cup {NoFile}]
          /\ backup' \in [Days -> 1 .. n + 1 \cup {NoFile}]
          /\ fd' \in [Runs -> 1 .. n + 1 \cup {NoFile}]
          /\ tmp'[d] = n + 1 /\ fd'[r] = n + 1 /\ n + 1 # NoFile
      BY <1>3, <1>7, <3>1, <3>3
    <3>5. \A e \in Days : tmp'[e] # NoFile => tmp'[e] # backup'[e]
      BY <1>3, <1>7, <1>10, <3>1, <3>3
    <3>6. BackupsAreWhole'
      BY <1>11, <3>1, <3>2, <3>3 DEF BackupsAreWhole
    <3>7. tmp' \in [Days -> Ino'] /\ backup' \in [Days -> Ino'] /\ fd' \in [Runs -> Ino']
      BY <3>2, <3>4
    <3> QED
      BY <1>3, <1>9, <2>1, <3>1, <3>2, <3>4, <3>5, <3>6, <3>7
  <2>3. CASE tmp[d] # NoFile
    <3>1. UNCHANGED <<content, tmp, backup>> /\ fd' = [fd EXCEPT ![r] = tmp[d]]
      BY <1>3, <1>8, <1>13, <2>3 DEF OpenTmp, Connect, Opened
    <3>2. fd' \in [Runs -> Ino'] /\ fd'[r] = tmp[d]
      BY <1>3, <1>8, <3>1
    <3>3. BackupsAreWhole'
      BY <1>11, <3>1 DEF BackupsAreWhole
    <3> QED
      BY <1>3, <1>7, <1>8, <1>9, <1>10, <2>1, <2>3, <3>1, <3>2, <3>3
  <2> QED
    BY <2>2, <2>3
<1>14. CASE Copy(r)
  <2>1. to = "check" /\ thread[r] = "copy"
    BY <1>6, <1>14 DEF Copy, ThreadAt, BackupInv, BackupTypeOK
  <2>2. fd[r] \in 1 .. n /\ fd[r] = tmp[d]
    BY <1>2, <1>8, <2>1 DEF Relies
  <2>3. content' = [content EXCEPT ![fd[r]] = "full"] /\ UNCHANGED <<tmp, backup, fd>>
    BY <1>14 DEF Copy
  <2>4. /\ content' \in Seq({"empty", "full"}) /\ Len(content') = n
        /\ content'[fd[r]] = "full"
        /\ \A i \in 1 .. n : content[i] = "full" => content'[i] = "full"
    BY <1>7, <2>2, <2>3, FileFacts
  <2>5. BackupsAreWhole'
    BY <1>8, <1>11, <2>3, <2>4 DEF BackupsAreWhole
  <2>6. tmp' \in [Days -> Ino'] /\ backup' \in [Days -> Ino'] /\ fd' \in [Runs -> Ino']
    BY <1>8, <2>3, <2>4
  <2>7. tmp'[d] # NoFile /\ content'[tmp'[d]] = "full"
    BY <1>7, <2>2, <2>3, <2>4
  <2> QED
    BY <1>3, <1>9, <1>10, <2>1, <2>3, <2>4, <2>5, <2>6, <2>7
<1>15. CASE Check(r)
  <2>1. to = "replace" /\ thread[r] = "check"
    BY <1>6, <1>15 DEF Check, ThreadAt, BackupInv, BackupTypeOK
  <2>2. tmp[d] # NoFile /\ content[tmp[d]] = "full"
    BY <1>2, <2>1 DEF Relies
  <2>3. UNCHANGED <<content, tmp, backup, fd>>
    BY <1>3, <1>8, <1>15, <2>2 DEF Check, Connect, Opened
  <2>4. BackupsAreWhole'
    BY <1>11, <2>3 DEF BackupsAreWhole
  <2> QED
    BY <1>3, <1>7, <1>8, <1>9, <1>10, <2>1, <2>2, <2>3, <2>4
<1>16. CASE Replace(r)
  <2>1. to = "done" /\ thread[r] = "replace"
    BY <1>6, <1>16 DEF Replace, ThreadAt, BackupInv, BackupTypeOK
  <2>2. tmp[d] # NoFile /\ content[tmp[d]] = "full"
    BY <1>2, <2>1 DEF Relies
  <2>3. /\ backup' = [backup EXCEPT ![d] = tmp[d]] /\ tmp' = [tmp EXCEPT ![d] = NoFile]
        /\ UNCHANGED <<content, fd>>
    BY <1>16 DEF Replace
  <2>4. /\ tmp' \in [Days -> Ino'] /\ backup' \in [Days -> Ino'] /\ backup'[d] = tmp[d]
        /\ \A e \in Days \ {d} : backup'[e] = backup[e] /\ tmp'[e] = tmp[e]
        /\ tmp'[d] = NoFile
    BY <1>3, <1>8, <2>3
  <2>5. BackupsAreWhole'
    BY <1>11, <2>2, <2>3, <2>4 DEF BackupsAreWhole
  <2>6. \A e \in Days : backup'[e] # NoFile => e <= d
    BY <1>3, <2>4 DEF Days
  <2>7. \A e \in Days : tmp'[e] # NoFile => tmp'[e] # backup'[e]
    BY <1>10, <2>4
  <2> QED
    BY <1>7, <1>8, <1>9, <2>1, <2>2, <2>3, <2>4, <2>5, <2>6, <2>7
<1>17. CASE Raise(r) \/ RaiseEarly(r)
  <2>1. /\ UNCHANGED <<content, tmp, backup, fd>>
        /\ thread' = [thread EXCEPT ![r] = "undo"] \/ thread' = [thread EXCEPT ![r] = "error"]
    BY <1>17 DEF Raise, RaiseEarly, ThreadAt, files
  <2>2. to \in {"undo", "error"}
    BY <1>6, <2>1 DEF BackupInv, BackupTypeOK
  <2>3. BackupsAreWhole'
    BY <1>11, <2>1 DEF BackupsAreWhole
  <2> QED
    BY <1>3, <1>7, <1>8, <1>9, <1>10, <2>1, <2>2, <2>3
<1> QED
  BY <1>12, <1>13, <1>14, <1>15, <1>16, <1>17 DEF Thread

\* The days _cleanup_old_backups() passes over are those the retention keeps.
LEMMA NewestIsKept ==
  ASSUME NEW n \in Nat \ {0}
  PROVE  /\ Newest(n) \subseteq Saved
         /\ Cardinality(Newest(n)) <= n
         /\ \A d \in Saved : (\A e \in Saved : e <= d) => d \in Newest(n)
         /\ \A d \in Saved \ Newest(n), e \in Newest(n) : e > d
         /\ Saved \ Newest(n) # {} => Cardinality(Newest(n)) >= n
<1>1. MaxDay \in Nat /\ Saved \subseteq 1 .. MaxDay /\ Saved \subseteq Nat
  BY BackupAssumption DEF Saved, Days
<1>2. \A d \in Days : {e \in Days : e > d /\ backup[e] # NoFile} = {e \in Saved : e > d}
  BY DEF Saved
<1>3. Newest(n) = Kept(Saved, n)
  BY <1>2 DEF Newest, Kept, Saved
<1>4. ASSUME NEW d \in Saved, \A e \in Saved : e <= d PROVE {e \in Saved : e > d} = {}
  <2>1. \A e \in Saved : ~(e > d)
    <3> SUFFICES ASSUME NEW e \in Saved PROVE ~(e > d)
      OBVIOUS
    <3>1. e \in Nat /\ d \in Nat /\ e <= d
      BY <1>1, <1>4
    <3> QED
      BY <3>1
  <2> QED
    BY <2>1
<1> HIDE DEF Saved
<1>5. /\ Cardinality(Kept(Saved, n)) <= n
      /\ \A d \in Saved : {e \in Saved : e > d} = {} => d \in Kept(Saved, n)
      /\ \A d \in Saved \ Kept(Saved, n) : Cardinality({e \in Kept(Saved, n) : e > d}) >= n
  BY <1>1, KeptFacts
<1>6. Kept(Saved, n) \subseteq Saved
  BY DEF Kept
<1>7. ASSUME NEW T, T \subseteq Saved, NEW U, U \subseteq T
      PROVE  /\ Cardinality(U) <= Cardinality(T)
             /\ Cardinality(U) \in Nat /\ Cardinality(T) \in Nat
  <2>1. IsFiniteSet(1 .. MaxDay) /\ T \in SUBSET (1 .. MaxDay)
    BY <1>1, <1>7, FS_Interval
  <2>2. IsFiniteSet(T)
    BY <2>1, FS_Subset
  <2>3. IsFiniteSet(U) /\ Cardinality(U) <= Cardinality(T)
    BY <1>7, <2>2, FS_Subset
  <2> QED
    BY <2>2, <2>3, FS_CardinalityType
<1>8. ASSUME NEW d \in Saved \ Kept(Saved, n), NEW e \in Kept(Saved, n) PROVE e > d
  <2> DEFINE A(x) == {y \in Saved : y > x}
  <2>1. d \in Nat /\ e \in Nat /\ e \in Saved
    BY <1>1, <1>6
  <2>2. Cardinality(A(e)) < n /\ ~(Cardinality(A(d)) < n)
    BY DEF Kept
  <2>3. SUFFICES ASSUME e <= d PROVE FALSE
    BY <2>1
  <2>4. A(d) \subseteq A(e)
    <3> SUFFICES ASSUME NEW y \in Saved, y > d PROVE y > e
      OBVIOUS
    <3>1. y \in Nat
      BY <1>1
    <3> QED
      BY <2>1, <2>3, <3>1
  <2> HIDE DEF A
  <2>5. /\ Cardinality(A(d)) <= Cardinality(A(e))
        /\ Cardinality(A(d)) \in Nat /\ Cardinality(A(e)) \in Nat
    <3>1. A(e) \subseteq Saved
      BY DEF A
    <3> QED
      BY <1>7, <2>4, <3>1
  <2> QED
    BY <2>2, <2>5
<1>9. ASSUME NEW d \in Saved \ Kept(Saved, n) PROVE Cardinality(Kept(Saved, n)) >= n
  <2> DEFINE U == {e \in Kept(Saved, n) : e > d}
  <2>1. Cardinality(U) >= n
    BY <1>5
  <2>2. U \subseteq Kept(Saved, n)
    OBVIOUS
  <2> HIDE DEF U
  <2>3. /\ Cardinality(U) <= Cardinality(Kept(Saved, n))
        /\ Cardinality(U) \in Nat /\ Cardinality(Kept(Saved, n)) \in Nat
    BY <1>6, <1>7, <2>2
  <2> QED
    BY <2>1, <2>3
<1> QED
  BY <1>3, <1>4, <1>5, <1>6, <1>8, <1>9

\* A count that is at least another one bounded below is bounded below itself.
LEMMA AtLeast ==
  \A a, b, c \in Nat : a <= b /\ a >= c => b >= c
  OBVIOUS

\* A run has read a positive count or goes by the default.
LEMMA KeepIsCount ==
  ASSUME BackupInv, NEW r \in Runs
  PROVE  keep[r] \in Nat \ {0}
<1>1. keep \in [Runs -> Retains \cup {DefaultRetain}]
  BY DEF BackupInv, BackupTypeOK
<1>2. keep[r] \in Retains \/ keep[r] = DefaultRetain
  BY <1>1
<1>3. Retains \subseteq Nat \ {0}
  BY BackupAssumption
<1>4. DefaultRetain \in Nat \ {0}
  BY DEF DefaultRetain
<1>5. CASE keep[r] \in Retains
  BY ONLY <1>3, <1>5
<1>6. CASE keep[r] = DefaultRetain
  BY ONLY <1>4, <1>6
<1> QED
  BY <1>2, <1>5, <1>6

\* The list of the run under way names what is older than the newest ones, and
\* each removal takes the newest of the list away.
LEMMA CleanStep ==
  ASSUME BackupInv, NEW r \in Runs, CleanThread(r)
  PROVE  BackupInv'
<1> DEFINE d == day[r]
<1>1. /\ thread[r] \in {"list", "remove"}
      /\ UNCHANGED <<content, tmp, run, day, fd, keep, notices, today, retain, deaths>>
  BY DEF CleanThread, ListOld, RemoveOld, RemovedOld, CleanupRaises, CleanAt, env
<1>2. Active(r) /\ Relies(r)
  BY <1>1 DEF Active, Working, BackupInv
<1>3. /\ d \in Days /\ d <= today /\ \A e \in Days : backup[e] # NoFile => e <= d
      /\ backup[d] # NoFile /\ (thread[r] = "remove" => Listed(r))
      /\ run[r] = "copying" => FALSE
      /\ run[r] = "reading" => FALSE
      /\ run[r] = "new" \/ UnderWay(r) => notices[r] = 0
  BY <1>1, <1>2 DEF Relies
<1>4. PICK to \in {"remove", "cleaned", "error"} : thread' = [thread EXCEPT ![r] = to]
  BY DEF CleanThread, ListOld, RemoveOld, RemovedOld, CleanupRaises, CleanAt
<1>5. /\ thread' \in [Runs -> {"none", "unlink", "open", "copy", "check", "replace", "undo",
                               "done", "list", "remove", "cleaned", "error"}]
      /\ thread'[r] = to
      /\ \A q \in Runs \ {r} : thread'[q] = thread[q]
  BY <1>4 DEF BackupInv, BackupTypeOK
<1>6. backup \in [Days -> 1 .. Len(content) \cup {NoFile}] /\ stale \in [Runs -> SUBSET Days]
  BY DEF BackupInv, BackupTypeOK
<1>7. keep[r] \in Nat \ {0}
  BY KeepIsCount
<1>8. ASSUME backup' \in [Days -> 1 .. Len(content) \cup {NoFile}],
             stale' \in [Runs -> SUBSET Days],
             \A e \in Days : backup'[e] \in {backup[e], NoFile},
             to \in {"remove", "cleaned"} => backup'[d] # NoFile,
             to = "remove" => Listed(r)',
             to = "cleaned" => Cardinality(Saved') <= keep[r]
      PROVE  BackupInv'
  <2>1. \A e \in Days : tmp[e] # NoFile => tmp[e] # backup'[e]
    BY <1>8 DEF BackupInv, BackupTypeOK
  <2>2. \A q \in Runs : run'[q] = "copying" => thread'[q] # "none"
    BY <1>1, <1>4, <1>5 DEF BackupInv, BackupTypeOK
  <2>3. BackupTypeOK'
    BY <1>1, <1>5, <1>8, <2>1, <2>2 DEF BackupInv, BackupTypeOK
  <2>4. BackupsAreWhole' /\ \A e \in Days : backup'[e] # NoFile => e <= today'
    BY <1>1, <1>8 DEF BackupInv, BackupsAreWhole
  <2>5. Relies(r)'
    <3>1. /\ day'[r] = d /\ run'[r] = run[r] /\ notices'[r] = notices[r] /\ today' = today
          /\ keep'[r] = keep[r]
      BY <1>1
    <3>2. UnderWay(r)' <=> UnderWay(r)
      BY <3>1 DEF UnderWay
    <3>3. \A e \in Days : backup'[e] # NoFile => e <= d
      BY <1>3, <1>8
    <3> QED
      BY <1>3, <1>5, <1>8, <3>1, <3>2, <3>3 DEF Relies
  <2>6. /\ \A q \in Runs : Relies(q)'
        /\ \A p, q \in Runs : Active(p)' /\ Active(q)' => p = q
    BY <1>1, <1>2, <1>5, <2>5, StepOfOne
  <2> QED
    BY <2>3, <2>4, <2>6 DEF BackupInv
<1>9. CASE ListOld(r)
  <2>1. to = "remove" /\ backup' = backup
    BY <1>5, <1>9 DEF ListOld, CleanAt, BackupInv, BackupTypeOK
  <2>2. stale' = [stale EXCEPT ![r] = Saved \ Newest(keep[r])]
    BY <1>9 DEF ListOld, Saved
  <2>3. Saved' = Saved /\ Saved \subseteq Days /\ d \in Saved /\ \A e \in Saved : e <= d
    BY <1>3, <2>1 DEF Saved
  <2>4. /\ stale' \in [Runs -> SUBSET Days] /\ stale'[r] = Saved \ Newest(keep[r])
    BY <1>6, <2>2, <2>3
  <2>5. /\ Newest(keep[r]) \subseteq Saved
        /\ Cardinality(Newest(keep[r])) <= keep[r]
        /\ d \in Newest(keep[r])
        /\ \A x \in Saved \ Newest(keep[r]), e \in Newest(keep[r]) : e > x
        /\ Saved \ Newest(keep[r]) # {} => Cardinality(Newest(keep[r])) >= keep[r]
    BY <1>7, <2>3, NewestIsKept
  <2>6. Spared(r)' = Newest(keep[r])
    BY <2>3, <2>4, <2>5 DEF Spared
  <2>7. Listed(r)'
    BY <1>1, <2>3, <2>4, <2>5, <2>6 DEF Listed
  <2> QED
    BY <1>3, <1>6, <1>8, <2>1, <2>4, <2>7
<1>10. CASE RemoveOld(r)
  <2>1. to = "remove" /\ Listed(r)
    BY <1>3, <1>5, <1>10 DEF RemoveOld, CleanAt, BackupInv, BackupTypeOK
  <2>2. PICK x \in stale[r] : /\ backup' = [backup EXCEPT ![x] = NoFile]
                              /\ stale' = [stale EXCEPT ![r] = @ \ {x}]
    BY <1>10 DEF RemoveOld
  <2>3. x \in Days /\ x # d
    BY <1>6, <2>1 DEF Listed
  <2>4. /\ backup' \in [Days -> 1 .. Len(content) \cup {NoFile}]
        /\ backup'[x] = NoFile /\ \A e \in Days \ {x} : backup'[e] = backup[e]
        /\ stale' \in [Runs -> SUBSET Days] /\ stale'[r] = stale[r] \ {x}
    BY <1>6, <2>2, <2>3
  <2>5. Saved' = Saved \ {x}
    BY <2>4 DEF Saved
  <2>6. Spared(r)' = Spared(r)
    BY <2>2, <2>4, <2>5 DEF Spared
  <2>7. Listed(r)'
    BY <1>1, <2>1, <2>4, <2>5, <2>6 DEF Listed
  <2> QED
    BY <1>3, <1>8, <2>1, <2>3, <2>4, <2>7
<1>11. CASE RemovedOld(r)
  <2>1. to = "cleaned" /\ stale[r] = {} /\ UNCHANGED <<backup, stale>> /\ Listed(r)
    BY <1>3, <1>5, <1>11 DEF RemovedOld, CleanAt, BackupInv, BackupTypeOK
  <2>2. Saved' = Saved /\ Spared(r) = Saved
    BY <2>1 DEF Saved, Spared
  <2> QED
    BY <1>3, <1>6, <1>8, <2>1, <2>2 DEF Listed
<1>12. CASE CleanupRaises(r)
  <2>1. backup' = backup /\ stale' = [stale EXCEPT ![r] = {}]
    BY <1>12 DEF CleanupRaises
  <2>2. to = "error"
    BY <1>5, <1>12 DEF CleanupRaises, CleanAt, BackupInv, BackupTypeOK
  <2>3. stale' \in [Runs -> SUBSET Days]
    BY <1>6, <2>1
  <2> QED
    BY <1>6, <1>8, <2>1, <2>2, <2>3
<1> QED
  BY <1>9, <1>10, <1>11, <1>12 DEF CleanThread

\* The coroutine of a run gets it under way when no other is, and removes no
\* backup itself.
LEMMA RunStep ==
  ASSUME BackupInv, ~Overlap, NEW r \in Runs, RunOnce(r)
  PROVE  BackupInv'
<1> DEFINE States == {"new", "copying", "reading", "cleaning", "ok", "failed", "cancelled", "dead"}
<1>1. /\ run \in [Runs -> States] /\ notices \in [Runs -> 0 .. 1]
      /\ today \in Days /\ Relies(r)
  BY DEF BackupInv, BackupTypeOK
<1>2. CASE BeginBackup(r)
  <2>1. /\ run[r] = "new" /\ \A q \in Runs : ~Active(q)
        /\ run' = [run EXCEPT ![r] = "copying"]
        /\ thread' = [thread EXCEPT ![r] = "unlink"]
        /\ day' = [day EXCEPT ![r] = today]
        /\ UNCHANGED <<fd, keep, stale, notices, content, tmp, backup, today, retain, deaths>>
    BY <1>2 DEF BeginBackup, Active, files, env
  <2>2. /\ run'[r] = "copying" /\ thread'[r] = "unlink" /\ day'[r] = today /\ notices'[r] = 0
        /\ \A q \in Runs \ {r} : run'[q] = run[q] /\ thread'[q] = thread[q]
    BY <1>1, <2>1 DEF BackupInv, BackupTypeOK, Relies
  <2>3. BackupTypeOK'
    <3>1. run' \in [Runs -> States] /\ today \in 0 .. MaxDay
      BY <1>1, <2>1 DEF Days
    <3>2. day' \in [Runs -> 0 .. MaxDay]
      BY <2>1, <3>1 DEF BackupInv, BackupTypeOK
    <3>3. \A q \in Runs : run'[q] = "copying" => thread'[q] # "none"
      BY <2>2 DEF BackupInv, BackupTypeOK
    <3> QED
      BY <2>1, <3>1, <3>2, <3>3 DEF BackupInv, BackupTypeOK
  <2>4. BackupsAreWhole' /\ \A d \in Days : backup'[d] # NoFile => d <= today'
    BY <2>1 DEF BackupInv, BackupsAreWhole
  <2>5. Relies(r)'
    <3>1. /\ notices'[r] = 0 /\ day'[r] \in Days /\ today' = today /\ today <= today
          /\ \A d \in Days : backup'[d] # NoFile => d <= day'[r]
      BY <1>1, <2>1, <2>2, <2>4 DEF Days
    <3> QED
      BY <2>1, <2>2, <3>1 DEF Relies
  <2> QED
    BY <2>1, <2>2, <2>3, <2>4, <2>5, StepOfOne DEF BackupInv
<1>3. ASSUME NEW to \in {"reading", "cleaning", "cancelled"}, UnderWay(r),
             run' = [run EXCEPT ![r] = to],
             thread' \in [Runs -> {"none", "unlink", "open", "copy", "check", "replace", "undo",
                                   "done", "list", "remove", "cleaned", "error"}],
             thread'[r] = thread[r] \/ (thread[r] = "done" /\ thread'[r] = "list"),
             \A q \in Runs \ {r} : thread'[q] = thread[q],
             keep' \in [Runs -> Retains \cup {DefaultRetain}],
             keep'[r] = keep[r] \/ thread'[r] = "list",
             to = "reading" => thread'[r] = "done",
             to = "cleaning" => thread'[r] = "list",
             UNCHANGED <<day, fd, stale, notices, content, tmp, backup, today, retain, deaths>>
      PROVE  BackupInv'
  <2>1. Active(r) /\ run'[r] = to /\ \A q \in Runs \ {r} : run'[q] = run[q]
    BY <1>1, <1>3 DEF Active
  <2>2. run' \in [Runs -> States] /\ \A q \in Runs : run'[q] = "copying" => thread'[q] # "none"
    BY <1>1, <1>3, <2>1 DEF BackupInv, BackupTypeOK
  <2>3. BackupTypeOK'
    BY <1>3, <2>2 DEF BackupInv, BackupTypeOK
  <2>4. BackupsAreWhole' /\ \A d \in Days : backup'[d] # NoFile => d <= today'
    BY <1>3 DEF BackupInv, BackupsAreWhole
  <2>5. Relies(r)'
    <3>1. /\ notices'[r] = 0 /\ day'[r] \in Days /\ day'[r] <= today'
          /\ \A d \in Days : backup'[d] # NoFile => d <= day'[r]
          /\ thread'[r] \in {"done", "list", "remove", "cleaned"} => backup'[day'[r]] # NoFile
          /\ thread'[r] = "copy" => fd'[r] # NoFile /\ fd'[r] = tmp'[day'[r]]
          /\ thread'[r] \in {"check", "replace"} =>
               tmp'[day'[r]] # NoFile /\ content'[tmp'[day'[r]]] = "full"
      BY <1>1, <1>3, <2>1 DEF Relies
    <3>2. Saved' = Saved /\ Spared(r)' = Spared(r)
      BY <1>3 DEF Saved, Spared
    <3>3. /\ thread'[r] = "remove" => Listed(r)'
          /\ thread'[r] = "cleaned" => Cardinality(Saved') <= keep'[r]
      BY <1>1, <1>3, <2>1, <3>2 DEF Relies, Listed
    <3> QED
      BY <1>3, <2>1, <3>1, <3>3 DEF Relies
  <2> QED
    BY <1>3, <2>1, <2>3, <2>4, <2>5, StepOfOne DEF BackupInv
<1>4. ASSUME UnderWay(r), NEW end \in {"ok", "failed"}, thread[r] \in {"cleaned", "error"},
             run' = [run EXCEPT ![r] = end],
             \E written \in 0 .. 1 : notices' = [notices EXCEPT ![r] = @ + written],
             UNCHANGED <<thread, day, fd, keep, stale, content, tmp, backup, today, retain,
                         deaths>>
      PROVE  BackupInv'
  <2>1. /\ run'[r] = end /\ notices[r] = 0
        /\ \A q \in Runs \ {r} : run'[q] = run[q] /\ notices'[q] = notices[q]
    BY <1>1, <1>4 DEF Relies
  <2>2. notices' \in [Runs -> 0 .. 1] /\ run' \in [Runs -> States]
    BY <1>1, <1>4, <2>1
  <2>3. \A q \in Runs : run'[q] = "copying" => thread'[q] # "none"
    BY <1>1, <1>4, <2>1 DEF BackupInv, BackupTypeOK
  <2>4. BackupTypeOK'
    BY <1>4, <2>2, <2>3 DEF BackupInv, BackupTypeOK
  <2>5. BackupsAreWhole' /\ \A d \in Days : backup'[d] # NoFile => d <= today'
    BY <1>4 DEF BackupInv, BackupsAreWhole
  <2>6. Active(r) /\ ~Active(r)'
    BY <1>4, <2>1 DEF Active, Working, UnderWay
  <2>7. Relies(r)'
    BY <1>4, <2>1, <2>6, IdleRun
  <2> QED
    BY <1>4, <2>1, <2>4, <2>5, <2>6, <2>7, StepOfOne DEF BackupInv
<1>5. /\ thread \in [Runs -> {"none", "unlink", "open", "copy", "check", "replace", "undo",
                              "done", "list", "remove", "cleaned", "error"}]
      /\ keep \in [Runs -> Retains \cup {DefaultRetain}] /\ retain \in Retains
  BY DEF BackupInv, BackupTypeOK
<1>6. CASE Copied(r)
  <2>1. /\ UnderWay(r) /\ thread[r] = "done" /\ run' = [run EXCEPT ![r] = "reading"]
        /\ UNCHANGED <<thread, keep>>
        /\ UNCHANGED <<day, fd, stale, notices, content, tmp, backup, today, retain, deaths>>
    BY <1>6 DEF Copied, RunAt, UnderWay, files, env
  <2> QED
    BY <1>3, <1>5, <2>1
<1>7. CASE ResolveRetainCount(r)
  <2>1. /\ run[r] = "reading" /\ run' = [run EXCEPT ![r] = "cleaning"]
        /\ thread' = [thread EXCEPT ![r] = "list"]
        /\ \E n \in {retain, DefaultRetain} : keep' = [keep EXCEPT ![r] = n]
        /\ UNCHANGED <<day, fd, stale, notices, content, tmp, backup, today, retain, deaths>>
    BY <1>7 DEF ResolveRetainCount, RunAt, files, env
  <2>2. UnderWay(r) /\ thread[r] = "done"
    BY <1>1, <2>1 DEF Relies, UnderWay
  <2>3. keep' \in [Runs -> Retains \cup {DefaultRetain}]
    BY <1>5, <2>1
  <2>4. /\ thread' \in [Runs -> {"none", "unlink", "open", "copy", "check", "replace", "undo",
                                 "done", "list", "remove", "cleaned", "error"}]
        /\ thread'[r] = "list" /\ \A q \in Runs \ {r} : thread'[q] = thread[q]
    BY <1>5, <2>1
  <2> QED
    BY <1>3, <2>1, <2>2, <2>3, <2>4
<1>8. CASE Finished(r)
  <2>1. /\ UnderWay(r) /\ thread[r] = "cleaned" /\ run' = [run EXCEPT ![r] = "ok"]
        /\ notices' = notices
        /\ UNCHANGED <<thread, day, fd, keep, stale, content, tmp, backup, today, retain,
                       deaths>>
    BY <1>8 DEF Finished, RunAt, UnderWay, files, env
  <2>2. notices' = [notices EXCEPT ![r] = @ + 0] /\ 0 \in 0 .. 1
    BY <1>1, <2>1
  <2> QED
    BY <1>4, <2>1, <2>2
<1>9. CASE Failed(r)
  <2>1. /\ UnderWay(r) /\ thread[r] = "error" /\ run' = [run EXCEPT ![r] = "failed"]
        /\ UNCHANGED <<thread, day, fd, keep, stale, content, tmp, backup, today, retain,
                       deaths>>
    BY <1>9 DEF Failed, RunAt, UnderWay, files, env
  <2>2. \E written \in 0 .. 1 : notices' = [notices EXCEPT ![r] = @ + written]
    BY <1>9 DEF Failed
  <2> QED
    BY <1>4, <2>1, <2>2
<1>10. CASE Cancel(r)
  <2>1. /\ UnderWay(r) /\ run' = [run EXCEPT ![r] = "cancelled"]
        /\ UNCHANGED <<thread, keep>>
        /\ UNCHANGED <<day, fd, stale, notices, content, tmp, backup, today, retain, deaths>>
    BY <1>10 DEF Cancel, RunAt, UnderWay, files, env
  <2> QED
    BY <1>3, <1>5, <2>1
<1> QED
  BY <1>2, <1>6, <1>7, <1>8, <1>9, <1>10 DEF RunOnce

\* The clock, the setting and the death of the process.
LEMMA OutsideStep ==
  ASSUME BackupInv, NextDay \/ (\E n \in Retains : PutRetain(n)) \/ ProcessDies
  PROVE  BackupInv'
<1>1. UNCHANGED <<content, tmp, backup, day, fd, keep, notices>>
  BY DEF NextDay, PutRetain, ProcessDies, files
<1>2. BackupsAreWhole'
  BY <1>1 DEF BackupInv, BackupsAreWhole
<1>3. CASE ProcessDies
  <2>1. /\ UNCHANGED <<today, retain>> /\ deaths' \in 0 .. MaxDeaths
        /\ run' = [r \in Runs |-> IF UnderWay(r) THEN "dead" ELSE run[r]]
        /\ thread' = [r \in Runs |-> IF Working(r) THEN "error" ELSE thread[r]]
        /\ stale' = [r \in Runs |-> {}]
    <3>1. deaths \in 0 .. MaxDeaths /\ deaths < MaxDeaths /\ deaths' = deaths + 1
      BY <1>3 DEF ProcessDies, BackupInv, BackupTypeOK
    <3>2. deaths' \in 0 .. MaxDeaths
      BY ONLY <3>1, BackupAssumption
    <3> QED
      BY <1>3, <3>2 DEF ProcessDies
  <2>2. \A r \in Runs : run'[r] = "copying" => thread'[r] # "none"
    BY <2>1 DEF BackupInv, BackupTypeOK
  <2>3. BackupTypeOK'
    BY <1>1, <2>1, <2>2 DEF BackupInv, BackupTypeOK
  <2>4. ASSUME NEW r \in Runs PROVE ~Active(r)' /\ (run'[r] = "new" => notices'[r] = 0)
    BY <1>1, <2>1 DEF Active, Working, UnderWay, BackupInv, Relies
  <2> QED
    BY <1>1, <1>2, <2>1, <2>3, <2>4, IdleRun DEF BackupInv
<1>4. CASE NextDay \/ \E n \in Retains : PutRetain(n)
  <2>1. /\ UNCHANGED <<run, thread, stale, deaths>> /\ retain' \in Retains
        /\ today' \in Days /\ today <= today'
    <3>1. today \in Days /\ retain \in Retains /\ MaxDay \in Nat
      BY BackupAssumption DEF BackupInv, BackupTypeOK
    <3>2. CASE NextDay
      <4>1. today < MaxDay /\ today' = today + 1
        BY <3>2 DEF NextDay
      <4>2. today' \in Days /\ today <= today'
        BY ONLY <3>1, <4>1 DEF Days
      <4> QED
        BY <3>1, <3>2, <4>2 DEF NextDay
    <3>3. CASE \E n \in Retains : PutRetain(n)
      <4>1. today' = today /\ today <= today
        BY <3>1, <3>3 DEF PutRetain, Days
      <4> QED
        BY <3>1, <3>3, <4>1 DEF PutRetain
    <3> QED
      BY <1>4, <3>2, <3>3
  <2>2. BackupTypeOK'
    BY <1>1, <2>1 DEF BackupInv, BackupTypeOK
  <2>3. \A r \in Runs : (Active(r)' <=> Active(r)) /\ (UnderWay(r)' <=> UnderWay(r))
    BY <2>1 DEF Active, Working, UnderWay
  <2>4. today \in Nat /\ today' \in Nat /\ Days \subseteq Nat
    BY <2>1 DEF BackupInv, BackupTypeOK, Days
  <2>5. \A d \in Days : d <= today => d <= today'
    BY <2>1, <2>4
  <2>6. \A r \in Runs : Saved' = Saved /\ (Listed(r)' <=> Listed(r))
    BY <1>1, <2>1 DEF Saved, Spared, Listed
  <2>7. ASSUME NEW r \in Runs PROVE Relies(r)'
    BY <1>1, <2>1, <2>3, <2>5, <2>6 DEF BackupInv, Relies
  <2> QED
    BY <1>1, <1>2, <2>2, <2>3, <2>5, <2>7 DEF BackupInv
<1> QED
  BY <1>3, <1>4

\* The invariant holds when no run starts under another.
THEOREM BackupInvariance == ~Overlap => (BackupSpec => []BackupInv)
<1> SUFFICES ASSUME ~Overlap PROVE BackupSpec => []BackupInv
  OBVIOUS
<1>1. BackupInit => BackupInv
  <2> SUFFICES ASSUME BackupInit PROVE BackupInv
    OBVIOUS
  <2>1. content \in Seq({"empty", "full"})
    BY DEF BackupInit
  <2>2. BackupTypeOK
    BY <2>1, BackupAssumption DEF BackupInit, BackupTypeOK, Days
  <2> QED
    BY <2>2 DEF BackupInit, BackupInv, BackupsAreWhole, Active, Working, UnderWay, Relies
<1>2. BackupInv /\ [BackupNext]_backupVars => BackupInv'
  <2> SUFFICES ASSUME BackupInv, [BackupNext]_backupVars PROVE BackupInv'
    OBVIOUS
  <2>1. CASE UNCHANGED backupVars
    <3> USE <2>1 DEF backupVars, BackupInv
    <3>1. BackupTypeOK' /\ BackupsAreWhole'
      BY DEF BackupTypeOK, BackupsAreWhole
    <3>2. \A r \in Runs : (Active(r)' <=> Active(r)) /\ (UnderWay(r)' <=> UnderWay(r))
      BY DEF Active, Working, UnderWay
    <3>3. \A r \in Runs : Saved' = Saved /\ (Listed(r)' <=> Listed(r))
      BY DEF Saved, Spared, Listed
    <3>4. ASSUME NEW r \in Runs PROVE Relies(r)'
      BY <3>2, <3>3 DEF Relies
    <3> QED
      BY <3>1, <3>2, <3>4
  <2> QED
    BY <2>1, ThreadStep, CleanStep, RunStep, OutsideStep DEF BackupNext
<1> QED
  BY <1>1, <1>2, PTL DEF BackupSpec

\* What stands under a backup's name is whole, however many runs of however many
\* days fail, are cancelled or die, as long as none starts under another.
THEOREM BackupsStayWhole == ~Overlap => (BackupSpec => []BackupsAreWhole)
<1> SUFFICES ASSUME ~Overlap PROVE BackupSpec => []BackupsAreWhole
  OBVIOUS
<1>1. BackupInv => BackupsAreWhole
  BY DEF BackupInv
<1> QED
  BY <1>1, BackupInvariance, PTL

\* A run that ends well leaves its own backup, which is the newest, and no more
\* than the count it has read, as long as no run starts under another.
THEOREM SuccessLeavesBackup == ~Overlap => (BackupSpec => SuccessKeepsItsBackup)
<1> SUFFICES ASSUME ~Overlap PROVE BackupSpec => SuccessKeepsItsBackup
  OBVIOUS
<1>1. BackupInv /\ [BackupNext]_backupVars =>
        [\A r \in Runs : run[r] # "ok" /\ run'[r] = "ok"
           => /\ backup'[day[r]] # NoFile
              /\ Cardinality({d \in Days : backup'[d] # NoFile}) <= keep[r]]_backupVars
  <2> SUFFICES ASSUME BackupInv, BackupNext, NEW r \in Runs, run[r] # "ok", run'[r] = "ok"
               PROVE  /\ backup'[day[r]] # NoFile
                      /\ Cardinality({d \in Days : backup'[d] # NoFile}) <= keep[r]
    BY DEF backupVars
  <2>1. run \in [Runs -> {"new", "copying", "reading", "cleaning", "ok", "failed",
                          "cancelled", "dead"}]
    BY DEF BackupInv, BackupTypeOK
  <2>2. Finished(r)
    <3>1. PICK q \in Runs : Thread(q) \/ CleanThread(q) \/ RunOnce(q)
      BY DEF BackupNext, NextDay, PutRetain, ProcessDies
    <3>2. ~Thread(q) /\ ~CleanThread(q)
      BY DEF Thread, Unlink, OpenTmp, Copy, Check, Replace, Raise, Undo, RaiseEarly, ThreadAt,
             CleanThread, ListOld, RemoveOld, RemovedOld, CleanupRaises, CleanAt
    <3>3. ~Cancel(q) /\ ~BeginBackup(q) /\ ~Copied(q) /\ ~ResolveRetainCount(q) /\ ~Failed(q)
      BY <2>1 DEF Cancel, BeginBackup, Copied, ResolveRetainCount, Failed, RunAt
    <3>4. Finished(q)
      BY <3>1, <3>2, <3>3 DEF RunOnce
    <3>5. q = r
      BY <2>1, <3>4 DEF Finished, RunAt
    <3> QED
      BY <3>4, <3>5
  <2>3. Relies(r) /\ run[r] = "cleaning" /\ thread[r] = "cleaned" /\ backup' = backup
    BY <2>2 DEF BackupInv, Finished, RunAt, files
  <2> QED
    BY <2>3 DEF Relies, Active, UnderWay, Saved
<1> QED
  BY <1>1, BackupInvariance, PTL DEF BackupSpec, SuccessKeepsItsBackup

\* A backup is lost only to as many newer ones as the run that removes it has read
\* from the setting, wherever the removal is cut short, as long as no run starts
\* under another.
THEOREM OnlyNewerOnesReplace == ~Overlap => (BackupSpec => BackupIsLostToNewerOnes)
<1> SUFFICES ASSUME ~Overlap PROVE BackupSpec => BackupIsLostToNewerOnes
  OBVIOUS
<1>1. BackupInv /\ [BackupNext]_backupVars =>
        [\A d \in Days : backup[d] # NoFile /\ backup'[d] = NoFile
           => \E r \in Runs :
                /\ thread[r] = "remove"
                /\ Cardinality({e \in Days : e > d /\ backup'[e] # NoFile}) >= keep[r]]_backupVars
  <2> SUFFICES ASSUME BackupInv, BackupNext,
                      NEW d \in Days, backup[d] # NoFile, backup'[d] = NoFile
               PROVE  \E r \in Runs :
                        /\ thread[r] = "remove"
                        /\ Cardinality({e \in Days : e > d /\ backup'[e] # NoFile}) >= keep[r]
    BY DEF backupVars
  <2>1. PICK r \in Runs : RemoveOld(r)
    <3>1. backup' # backup
      OBVIOUS
    <3>2. PICK r \in Runs : Thread(r) \/ CleanThread(r) \/ RunOnce(r)
      BY <3>1 DEF BackupNext, NextDay, PutRetain, ProcessDies, files
    <3>3. ~RunOnce(r)
      BY <3>1 DEF RunOnce, Cancel, BeginBackup, Copied, ResolveRetainCount, Finished, Failed,
                  RunAt, files
    <3>4. ~Replace(r)
      BY DEF Replace, BackupInv, BackupTypeOK
    <3>5. ~Thread(r)
      BY <3>1, <3>4 DEF Thread, Unlink, OpenTmp, Connect, Copy, Check, Raise, Undo, RaiseEarly,
                        files
    <3>6. ~ListOld(r) /\ ~RemovedOld(r) /\ ~CleanupRaises(r)
      BY <3>1 DEF ListOld, RemovedOld, CleanupRaises
    <3> QED
      BY <3>2, <3>3, <3>5, <3>6 DEF CleanThread
  <2>2. thread[r] = "remove"
    BY <2>1 DEF RemoveOld, CleanAt
  <2>3. Listed(r)
    BY <2>2 DEF BackupInv, Relies, Active, Working
  <2>4. backup \in [Days -> 1 .. Len(content) \cup {NoFile}]
    BY DEF BackupInv, BackupTypeOK
  <2>5. PICK x \in stale[r] : backup' = [backup EXCEPT ![x] = NoFile]
    BY <2>1 DEF RemoveOld
  <2>6. x = d /\ stale[r] # {}
    BY <2>4, <2>5
  <2> DEFINE Rest == {e \in Days : e > d /\ backup'[e] # NoFile}
  <2>7. Spared(r) \in SUBSET Rest
    BY <2>3, <2>4, <2>5, <2>6 DEF Listed, Spared, Saved
  <2>8. IsFiniteSet(Rest)
    <3>1. IsFiniteSet(1 .. MaxDay)
      BY BackupAssumption, FS_Interval
    <3>2. Rest \in SUBSET (1 .. MaxDay)
      BY DEF Days
    <3> QED
      BY <3>1, <3>2, FS_Subset
  <2> HIDE DEF Rest
  <2>9. /\ Cardinality(Spared(r)) <= Cardinality(Rest)
        /\ Cardinality(Rest) \in Nat /\ Cardinality(Spared(r)) \in Nat
    BY <2>7, <2>8, FS_Subset, FS_CardinalityType
  <2>10. Cardinality(Spared(r)) >= keep[r] /\ keep[r] \in Nat
    BY <2>3, <2>6, KeepIsCount DEF Listed
  <2>11. Cardinality(Rest) >= keep[r]
    BY ONLY <2>9, <2>10, AtLeast, Zenon
  <2> QED
    BY <2>2, <2>11 DEF Rest
<1> QED
  BY <1>1, BackupInvariance, PTL DEF BackupSpec, BackupIsLostToNewerOnes

-----------------------------------------------------------------------------
(* The plan cycle runner *)

\* The inductive invariant: implementation commits without a review are those of
\* the present cycle, on the way to their review, or the run is about to end.
RunnerInv ==
  /\ head \in Nat /\ before \in Nat /\ before <= head
  /\ at \in {"cycle", "unchanged"} => ~unreviewed
  /\ at = "implemented" => step = "implement"
  /\ at \in {"exec", "judge", "probe", "implemented"} /\ step = "implement" /\ unreviewed
       => head > before
  /\ at = "gate" \/ (at \in {"exec", "judge", "probe"} /\ step \in {"docs", "repair"})
       => (unreviewed => finishing)

\* The steps of the runner keep it: HEAD moves only forward within a cycle, and a
\* cycle that leaves it where it was has no commit to review.
LEMMA RunnerStep == RunnerInv /\ [RunnerNext]_runnerVars => RunnerInv'
<1> SUFFICES ASSUME RunnerInv, [RunnerNext]_runnerVars PROVE RunnerInv'
  OBVIOUS
<1> USE DEF RunnerInv, repoVars, loopVars
<1>1. CASE Start
  BY <1>1 DEF Start, Exit
<1>2. CASE BeginCycle
  <2>1. /\ at = "cycle" /\ UNCHANGED <<head, unreviewed, finishing>>
        /\ \/ at' = "off" /\ UNCHANGED <<step, before>>
           \/ at' = "exec" /\ step' = "implement" /\ before' = head
    BY <1>2 DEF BeginCycle, Exit, Enter, MoveTo
  <2>2. ~unreviewed /\ ~unreviewed'
    BY <2>1
  <2> QED
    BY <2>1, <2>2
<1>3. CASE RunCodexStep
  <2>1. /\ at = "exec" /\ at' = "judge" /\ UNCHANGED <<step, before, finishing>>
    BY <1>3 DEF RunCodexStep, MoveTo
  <2>2. \/ head' = head /\ (unreviewed' => unreviewed)
        \/ head' = head + 1 /\ (unreviewed' => unreviewed \/ step = "implement")
    <3>1. PICK commits \in BOOLEAN :
            /\ head' = IF commits THEN head + 1 ELSE head
            /\ unreviewed' = (unreviewed \/ (commits /\ step = "implement"))
      BY <1>3, Zenon DEF RunCodexStep, CodexWorks
    <3> QED
      BY <3>1, Zenon
  <2> QED
    BY <2>1, <2>2
<1>4. CASE ImplementStep \/ ReviewStep \/ DocsStep \/ RepairStep
  <2>1. /\ at = "judge" /\ UNCHANGED <<head, before, step, unreviewed, finishing>>
        /\ \/ at' \in {"off", "exec", "probe"}
           \/ at' = "implemented" /\ step = "implement"
           \/ at' = "reviewed"
           \/ at' = "gate" /\ step \in {"docs", "repair"}
    BY <1>4 DEF ImplementStep, ReviewStep, DocsStep, RepairStep, StepLoop, Busy, Quota, MoveTo,
                Exit
  <2> QED
    BY <2>1
<1>5. CASE QuotaProbe
  <2>1. /\ UNCHANGED <<head, before, step, unreviewed, finishing>>
        /\ \/ at = "probe" /\ at' \in {"exec", "probe", "off"}
           \/ at = "unchanged" /\ at' \in {"cycle", "unchanged", "off"}
           \/ step = "docs" /\ at \in {"probe", "unchanged"} /\ at' = "gate"
    BY <1>5 DEF QuotaProbe, NextCycle, MoveTo, Exit
  <2> QED
    BY <2>1
<1>6. CASE AfterImplement
  <2>1. at = "implemented" /\ UNCHANGED <<head, before, unreviewed>>
    BY <1>6 DEF AfterImplement
  <2>2. \/ finishing' /\ at' = "exec" /\ step' = "docs"
        \/ finishing' /\ at' = "gate"
        \/ head = before /\ at' \in {"cycle", "unchanged", "off"}
        \/ at' = "sync"
    BY <1>6 DEF AfterImplement, NextCycle, Enter, MoveTo, Exit
  <2> QED
    BY <2>1, <2>2
<1>7. CASE SyncTraceability
  BY <1>7 DEF SyncTraceability, MoveTo
<1>8. CASE RunVerificationCommands
  BY <1>8 DEF RunVerificationCommands, Enter, MoveTo, Exit
<1>9. CASE AfterReview
  BY <1>9 DEF AfterReview, Enter, MoveTo
<1>10. CASE PrecommitGate
  <2>1. /\ at = "gate" /\ UNCHANGED <<head, before, unreviewed, finishing>>
        /\ \/ at' = "off"
           \/ ~finishing /\ at' = "cycle"
           \/ at' = "exec" /\ step' = "repair"
    BY <1>10 DEF PrecommitGate, NextCycle, Enter, MoveTo, Exit
  <2> QED
    BY <2>1
<1>11. CASE Interrupt
  BY <1>11 DEF Interrupt, Exit
<1>12. CASE Tidy \/ UNCHANGED runnerVars
  <2>1. UNCHANGED <<head, before, at, step, unreviewed, finishing>>
    BY <1>12 DEF Tidy, runnerVars
  <2> QED
    BY <2>1
<1> QED
  BY <1>1, <1>2, <1>3, <1>4, <1>5, <1>6, <1>7, <1>8, <1>9, <1>10, <1>11, <1>12
  DEF RunnerNext, Proceed

\* No cycle is begun on top of commits without a review, for any limits on
\* cycles, retries, probes and repairs.
THEOREM ReviewedBeforeNext == RunnerSpec => NextItemAfterReview
<1>1. RunnerInit => RunnerInv
  BY DEF RunnerInit, RunnerInv
<1>2. RunnerInv /\ [RunnerNext]_runnerVars =>
        [BeginCycle /\ at' = "exec" => ~unreviewed]_runnerVars
  BY DEF RunnerInv, BeginCycle
<1> QED
  BY <1>1, <1>2, RunnerStep, PTL DEF RunnerSpec, NextItemAfterReview

\* Only a pre-commit check that passes ends a run with the exit code 0.
THEOREM DonePassesGate == RunnerSpec => DoneIsGated
<1>1. [RunnerNext]_runnerVars =>
        [at # "off" /\ at' = "off" /\ code' = 0 => clean']_runnerVars
  <2> SUFFICES ASSUME RunnerNext, at # "off", at' = "off", code' = 0 PROVE clean'
    BY DEF runnerVars
  <2>1. CASE PrecommitGate
    BY <2>1 DEF PrecommitGate, Enter, NextCycle, MoveTo, Exit
  <2>2. ~Start /\ ~Tidy /\ ~Interrupt
    BY DEF Start, Tidy, Interrupt, Exit
  <2>3. ~ImplementStep
    BY DEF ImplementStep, StepLoop, Busy, Quota, MoveTo, Exit
  <2>4. ~ReviewStep
    BY DEF ReviewStep, StepLoop, Busy, Quota, MoveTo, Exit
  <2>5. ~DocsStep
    BY DEF DocsStep, StepLoop, Busy, Quota, MoveTo, Exit
  <2>6. ~RepairStep
    BY DEF RepairStep, StepLoop, Busy, Quota, MoveTo, Exit
  <2>7. ~BeginCycle /\ ~RunCodexStep
    <3>1. ~BeginCycle
      BY DEF BeginCycle, Enter, MoveTo, Exit
    <3>2. RunCodexStep => at' = "judge"
      BY ONLY DEF RunCodexStep, MoveTo
    <3> QED
      BY <3>1, <3>2
  <2>8. ~QuotaProbe
    BY DEF QuotaProbe, NextCycle, MoveTo, Exit
  <2>9. ~AfterImplement
    BY DEF AfterImplement, Enter, NextCycle, MoveTo, Exit
  <2>10. ~SyncTraceability /\ ~RunVerificationCommands /\ ~AfterReview
    <3>1. ~SyncTraceability
      BY DEF SyncTraceability, MoveTo, Exit
    <3>2. ~RunVerificationCommands
      BY DEF RunVerificationCommands, Enter, MoveTo, Exit
    <3>3. ~AfterReview
      BY DEF AfterReview, Enter, MoveTo, Exit
    <3> QED
      BY <3>1, <3>2, <3>3
  <2> QED
    BY <2>1, <2>2, <2>3, <2>4, <2>5, <2>6, <2>7, <2>8, <2>9, <2>10 DEF RunnerNext, Proceed
<1> QED
  BY <1>1, PTL DEF RunnerSpec, DoneIsGated
=============================================================================
