-------------------------- MODULE VaultQueue_proofs --------------------------
(* Proofs about VaultQueue and its readers, for any set of ids, objects,   *)
(* processes and limits.                                                   *)
EXTENDS VaultQueueReaders, FiniteSetTheorems, FunctionTheorems, TLAPS

USE DEF Procs

-----------------------------------------------------------------------------
(* Type correctness *)

TypeInv == TypeOK /\ CallOK

LEMMA RetryDelayType == \A n \in Nat \ {0} : RetryDelay(n) \in 0 .. RetryCap
  BY BoundAssumption DEF RetryDelay, Lesser, Shift

LEMMA UsedCount == ASSUME NEW S, S \subseteq Ids PROVE Cardinality(S) \in Nat
  BY IdsAssumption, FS_Subset, FS_CardinalityType

USE DEF Goto, Unlock, Fault, Forget, Release, NoArg, NoLease, disk, remote,
        Draw, Scheduled

LEMMA InitType == Init => TypeInv
  BY BoundAssumption
  DEF Init, TypeInv, TypeOK, CallOK, Registered, Item, Row, ProducerPc, WorkerPc

LEMMA OpenMutatingType ==
  ASSUME TypeInv, NEW p \in Procs, NEW next, OpenMutating(p, next),
         p \in Producers => next = "opened" /\ pc[p] = "wait",
         p \in Workers => \/ next = "claiming" /\ pc[p] = "idle"
                          \/ next \in {"finish_ok", "finish_err"} /\ pc[p] \in {"acked", "failed"}
  PROVE  TypeInv'
<1> USE ProcsAssumption DEF TypeInv, OpenMutating
<1>1. Cleaned \in [Ids -> Objects \cup {NoFile, Damaged}]
  BY DEF TypeOK, Cleaned
<1>2. TypeOK'
  BY <1>1 DEF TypeOK, ProducerPc, WorkerPc
<1>3. CallOK'
  BY DEF TypeOK, CallOK, Registered, Item
<1> QED BY <1>2, <1>3

LEMMA EnqueueStepType ==
  ASSUME TypeInv, NEW p \in Producers, EnqueueStep(p)
  PROVE  TypeInv'
<1> USE ProcsAssumption
<1>1. CASE CreateLockFile(p)
  <2>1. CASE store = "empty"
    BY <1>1, <2>1 DEF TypeInv, TypeOK, CallOK, Registered, Item, CreateLockFile, ProducerPc
  <2>2. CASE store # "empty"
    <3>1. /\ Goto(p, "idle") /\ Forget(p)
          /\ UNCHANGED <<disk, lock, stored, wire, faults>>
      BY <1>1, <2>2 DEF CreateLockFile
    <3> QED
      BY <3>1 DEF TypeInv, TypeOK, CallOK, Registered, Item, ProducerPc
  <2> QED BY <2>1, <2>2
<1>2. CASE InitLock(p)
  BY <1>2 DEF TypeInv, TypeOK, CallOK, Registered, Item, InitLock, ProducerPc
<1>3. CASE InitCommit(p)
  BY <1>3, ConfigAssumption DEF TypeInv, TypeOK, CallOK, Registered, Item, InitCommit, ProducerPc
<1>4. CASE EnqueueOpen(p)
  BY <1>4, OpenMutatingType DEF EnqueueOpen, ProducerPc
<1>5. CASE EnqueueDuplicate(p)
  BY <1>5 DEF TypeInv, TypeOK, CallOK, Registered, Item, EnqueueDuplicate, ProducerPc, RowOf, Registered
<1>6. CASE EnqueueReject(p)
  BY <1>6 DEF TypeInv, TypeOK, CallOK, Registered, Item, EnqueueReject, ProducerPc
<1>7. CASE EnqueueWrite(p)
  <2> PICK i \in Ids \ used : /\ file' = [file EXCEPT ![i] = arg[p].obj]
                              /\ used' = used \cup {i}
                              /\ Draw(p, i)
    BY <1>7 DEF EnqueueWrite
  <2>1. TypeOK'
    BY <1>7 DEF TypeInv, TypeOK, CallOK, Registered, Item, EnqueueWrite, ProducerPc
  <2>2. CallOK'
    BY <1>7 DEF TypeInv, TypeOK, CallOK, Registered, Item, EnqueueWrite, ProducerPc
  <2> QED BY <2>1, <2>2 DEF TypeInv
<1>8. CASE EnqueueCommit(p)
  <2>1. NewRow(arg[p].obj) \in Row /\ NewRow(arg[p].obj).token = None
    BY <1>8, UsedCount, BoundAssumption
    DEF TypeInv, TypeOK, CallOK, Registered, Item, EnqueueCommit, NewRow, Row
  <2>2. faults' \in 0 .. MaxFaults
    BY <1>8, BoundAssumption DEF TypeInv, TypeOK, EnqueueCommit
  <2>3. PICK x \in {"idle", "ok"} : pc' = [pc EXCEPT ![p] = x]
    BY <1>8 DEF EnqueueCommit
  <2>4. /\ active' \subseteq Ids
        /\ row' \in [Ids -> Row]
        /\ meta' \in [target : Targets \cup {None}, limits : [items : Nat, bytes : Nat]]
    BY <1>8, <2>1 DEF TypeInv, TypeOK, CallOK, EnqueueCommit
  <2>5. lock' = None /\ UNCHANGED <<store, archive, file, used, arg, lease, stored, wire>>
    BY <1>8 DEF EnqueueCommit
  <2>6. TypeOK'
    BY <2>2, <2>3, <2>4, <2>5 DEF TypeInv, TypeOK, ProducerPc
  <2>7. \A i \in Ids : /\ row'[i].obj = row[i].obj \/ row'[i].obj \in Objects
                       /\ row'[i].token \in Tokens => row'[i].attempts > 0
                       /\ i \in active' \ active => row'[i].obj \in Objects
    BY <1>8, <2>1, BoundAssumption DEF TypeInv, TypeOK, CallOK, EnqueueCommit, NewRow
  <2>8. CallOK'
    BY <2>3, <2>5, <2>7, <2>4 DEF TypeInv, TypeOK, CallOK, Registered, Item
  <2> QED BY <2>6, <2>8 DEF TypeInv
<1>9. CASE EnqueueRefused(p)
  BY <1>9 DEF TypeInv, TypeOK, CallOK, Registered, Item, EnqueueRefused, ProducerPc
<1> QED
  BY <1>1, <1>2, <1>3, <1>4, <1>5, <1>6, <1>7, <1>8, <1>9 DEF EnqueueStep

LEMMA DrainStepType ==
  ASSUME TypeInv, NEW w \in Workers, DrainStep(w) \/ DrainFault(w)
  PROVE  TypeInv'
<1> USE ProcsAssumption, BoundAssumption
<1>1. CASE ClaimOpen(w)
  BY <1>1, OpenMutatingType DEF ClaimOpen
<1>2. CASE Claim(w)
  <2> PICK i \in Ids, t \in FreshTokens :
           /\ Due(i)
           /\ LET n == Lesser(row[i].attempts + 1, MaxAttempts) IN
                row' = [row EXCEPT ![i] = Scheduled(row[i], n, RetryDelay(n), t, LeaseTicks)]
           /\ lease' = [lease EXCEPT ![w] = [id |-> i, token |-> t]]
    BY <1>2 DEF Claim
  <2> DEFINE n == Lesser(row[i].attempts + 1, MaxAttempts)
  <2>1. n \in 1 .. MaxAttempts
    BY BoundAssumption DEF TypeInv, TypeOK, Row, Lesser
  <2>a. row' = [row EXCEPT ![i] = Scheduled(row[i], n, RetryDelay(n), t, LeaseTicks)]
    OBVIOUS
  <2> HIDE DEF n
  <2>2. t \in Tokens BY DEF FreshTokens
  <2>3. Scheduled(row[i], n, RetryDelay(n), t, LeaseTicks) \in Row
    BY <2>1, <2>2, RetryDelayType, BoundAssumption DEF TypeInv, TypeOK, Row
  <2>4. TypeOK'
    BY <1>2, <2>a, <2>2, <2>3 DEF Claim, TypeInv, TypeOK, WorkerPc
  <2>5. CallOK'
    BY <1>2, <2>a, <2>1, <2>2 DEF Claim, TypeInv, TypeOK, CallOK, Registered, WorkerPc, Due, Item
  <2> QED BY <2>4, <2>5 DEF TypeInv
<1>3. CASE ClaimNothing(w)
  BY <1>3 DEF TypeInv, TypeOK, CallOK, Registered, Item, ClaimNothing, WorkerPc
<1>4. CASE ReadSnapshot(w)
  BY <1>4 DEF TypeInv, TypeOK, CallOK, Registered, Item, ReadSnapshot, WorkerPc
<1>5. CASE Serve(w)
  BY <1>5, ConfigAssumption DEF TypeInv, TypeOK, CallOK, Registered, Item, Serve, WorkerPc
<1>6. CASE ServeConflict(w)
  BY <1>6 DEF TypeInv, TypeOK, CallOK, Registered, Item, ServeConflict, WorkerPc
<1>7. CASE ReceiveReceipt(w)
  BY <1>7 DEF TypeInv, TypeOK, CallOK, Registered, Item, ReceiveReceipt, WorkerPc
<1>8. CASE FinishOpen(w)
  BY <1>8, OpenMutatingType DEF FinishOpen
<1>9. CASE FinishStale(w)
  BY <1>9 DEF TypeInv, TypeOK, CallOK, Registered, Item, FinishStale, WorkerPc
<1>10. CASE FinishSent(w)
  <2>1. Scheduled(row[lease[w].id], row[lease[w].id].attempts, 0, None, 0) \in Row
    BY <1>10 DEF TypeInv, TypeOK, CallOK, Registered, Item, FinishSent, Row
  <2>2. TypeOK'
    BY <1>10, <2>1 DEF TypeInv, TypeOK, CallOK, Registered, Item, FinishSent, WorkerPc
  <2>3. CallOK'
    BY <1>10 DEF TypeInv, TypeOK, CallOK, Registered, Item, FinishSent, WorkerPc
  <2> QED BY <2>2, <2>3 DEF TypeInv
<1>11. CASE FinishUnlink(w)
  BY <1>11 DEF TypeInv, TypeOK, CallOK, Registered, Item, FinishUnlink, WorkerPc
<1>12. CASE FinishFailed(w)
  <2> DEFINE n == row[lease[w].id].attempts
  <2>1. n \in Nat \ {0}
    BY <1>12 DEF TypeInv, TypeOK, CallOK, Registered, Item, FinishFailed, Owns, Row
  <2>2. Scheduled(row[lease[w].id], n, RetryDelay(n), None, 0) \in Row
    BY <1>12, <2>1, RetryDelayType, BoundAssumption
    DEF TypeInv, TypeOK, CallOK, Registered, Item, FinishFailed, Row
  <2>3. TypeOK'
    BY <1>12, <2>2 DEF TypeInv, TypeOK, CallOK, Registered, Item, FinishFailed, WorkerPc
  <2>4. CallOK'
    BY <1>12 DEF TypeInv, TypeOK, CallOK, Registered, Item, FinishFailed, WorkerPc
  <2> QED BY <2>3, <2>4 DEF TypeInv
<1>13. CASE RequestTimeout(w)
  BY <1>13, ConfigAssumption DEF TypeInv, TypeOK, CallOK, Registered, Item, RequestTimeout, WorkerPc
<1>14. CASE LoseReceipt(w)
  BY <1>14 DEF TypeInv, TypeOK, CallOK, Registered, Item, LoseReceipt, WorkerPc
<1>15. CASE FinishRefused(w)
  BY <1>15 DEF TypeInv, TypeOK, CallOK, Registered, Item, FinishRefused, WorkerPc
<1> QED
  BY <1>1, <1>2, <1>3, <1>4, <1>5, <1>6, <1>7, <1>8, <1>9, <1>10, <1>11, <1>12, <1>13,
     <1>14, <1>15 DEF DrainStep, DrainFault

LEMMA NextType == TypeInv /\ [Next]_vars => TypeInv'
<1> SUFFICES ASSUME TypeInv, [Next]_vars PROVE TypeInv'
  OBVIOUS
<1> USE ProcsAssumption, BoundAssumption DEF TypeInv
<1>1. ASSUME NEW p \in Producers, NEW o \in Objects, NEW lim \in Limits, EnqueueCall(p, o, lim)
      PROVE  TypeInv'
  BY <1>1, LimitsAssumption DEF TypeOK, CallOK, Registered, Item, EnqueueCall, ProducerPc
<1>2. ASSUME NEW p \in Producers, EnqueueStep(p) PROVE TypeInv'
  BY <1>2, EnqueueStepType
<1>3. ASSUME NEW w \in Workers, DrainStep(w) \/ DrainFault(w) PROVE TypeInv'
  BY <1>3, DrainStepType
<1>4. ASSUME NEW r \in Targets \X Objects, ServeLate(r) PROVE TypeInv'
  BY <1>4 DEF TypeOK, CallOK, Registered, Item, ServeLate
<1>5. ASSUME NEW p \in Procs, Crash(p) PROVE TypeInv'
  <2>1. CASE p \in Workers
    BY <1>5, <2>1 DEF TypeOK, CallOK, Registered, Item, Crash, WorkerPc
  <2>2. CASE p \in Producers
    <3>1. Forget(p) /\ Goto(p, "idle")
      BY <1>5, <2>2 DEF Crash
    <3>2. UNCHANGED <<disk, stored, wire>> /\ lock' \in {lock, None} /\ Fault
      BY <1>5 DEF Crash
    <3> QED
      BY <2>2, <3>1, <3>2 DEF TypeOK, CallOK, Registered, Item, ProducerPc
  <2> QED BY <2>1, <2>2
<1>6. ASSUME NEW i \in Ids, Damage(i) PROVE TypeInv'
  BY <1>6 DEF TypeOK, CallOK, Registered, Item, Damage
<1>7. ASSUME Tick PROVE TypeInv'
  <2>0. \A m \in Nat : \A n \in 0 .. m : Less(n) \in 0 .. m
    BY DEF Less
  <2>1. \A i \in Ids : Countdown(row[i]) \in Row
    <3> SUFFICES ASSUME NEW i \in Ids PROVE Countdown(row[i]) \in Row
      OBVIOUS
    <3>1. row[i] \in Row BY DEF TypeOK
    <3>2. Less(row[i].retry) \in 0 .. RetryCap /\ Less(row[i].left) \in 0 .. LeaseTicks
      BY <2>0, <3>1, BoundAssumption DEF Row
    <3> QED BY <3>1, <3>2 DEF Row, Countdown
  <2>2. \A i \in Ids : row'[i] \in Row /\ row'[i].obj = row[i].obj
                       /\ row'[i].token = row[i].token /\ row'[i].attempts = row[i].attempts
    <3>1. row' = [i \in Ids |-> IF i \in active THEN Countdown(row[i]) ELSE row[i]]
      BY <1>7 DEF Tick
    <3> QED BY <2>1, <3>1 DEF TypeOK, Countdown
  <2>3. row' \in [Ids -> Row]
    BY <1>7, <2>2 DEF Tick
  <2>4. faults' \in 0 .. MaxFaults
    BY <1>7 DEF Tick, TypeOK
  <2>5. TypeOK'
    BY <1>7, <2>3, <2>4 DEF Tick, TypeOK
  <2>6. CallOK'
    <3>1. UNCHANGED <<pc, arg, lease, active, archive>>
      BY <1>7 DEF Tick
    <3> QED
      BY <2>2, <3>1 DEF TypeOK, CallOK, Registered, Item
  <2> QED BY <2>5, <2>6
<1>8. CASE UNCHANGED vars
  BY <1>8 DEF TypeOK, CallOK, Registered, Item, vars
<1> QED
  BY <1>1, <1>2, <1>3, <1>4, <1>5, <1>6, <1>7, <1>8 DEF Next

\* Every state the queue reaches is well typed, and what each process carries
\* fits the step it is at.
THEOREM TypeCorrect == Spec => [](TypeOK /\ CallOK)
<1>1. Init => TypeInv BY InitType
<1>2. TypeInv /\ [Next]_vars => TypeInv' BY NextType
<1>3. TypeInv => TypeOK /\ CallOK BY DEF TypeInv
<1> QED BY <1>1, <1>2, <1>3, PTL DEF Spec

-----------------------------------------------------------------------------
(* The inductive invariant: the lock *)

LEMMA LockStep == ASSUME TypeInv, LockInv, [Next]_vars PROVE LockInv'
<1> USE ProcsAssumption DEF TypeInv, TypeOK, LockInv, Locked, OpenMutating
<1>1. ASSUME NEW p \in Producers, NEW o \in Objects, NEW lim \in Limits, EnqueueCall(p, o, lim)
      PROVE  LockInv'
  BY <1>1 DEF EnqueueCall
<1>2. ASSUME NEW p \in Producers, EnqueueStep(p) PROVE LockInv'
  BY <1>2 DEF EnqueueStep, CreateLockFile, InitLock, InitCommit, EnqueueOpen, EnqueueDuplicate,
              EnqueueReject, EnqueueWrite, EnqueueCommit, EnqueueRefused
<1>3. ASSUME NEW w \in Workers, DrainStep(w) PROVE LockInv'
  BY <1>3 DEF DrainStep, ClaimOpen, Claim, ClaimNothing, ReadSnapshot, Serve, ServeConflict,
              ReceiveReceipt, FinishOpen, FinishStale, FinishSent, FinishUnlink, FinishFailed
<1>4. ASSUME NEW w \in Workers, DrainFault(w) PROVE LockInv'
  BY <1>4 DEF DrainFault, RequestTimeout, LoseReceipt, FinishRefused
<1>5. ASSUME NEW r \in Targets \X Objects, ServeLate(r) PROVE LockInv'
  BY <1>5 DEF ServeLate
<1>6. ASSUME NEW p \in Procs, Crash(p) PROVE LockInv'
  BY <1>6 DEF Crash
<1>7. ASSUME NEW i \in Ids, Damage(i) PROVE LockInv'
  BY <1>7 DEF Damage
<1>8. CASE Tick
  BY <1>8 DEF Tick
<1>9. CASE UNCHANGED vars
  BY <1>9 DEF vars
<1> QED
  BY <1>1, <1>2, <1>3, <1>4, <1>5, <1>6, <1>7, <1>8, <1>9 DEF Next

-----------------------------------------------------------------------------
(* The inductive invariant: the set-up *)

LEMMA SetupStep == ASSUME TypeInv, SafeInv, [Next]_vars PROVE SetupInv'
<1> USE ProcsAssumption DEF TypeInv, TypeOK, SafeInv, SetupInv, OpenMutating
<1>1. ASSUME NEW p \in Producers, NEW o \in Objects, NEW lim \in Limits, EnqueueCall(p, o, lim)
      PROVE  SetupInv'
  BY <1>1 DEF EnqueueCall
<1>2. ASSUME NEW p \in Producers, EnqueueStep(p) PROVE SetupInv'
  <2>1. CASE CreateLockFile(p)
    BY <1>2, <2>1 DEF CreateLockFile
  <2>2. CASE InitLock(p) \/ InitCommit(p) \/ EnqueueOpen(p) \/ EnqueueRefused(p)
    BY <1>2, <2>2 DEF InitLock, InitCommit, EnqueueOpen, EnqueueRefused
  <2>3. CASE EnqueueDuplicate(p) \/ EnqueueReject(p) \/ EnqueueWrite(p) \/ EnqueueCommit(p)
    BY <1>2, <2>3 DEF EnqueueDuplicate, EnqueueReject, EnqueueWrite, EnqueueCommit
  <2> QED BY <1>2, <2>1, <2>2, <2>3 DEF EnqueueStep
<1>3. ASSUME NEW w \in Workers, DrainStep(w) PROVE SetupInv'
  BY <1>3 DEF DrainStep, ClaimOpen, Claim, ClaimNothing, ReadSnapshot, Serve, ServeConflict,
              ReceiveReceipt, FinishOpen, FinishStale, FinishSent, FinishUnlink, FinishFailed
<1>4. ASSUME NEW w \in Workers, DrainFault(w) PROVE SetupInv'
  BY <1>4 DEF DrainFault, RequestTimeout, LoseReceipt, FinishRefused
<1>5. ASSUME NEW r \in Targets \X Objects, ServeLate(r) PROVE SetupInv'
  BY <1>5 DEF ServeLate
<1>6. ASSUME NEW p \in Procs, Crash(p) PROVE SetupInv'
  BY <1>6 DEF Crash
<1>7. ASSUME NEW i \in Ids, Damage(i) PROVE SetupInv'
  BY <1>7 DEF Damage
<1>8. CASE Tick
  BY <1>8 DEF Tick
<1>9. CASE UNCHANGED vars
  BY <1>9 DEF vars
<1> QED
  BY <1>1, <1>2, <1>3, <1>4, <1>5, <1>6, <1>7, <1>8, <1>9 DEF Next

-----------------------------------------------------------------------------
(* The inductive invariant: rows, bodies, leases and the server *)

RowInv == Registered \subseteq used /\ OneRowPerObject
CountInv == ArchiveSlotReserved /\ ItemsWithinLimits
DataInv == WriteInv /\ LeaseInv /\ WireInv /\ RowInv /\ PendingHasBody /\ SentIsStored

USE DEF Registered, RowOf, Item, OneRowPerObject

\* A step that moves processes between control states and leaves the tables,
\* the bodies and the server as they are keeps DataInv, unless somebody enters
\* one of the states that DataInv speaks about.
LEMMA QuietStep ==
  ASSUME TypeInv, SafeInv,
         UNCHANGED <<disk, stored, wire>>,
         \A p \in Producers : pc'[p] = "written" => pc[p] = "written" /\ arg'[p] = arg[p],
         \A w \in Workers :
            /\ \/ lease'[w] = lease[w]
               \/ lease'[w] = NoLease /\ pc'[w] \in {"idle", "claiming"}
            /\ pc'[w] \notin {"idle", "claiming"} => pc[w] \notin {"idle", "claiming"}
            /\ pc'[w] \in {"answered", "acked", "finish_ok"} =>
                  pc[w] \in {"answered", "acked", "finish_ok"}
            /\ pc'[w] = "unlink" => pc[w] = "unlink"
  PROVE  DataInv' /\ CountInv'
<1> USE DEF SafeInv, DataInv, TypeInv, TypeOK
<1>1. WriteInv' BY DEF WriteInv
<1>2. LeaseInv'
  <2>1. \A w \in Workers : pc'[w] \notin {"idle", "claiming"} => lease'[w] = lease[w]
    OBVIOUS
  <2>2. \A v, w \in Workers : v # w /\ lease'[v].token \in Tokens =>
                                  lease'[v].token # lease'[w].token
    BY BoundAssumption DEF LeaseInv
  <2>3. \A w \in Workers : pc'[w] \notin {"idle", "claiming"} =>
                              lease'[w].id \in Registered' /\ Config[w] = meta'.target
    BY <2>1 DEF LeaseInv
  <2>4. \A w \in Workers : pc'[w] \in {"answered", "acked", "finish_ok"} =>
                              <<meta'.target, Item(w)'>> \in stored'
    BY <2>1 DEF LeaseInv
  <2>5. \A w \in Workers : pc'[w] = "unlink" => lease'[w].id \in archive'
    BY <2>1 DEF LeaseInv
  <2> QED BY <2>2, <2>3, <2>4, <2>5 DEF LeaseInv
<1>3. (WireInv /\ RowInv /\ PendingHasBody /\ SentIsStored /\ CountInv)'
  BY DEF WireInv, RowInv, PendingHasBody, SentIsStored, CountInv, ArchiveSlotReserved,
         ItemsWithinLimits
<1> QED BY <1>1, <1>2, <1>3

LEMMA OpenMutatingData ==
  ASSUME TypeInv, SafeInv, NEW p \in Procs, NEW next, OpenMutating(p, next),
         \/ p \in Producers /\ next = "opened"
         \/ p \in Workers /\ next = "claiming"
         \/ p \in Workers /\ pc[p] = "acked" /\ next = "finish_ok"
         \/ p \in Workers /\ pc[p] = "failed" /\ next = "finish_err"
  PROVE  DataInv' /\ CountInv'
<1> USE DEF SafeInv, DataInv, TypeInv, TypeOK, OpenMutating
<1>1. \A q \in Procs : pc'[q] \notin {"written", "unlink"}
  BY ProcsAssumption DEF LockInv, Locked
<1>2. \A i \in active : file'[i] = file[i]
  BY DEF Cleaned
<1>3. WriteInv' BY <1>1 DEF WriteInv
<1>4. LeaseInv'
  <2>1. \A w \in Workers : pc'[w] \notin {"idle", "claiming"} => pc[w] \notin {"idle", "claiming"}
    BY ProcsAssumption DEF LeaseInv, WorkerPc
  <2>2. \A w \in Workers : pc'[w] \in {"answered", "acked", "finish_ok"} =>
                              pc[w] \in {"answered", "acked", "finish_ok"}
    BY ProcsAssumption
  <2> QED BY <1>1, <2>1, <2>2 DEF LeaseInv
<1>5. (WireInv /\ RowInv /\ SentIsStored /\ CountInv)'
  BY DEF WireInv, RowInv, SentIsStored, CountInv, ArchiveSlotReserved, ItemsWithinLimits
<1>6. PendingHasBody' BY <1>2 DEF PendingHasBody
<1> QED BY <1>3, <1>4, <1>5, <1>6

LEMMA EnqueueStepData ==
  ASSUME TypeInv, SafeInv, NEW p \in Producers, EnqueueStep(p)
  PROVE  DataInv' /\ CountInv'
<1> USE ProcsAssumption
<1>1. CASE CreateLockFile(p)
  <2> USE <1>1 DEF CreateLockFile, SafeInv, DataInv, TypeInv, TypeOK
  <2>1. WriteInv' BY DEF WriteInv
  <2>2. LeaseInv' BY DEF LeaseInv
  <2>3. (WireInv /\ RowInv /\ PendingHasBody /\ SentIsStored /\ CountInv)'
    BY DEF WireInv, RowInv, PendingHasBody, SentIsStored, CountInv, ArchiveSlotReserved,
           ItemsWithinLimits
  <2> QED BY <2>1, <2>2, <2>3
<1>2. CASE InitLock(p) \/ EnqueueDuplicate(p) \/ EnqueueReject(p) \/ EnqueueRefused(p)
  BY <1>2, QuietStep
  DEF InitLock, EnqueueDuplicate, EnqueueReject, EnqueueRefused, TypeInv, TypeOK
<1>3. CASE InitCommit(p)
  <2> USE <1>3 DEF InitCommit, SafeInv, DataInv, TypeInv, TypeOK
  <2>1. /\ active' = {} /\ archive' = {} /\ wire' = {}
        /\ \A w \in Workers : pc'[w] = "idle"
        /\ \A q \in Producers : pc'[q] # "written"
    BY DEF SetupInv
  <2>2. Cardinality(active') = 0 BY <2>1, FS_EmptySet
  <2>3. Cardinality(archive') = 0 BY <2>1, FS_EmptySet
  <2>4. arg[p].limits.items \in Nat BY LimitsAssumption DEF CallOK
  <2>5. CountInv'
    BY <2>2, <2>3, <2>4, BoundAssumption DEF CountInv, ArchiveSlotReserved, ItemsWithinLimits
  <2>6. LeaseInv'
    BY <2>1 DEF LeaseInv
  <2>7. (WriteInv /\ WireInv /\ RowInv /\ PendingHasBody /\ SentIsStored)'
    BY <2>1 DEF WriteInv, WireInv, RowInv, PendingHasBody, SentIsStored
  <2> QED BY <2>5, <2>6, <2>7
<1>4. CASE EnqueueOpen(p)
  BY <1>4, OpenMutatingData DEF EnqueueOpen
<1>5. CASE EnqueueWrite(p)
  <2> USE <1>5 DEF EnqueueWrite, SafeInv, DataInv, TypeInv, TypeOK
  <2> PICK i \in Ids \ used : /\ file' = [file EXCEPT ![i] = arg[p].obj]
                              /\ used' = used \cup {i}
                              /\ Draw(p, i)
    OBVIOUS
  <2>1. \A q \in Producers : pc'[q] = "written" => q = p
    BY DEF LockInv, Locked
  <2>2. WriteInv'
    BY <2>1 DEF WriteInv, RowInv, Admissible
  <2>3. LeaseInv' BY DEF LeaseInv
  <2>4. (WireInv /\ RowInv /\ PendingHasBody /\ SentIsStored /\ CountInv)'
    BY DEF WireInv, RowInv, PendingHasBody, SentIsStored, CountInv, ArchiveSlotReserved,
           ItemsWithinLimits
  <2> QED BY <2>2, <2>3, <2>4
<1>6. CASE EnqueueCommit(p)
  <2> DEFINE i == arg[p].id
  <2> USE <1>6 DEF SafeInv, DataInv, TypeInv, TypeOK
  <2>1. /\ active' = active \cup {i} /\ archive' = archive
        /\ row' = [row EXCEPT ![i] = NewRow(arg[p].obj)]
        /\ meta' = [target |-> meta.target, limits |-> arg[p].limits]
        /\ \E x \in {"ok", "idle"} : pc' = [pc EXCEPT ![p] = x]
        /\ UNCHANGED <<store, file, used, arg, lease, stored, wire>>
        /\ pc[p] = "written" /\ lock = p
    BY DEF EnqueueCommit, LockInv, Locked
  <2>2. /\ i \in Ids /\ i \in used /\ i \notin active /\ i \notin archive
        /\ file[i] = arg[p].obj /\ arg[p].obj \in Objects
        /\ \A j \in Registered : row[j].obj # arg[p].obj
    BY <2>1 DEF WriteInv, CallOK
  <2>3. row'[i].obj = arg[p].obj /\ \A j \in Registered : row'[j] = row[j]
    BY <2>1, <2>2 DEF NewRow
  <2>4. \A q \in Producers : pc'[q] # "written"
    BY <2>1 DEF LockInv, Locked
  <2>5. WriteInv' BY <2>4 DEF WriteInv
  <2>6. LeaseInv'
    BY <2>1, <2>3 DEF LeaseInv
  <2>7. WireInv'
    BY <2>1, <2>3 DEF WireInv
  <2>8. (RowInv /\ PendingHasBody /\ SentIsStored)'
    BY <2>1, <2>2, <2>3 DEF RowInv, PendingHasBody, SentIsStored
  <2>9. CountInv'
    <3>1. IsFiniteSet(active) BY IdsAssumption, FS_Subset
    <3>2. Cardinality(active') = Cardinality(active) + 1
      BY <2>1, <2>2, <3>1, FS_AddElement
    <3>3. Cardinality(active) \in Nat /\ Cardinality(archive) \in Nat
      BY UsedCount
    <3> QED
      BY <2>1, <2>2, <3>2, <3>3, BoundAssumption
      DEF CountInv, ArchiveSlotReserved, ItemsWithinLimits, WriteInv
  <2> QED BY <2>5, <2>6, <2>7, <2>8, <2>9
<1> QED
  BY <1>1, <1>2, <1>3, <1>4, <1>5, <1>6 DEF EnqueueStep

\* A step that only reschedules rows (attempts, retry time, lease) of active
\* items keeps what DataInv says of rows, bodies and counts.
LEMMA Rescheduled ==
  ASSUME TypeInv, SafeInv,
         UNCHANGED <<store, meta, active, archive, file, used, stored, wire>>,
         \A i \in Ids : row'[i].obj = row[i].obj
  PROVE  (WireInv /\ RowInv /\ PendingHasBody /\ SentIsStored /\ CountInv)'
  BY DEF SafeInv, TypeInv, TypeOK, WireInv, RowInv, PendingHasBody, SentIsStored, CountInv,
         ArchiveSlotReserved, ItemsWithinLimits

LEMMA DrainStepData ==
  ASSUME TypeInv, SafeInv, NEW w \in Workers, DrainStep(w) \/ DrainFault(w)
  PROVE  DataInv' /\ CountInv'
<1> USE ProcsAssumption
<1>1. CASE ClaimOpen(w) \/ FinishOpen(w)
  BY <1>1, OpenMutatingData DEF ClaimOpen, FinishOpen
<1>2. CASE Claim(w)
  <2> USE <1>2 DEF SafeInv, DataInv, TypeInv, TypeOK
  <2> PICK i \in Ids, t \in FreshTokens :
           /\ Due(i)
           /\ LET n == Lesser(row[i].attempts + 1, MaxAttempts) IN
                row' = [row EXCEPT ![i] = Scheduled(row[i], n, RetryDelay(n), t, LeaseTicks)]
           /\ lease' = [lease EXCEPT ![w] = [id |-> i, token |-> t]]
    BY DEF Claim
  <2>1. \A j \in Ids : row'[j].obj = row[j].obj
    OBVIOUS
  <2>2. /\ UNCHANGED <<store, meta, active, archive, file, used, arg, stored, wire>>
        /\ pc' = [pc EXCEPT ![w] = "leased"]
        /\ Config[w] = meta.target /\ lock = w
    BY DEF Claim, LockInv, Locked
  <2>3. WriteInv'
    BY <2>2 DEF WriteInv, LockInv, Locked
  <2>4. LeaseInv'
    <3>1. i \in Registered BY DEF Due
    <3>2. \A v \in Workers : lease[v].token # t BY DEF FreshTokens
    <3> QED BY <2>1, <2>2, <3>1, <3>2 DEF LeaseInv
  <2> QED BY <2>1, <2>2, <2>3, <2>4, Rescheduled
<1>3. CASE ClaimNothing(w) \/ ReadSnapshot(w) \/ ServeConflict(w) \/ ReceiveReceipt(w)
  BY <1>3, QuietStep
  DEF ClaimNothing, ReadSnapshot, ServeConflict, ReceiveReceipt, TypeInv, TypeOK
<1>4. CASE LoseReceipt(w) \/ FinishRefused(w) \/ FinishStale(w)
  BY <1>4, QuietStep DEF LoseReceipt, FinishRefused, FinishStale, TypeInv, TypeOK
<1>5. CASE Serve(w)
  <2> USE <1>5 DEF Serve, SafeInv, DataInv, TypeInv, TypeOK
  <2>1. WriteInv' BY DEF WriteInv
  <2>2. LeaseInv' BY DEF LeaseInv
  <2>3. (WireInv /\ RowInv /\ PendingHasBody /\ SentIsStored /\ CountInv)'
    BY DEF WireInv, RowInv, PendingHasBody, SentIsStored, CountInv, ArchiveSlotReserved,
           ItemsWithinLimits
  <2> QED BY <2>1, <2>2, <2>3
<1>6. CASE RequestTimeout(w)
  <2> USE <1>6 DEF RequestTimeout, SafeInv, DataInv, TypeInv, TypeOK
  <2>1. WriteInv' BY DEF WriteInv
  <2>2. LeaseInv' BY DEF LeaseInv
  <2>3. WireInv' BY DEF WireInv, LeaseInv
  <2>4. (RowInv /\ PendingHasBody /\ SentIsStored /\ CountInv)'
    BY DEF RowInv, PendingHasBody, SentIsStored, CountInv, ArchiveSlotReserved,
           ItemsWithinLimits
  <2> QED BY <2>1, <2>2, <2>3, <2>4
<1>7. CASE FinishSent(w)
  <2> DEFINE i == lease[w].id
  <2> USE <1>7 DEF SafeInv, DataInv, TypeInv, TypeOK
  <2>1. /\ active' = active \ {i} /\ archive' = archive \cup {i}
        /\ UNCHANGED <<store, meta, file, used, arg, lease, stored, wire>>
        /\ pc' = [pc EXCEPT ![w] = "unlink"]
        /\ i \in active /\ i \in Ids /\ i \notin archive /\ lock = w
    BY DEF FinishSent, Owns, LockInv, Locked
  <2>2. \A j \in Ids : row'[j].obj = row[j].obj
    BY DEF FinishSent
  <2>3. WriteInv'
    BY <2>1 DEF WriteInv, LockInv, Locked
  <2>4. LeaseInv'
    <3>1. /\ \A v \in Workers : pc'[v] \notin {"idle", "claiming"} =>
                lease'[v].id \in Registered' /\ Config[v] = meta'.target
          /\ \A v \in Workers : pc'[v] = "unlink" => lease'[v].id \in archive'
      BY <2>1, <1>7 DEF LeaseInv, FinishSent
    <3>2. \A u, v \in Workers : u # v /\ lease'[u].token \in Tokens =>
                                    lease'[u].token # lease'[v].token
      BY <2>1 DEF LeaseInv
    <3>3. \A v \in Workers : pc'[v] \in {"answered", "acked", "finish_ok"} =>
                                <<meta'.target, Item(v)'>> \in stored'
      BY <2>1, <2>2 DEF LeaseInv, CallOK
    <3> QED BY <3>1, <3>2, <3>3 DEF LeaseInv
  <2>5. WireInv'
    BY <2>1, <2>2 DEF WireInv
  <2>6. RowInv' /\ PendingHasBody'
    BY <2>1, <2>2 DEF RowInv, PendingHasBody
  <2>7. SentIsStored'
    BY <2>1, <2>2 DEF SentIsStored, LeaseInv, FinishSent
  <2>8. CountInv'
    <3>1. IsFiniteSet(active) /\ IsFiniteSet(archive) BY IdsAssumption, FS_Subset
    <3>2. Cardinality(active \ {i}) = Cardinality(active) - 1
      <4> HIDE DEF i
      <4> QED BY <2>1, <3>1, FS_RemoveElement
    <3>3. Cardinality(archive') = Cardinality(archive) + 1
      BY <2>1, <3>1, FS_AddElement
    <3>4. Cardinality(active) \in Nat /\ Cardinality(archive) \in Nat
      BY UsedCount
    <3> QED
      BY <2>1, <3>2, <3>3, <3>4, BoundAssumption
      DEF CountInv, ArchiveSlotReserved, ItemsWithinLimits
  <2> QED BY <2>3, <2>4, <2>5, <2>6, <2>7, <2>8
<1>8. CASE FinishUnlink(w)
  <2> USE <1>8 DEF SafeInv, DataInv, TypeInv, TypeOK
  <2>1. /\ file' = [file EXCEPT ![lease[w].id] = NoFile]
        /\ UNCHANGED <<store, meta, active, archive, row, used, arg, stored, wire>>
        /\ lease' = [lease EXCEPT ![w] = NoLease]
        /\ pc' = [pc EXCEPT ![w] = "idle"]
        /\ lease[w].id \notin active /\ lock = w
    BY DEF FinishUnlink, LockInv, Locked, LeaseInv
  <2>2. WriteInv' BY <2>1 DEF WriteInv, LockInv, Locked
  <2>3. LeaseInv' BY <2>1, BoundAssumption DEF LeaseInv
  <2>4. (WireInv /\ RowInv /\ PendingHasBody /\ SentIsStored /\ CountInv)'
    BY <2>1 DEF WireInv, RowInv, PendingHasBody, SentIsStored, CountInv, ArchiveSlotReserved,
           ItemsWithinLimits
  <2> QED BY <2>2, <2>3, <2>4
<1>9. CASE FinishFailed(w)
  <2> USE <1>9 DEF SafeInv, DataInv, TypeInv, TypeOK
  <2>1. /\ UNCHANGED <<store, meta, active, archive, file, used, arg, stored, wire>>
        /\ lease' = [lease EXCEPT ![w] = NoLease]
        /\ pc' = [pc EXCEPT ![w] = "idle"]
        /\ lock = w
    BY DEF FinishFailed, LockInv, Locked
  <2>2. \A j \in Ids : row'[j].obj = row[j].obj
    BY DEF FinishFailed
  <2>3. WriteInv' BY <2>1 DEF WriteInv, LockInv, Locked
  <2>4. LeaseInv'
    <3>1. \A u, v \in Workers : u # v /\ lease'[u].token \in Tokens =>
                                    lease'[u].token # lease'[v].token
      BY <2>1, BoundAssumption DEF LeaseInv
    <3>2. \A v \in Workers : pc'[v] # "idle" => lease'[v] = lease[v] /\ pc'[v] = pc[v]
      BY <2>1
    <3>3. \A v \in Workers : pc'[v] \in {"answered", "acked", "finish_ok"} =>
                                <<meta'.target, Item(v)'>> \in stored'
      BY <2>1, <2>2, <3>2 DEF LeaseInv, CallOK
    <3> QED BY <2>1, <3>1, <3>2, <3>3 DEF LeaseInv
  <2> QED BY <2>1, <2>2, <2>3, <2>4, Rescheduled
<1> QED
  BY <1>1, <1>2, <1>3, <1>4, <1>5, <1>6, <1>7, <1>8, <1>9 DEF DrainStep, DrainFault

LEMMA DataStep == ASSUME TypeInv, SafeInv, [Next]_vars PROVE DataInv' /\ CountInv'
<1> USE ProcsAssumption
<1>1. ASSUME NEW p \in Producers, NEW o \in Objects, NEW lim \in Limits, EnqueueCall(p, o, lim)
      PROVE  DataInv' /\ CountInv'
  BY <1>1, QuietStep DEF EnqueueCall, TypeInv, TypeOK
<1>2. ASSUME NEW p \in Producers, EnqueueStep(p) PROVE DataInv' /\ CountInv'
  BY <1>2, EnqueueStepData
<1>3. ASSUME NEW w \in Workers, DrainStep(w) \/ DrainFault(w) PROVE DataInv' /\ CountInv'
  BY <1>3, DrainStepData
<1>4. ASSUME NEW r \in Targets \X Objects, ServeLate(r) PROVE DataInv' /\ CountInv'
  <2> USE <1>4 DEF ServeLate, SafeInv, DataInv, TypeInv, TypeOK
  <2>1. WriteInv' BY DEF WriteInv
  <2>2. stored \subseteq stored' OBVIOUS
  <2>3. LeaseInv' BY <2>2 DEF LeaseInv
  <2>4. (WireInv /\ RowInv /\ PendingHasBody /\ SentIsStored /\ CountInv)'
    BY <2>2 DEF WireInv, RowInv, PendingHasBody, SentIsStored, CountInv, ArchiveSlotReserved,
           ItemsWithinLimits
  <2> QED BY <2>1, <2>3, <2>4
<1>5. ASSUME NEW p \in Procs, Crash(p) PROVE DataInv' /\ CountInv'
  <2>1. CASE p \in Workers
    BY <1>5, <2>1, QuietStep DEF Crash, TypeInv, TypeOK
  <2>2. CASE p \in Producers
    BY <1>5, <2>2, QuietStep DEF Crash, TypeInv, TypeOK
  <2> QED BY <2>1, <2>2
<1>6. ASSUME NEW i \in Ids, Damage(i) PROVE DataInv' /\ CountInv'
  <2> USE <1>6 DEF Damage, SafeInv, DataInv, TypeInv, TypeOK
  <2>1. WriteInv' BY DEF WriteInv, LockInv, Locked
  <2>2. LeaseInv' BY DEF LeaseInv
  <2>3. (WireInv /\ RowInv /\ PendingHasBody /\ SentIsStored /\ CountInv)'
    BY DEF WireInv, RowInv, PendingHasBody, SentIsStored, CountInv, ArchiveSlotReserved,
           ItemsWithinLimits
  <2> QED BY <2>1, <2>2, <2>3
<1>7. CASE Tick
  <2> USE DEF SafeInv, DataInv, TypeInv, TypeOK
  <2>1. UNCHANGED <<store, lock, meta, active, archive, file, used, pc, arg, lease, stored, wire>>
    BY <1>7 DEF Tick
  <2>2. row' = [i \in Ids |-> IF i \in active THEN Countdown(row[i]) ELSE row[i]]
    BY <1>7 DEF Tick
  <2>3. \A i \in Ids : row'[i].obj = row[i].obj
    BY <2>2 DEF Countdown
  <2>4. WriteInv' BY <2>1, <2>3 DEF WriteInv
  <2>5. LeaseInv' BY <2>1, <2>3 DEF LeaseInv, CallOK
  <2> QED BY <2>1, <2>3, <2>4, <2>5, Rescheduled
<1>8. CASE UNCHANGED vars
  BY <1>8, QuietStep DEF vars, TypeInv, TypeOK
<1> QED
  BY <1>1, <1>2, <1>3, <1>4, <1>5, <1>6, <1>7, <1>8 DEF Next

LEMMA InitSafe == Init => SafeInv
<1> SUFFICES ASSUME Init PROVE SafeInv OBVIOUS
<1> USE ProcsAssumption, BoundAssumption DEF Init
<1>1. LockInv /\ SetupInv /\ WriteInv BY DEF LockInv, Locked, SetupInv, WriteInv
<1>2. LeaseInv /\ WireInv BY DEF LeaseInv, WireInv
<1>3. Registered \subseteq used /\ OneRowPerObject /\ PendingHasBody /\ SentIsStored
  BY DEF PendingHasBody, SentIsStored
<1>4. Cardinality({}) = 0 BY FS_EmptySet
<1>5. ArchiveSlotReserved /\ ItemsWithinLimits
  BY <1>4 DEF ArchiveSlotReserved, ItemsWithinLimits
<1> QED BY <1>1, <1>2, <1>3, <1>5 DEF SafeInv

LEMMA SafeStep == ASSUME TypeInv, SafeInv, [Next]_vars PROVE SafeInv'
  BY LockStep, SetupStep, DataStep DEF SafeInv, DataInv, CountInv, RowInv

-----------------------------------------------------------------------------
(* Safety *)

LEMMA Invariance == Spec => [](TypeInv /\ SafeInv)
<1>1. Init => TypeInv /\ SafeInv BY InitType, InitSafe
<1>2. TypeInv /\ SafeInv /\ [Next]_vars => (TypeInv /\ SafeInv)' BY NextType, SafeStep
<1> QED BY <1>1, <1>2, PTL DEF Spec

\* No body of an item that is not yet sent is ever removed, whatever process
\* is killed where.
THEOREM BodiesKept == Spec => []PendingHasBody
<1>1. SafeInv => PendingHasBody BY DEF SafeInv
<1> QED BY <1>1, Invariance, PTL

\* An archived item is held by the pinned server.
THEOREM ArchiveIsTrue == Spec => []SentIsStored
<1>1. SafeInv => SentIsStored BY DEF SafeInv
<1> QED BY <1>1, Invariance, PTL

\* An object has one row at most, over both tables.
THEOREM NoDuplicateRows == Spec => []OneRowPerObject
<1>1. SafeInv => OneRowPerObject BY DEF SafeInv
<1> QED BY <1>1, Invariance, PTL

\* The archive never needs more slots than it has.
THEOREM SlotsSuffice == Spec => []ArchiveSlotReserved
<1>1. SafeInv => ArchiveSlotReserved BY DEF SafeInv
<1> QED BY <1>1, Invariance, PTL

\* No two workers own one item.
THEOREM ExclusiveLeases == Spec => []LeaseExclusive
<1>1. TypeInv /\ SafeInv => LeaseExclusive
  BY BoundAssumption, IdsAssumption DEF SafeInv, LeaseInv, LeaseExclusive, Owns, TypeInv, TypeOK, CallOK
<1> QED BY <1>1, Invariance, PTL

-----------------------------------------------------------------------------
(* What a step may do to the tables *)

Kept == UNCHANGED <<meta, active, archive, row, stored>>

Registers == \E p \in Producers :
    /\ EnqueueCommit(p) /\ pc[p] = "written" /\ lock = p
    /\ arg[p].id \in Ids \ Registered /\ arg[p].obj \in Objects
    /\ \A j \in Registered : row[j].obj # arg[p].obj

Sends == \E w \in Workers : FinishSent(w) /\ lease[w].id \in active \ archive

Stores == \E r \in Targets \X Objects :
    /\ stored' \in {stored, stored \cup {r}} /\ UNCHANGED <<meta, active, archive, row>>
    /\ r[1] = meta.target /\ \E i \in Registered : row[i].obj = r[2]

Reschedules ==
    \/ \E w \in Workers : Claim(w) \/ FinishFailed(w)
    \/ Tick

SetsUp == \E p \in Producers : InitCommit(p) /\ stored = {} /\ active = {} /\ archive = {}

\* Every step leaves the tables alone or is one of five kinds.
LEMMA StepKinds ==
  ASSUME TypeInv, SafeInv, [Next]_vars
  PROVE  Kept \/ Registers \/ Sends \/ Stores \/ Reschedules \/ SetsUp
<1> USE DEF SafeInv, TypeInv
<1>1. ASSUME NEW p \in Producers, EnqueueStep(p) PROVE Kept \/ Registers \/ SetsUp
  <2>1. CASE EnqueueCommit(p)
    BY <1>1, <2>1 DEF Registers, WriteInv, CallOK, LockInv, Locked, EnqueueCommit
  <2>2. CASE InitCommit(p)
    BY <1>1, <2>2 DEF SetsUp, SetupInv, InitCommit
  <2>3. CASE CreateLockFile(p) \/ InitLock(p) \/ EnqueueOpen(p) \/ EnqueueDuplicate(p)
             \/ EnqueueReject(p) \/ EnqueueWrite(p) \/ EnqueueRefused(p)
    BY <1>1, <2>3 DEF Kept, CreateLockFile, InitLock, EnqueueOpen, OpenMutating,
                      EnqueueDuplicate, EnqueueReject, EnqueueWrite, EnqueueRefused
  <2> QED BY <1>1, <2>1, <2>2, <2>3 DEF EnqueueStep
<1>2. ASSUME NEW w \in Workers, DrainStep(w) \/ DrainFault(w)
      PROVE  Kept \/ Sends \/ Stores \/ Reschedules
  <2>1. CASE FinishSent(w)
    BY <2>1 DEF Sends, FinishSent, Owns
  <2>2. CASE Serve(w)
    <3>1. /\ <<Config[w], Item(w)>> \in Targets \X Objects
          /\ Config[w] = meta.target /\ lease[w].id \in Registered
      BY <2>2, ConfigAssumption DEF Serve, LeaseInv, CallOK, TypeOK
    <3> QED BY <2>2, <3>1 DEF Serve, Stores
  <2>3. CASE Claim(w) \/ FinishFailed(w)
    BY <2>3 DEF Reschedules
  <2>4. CASE ClaimOpen(w) \/ ClaimNothing(w) \/ ReadSnapshot(w) \/ ServeConflict(w)
             \/ ReceiveReceipt(w) \/ FinishOpen(w) \/ FinishStale(w) \/ FinishUnlink(w)
    BY <2>4 DEF Kept, ClaimOpen, OpenMutating, ClaimNothing, ReadSnapshot, ServeConflict,
                ReceiveReceipt, FinishOpen, FinishStale, FinishUnlink
  <2>5. CASE DrainFault(w)
    BY <2>5 DEF Kept, DrainFault, RequestTimeout, LoseReceipt, FinishRefused
  <2> QED BY <1>2, <2>1, <2>2, <2>3, <2>4, <2>5 DEF DrainStep
<1>3. ASSUME NEW r \in Targets \X Objects, ServeLate(r) PROVE Stores
  <2>1. r[1] = meta.target /\ \E i \in Registered : row[i].obj = r[2]
    BY <1>3 DEF ServeLate, WireInv
  <2> QED BY <1>3, <2>1 DEF ServeLate, Stores
<1>4. ASSUME NEW p \in Producers, NEW o \in Objects, NEW lim \in Limits, EnqueueCall(p, o, lim)
      PROVE  Kept
  BY <1>4 DEF Kept, EnqueueCall
<1>5. ASSUME NEW p \in Procs, Crash(p) PROVE Kept
  BY <1>5 DEF Kept, Crash
<1>6. ASSUME NEW i \in Ids, Damage(i) PROVE Kept
  BY <1>6 DEF Kept, Damage
<1>7. CASE Tick
  BY <1>7 DEF Reschedules
<1>8. CASE UNCHANGED vars
  BY <1>8 DEF vars, Kept
<1> QED
  BY <1>1, <1>2, <1>3, <1>4, <1>5, <1>6, <1>7, <1>8 DEF Next

LEMMA ReschedulesKeeps ==
  ASSUME TypeInv, SafeInv, Reschedules
  PROVE  /\ UNCHANGED <<meta, active, archive, stored>>
         /\ \A i \in Ids : row'[i].obj = row[i].obj
         /\ \A i \in active : row[i].left > 0 /\ row'[i].token # row[i].token =>
               \E w \in Workers : /\ pc[w] \in {"finish_ok", "finish_err"}
                                  /\ lease[w] = [id |-> i, token |-> row[i].token]
<1> USE DEF TypeInv, TypeOK
<1>1. ASSUME NEW w \in Workers, Claim(w)
      PROVE  /\ UNCHANGED <<meta, active, archive, stored>>
             /\ \A i \in Ids : row'[i].obj = row[i].obj
             /\ \A i \in active : row[i].left > 0 => row'[i].token = row[i].token
  <2> PICK i \in Ids, t \in FreshTokens :
           /\ Due(i)
           /\ LET n == Lesser(row[i].attempts + 1, MaxAttempts) IN
                row' = [row EXCEPT ![i] = Scheduled(row[i], n, RetryDelay(n), t, LeaseTicks)]
    BY <1>1 DEF Claim
  <2> QED BY <1>1 DEF Claim, Due
<1>2. ASSUME NEW w \in Workers, FinishFailed(w)
      PROVE  /\ UNCHANGED <<meta, active, archive, stored>>
             /\ \A i \in Ids : row'[i].obj = row[i].obj
             /\ \A i \in active : row'[i].token # row[i].token =>
                   lease[w] = [id |-> i, token |-> row[i].token]
  <2>1. /\ row' = [row EXCEPT ![lease[w].id] = Scheduled(row[lease[w].id],
                       row[lease[w].id].attempts, RetryDelay(row[lease[w].id].attempts), None, 0)]
        /\ UNCHANGED <<meta, active, archive, stored>>
        /\ lease[w].token = row[lease[w].id].token
    BY <1>2 DEF FinishFailed, Owns
  <2>2. \A i \in Ids : i # lease[w].id => row'[i] = row[i]
    BY <2>1
  <2> QED BY <2>1, <2>2
<1>3. ASSUME Tick
      PROVE  /\ UNCHANGED <<meta, active, archive, stored>>
             /\ \A i \in Ids : row'[i].obj = row[i].obj /\ row'[i].token = row[i].token
  <2>1. row' = [i \in Ids |-> IF i \in active THEN Countdown(row[i]) ELSE row[i]]
    BY <1>3 DEF Tick
  <2> QED BY <1>3, <2>1 DEF Tick, Countdown
<1>4. \A w \in Workers : FinishFailed(w) => pc[w] = "finish_err"
  BY DEF FinishFailed
<1> QED
  BY <1>1, <1>2, <1>3, <1>4 DEF Reschedules

\* A registered item stays registered, as the same object.
THEOREM ItemsNeverForgotten == Spec => NeverForgotten
<1>1. ASSUME TypeInv, SafeInv, [Next]_vars
      PROVE  [/\ active \subseteq active' \cup archive' /\ archive \subseteq archive'
              /\ \A i \in Registered : row'[i].obj = row[i].obj]_vars
  <2> USE DEF TypeInv, TypeOK
  <2>1. CASE Kept BY <2>1 DEF Kept
  <2>2. CASE Registers BY <2>2 DEF Registers, EnqueueCommit
  <2>3. CASE Sends BY <2>3 DEF Sends, FinishSent
  <2>4. CASE Stores BY <2>4 DEF Stores
  <2>5. CASE Reschedules BY <1>1, <2>5, ReschedulesKeeps
  <2>6. CASE SetsUp BY <2>6 DEF SetsUp, InitCommit
  <2> QED BY <1>1, <2>1, <2>2, <2>3, <2>4, <2>5, <2>6, StepKinds
<1> QED BY <1>1, Invariance, PTL DEF NeverForgotten, Spec

\* A valid lease is ended by its holder alone.
THEOREM LateAnswersHarmless == Spec => OnlyHolderEndsLease
<1> DEFINE Held(i) == \E w \in Workers : /\ pc[w] \in {"finish_ok", "finish_err"}
                                         /\ lease[w] = [id |-> i, token |-> row[i].token]
<1>1. ASSUME TypeInv, SafeInv, [Next]_vars
      PROVE  [\A i \in active : row[i].left > 0 /\ (i \notin active' \/ row'[i].token # row[i].token)
                                  => Held(i)]_vars
  <2> USE DEF TypeInv, TypeOK
  <2>1. CASE Kept BY <2>1 DEF Kept
  <2>2. CASE Registers BY <2>2 DEF Registers, EnqueueCommit
  <2>3. CASE Sends
    <3> PICK w \in Workers : FinishSent(w) /\ lease[w].id \in active \ archive
      BY <2>3 DEF Sends
    <3>1. /\ pc[w] = "finish_ok" /\ lease[w].token = row[lease[w].id].token
          /\ active' = active \ {lease[w].id}
          /\ \A i \in Ids : i # lease[w].id => row'[i] = row[i]
      BY DEF FinishSent, Owns
    <3>2. lease[w] = [id |-> lease[w].id, token |-> row[lease[w].id].token]
      BY <3>1, <1>1
    <3>3. Held(lease[w].id)
      BY <3>1, <3>2
    <3> HIDE DEF Held
    <3>4. \A i \in active : i # lease[w].id => i \in active' /\ row'[i] = row[i]
      BY <3>1, <1>1
    <3> QED BY <3>3, <3>4
  <2>4. CASE Stores BY <2>4 DEF Stores
  <2>5. CASE Reschedules BY <1>1, <2>5, ReschedulesKeeps
  <2>6. CASE SetsUp BY <2>6 DEF SetsUp, InitCommit
  <2> QED BY <1>1, <2>1, <2>2, <2>3, <2>4, <2>5, <2>6, StepKinds
<1> QED BY <1>1, Invariance, PTL DEF OnlyHolderEndsLease, Spec
\* After enqueue returned an item, its body is in the queue, intact, or the
\* caller's server has it.
THEOREM ReturnedItemsAreSafe == Spec => ReturnedIsSafe
<1> DEFINE Safe(p) == \/ arg'[p].id \in active' /\ file'[arg'[p].id] = arg[p].obj
                      \/ arg'[p].id \in archive' /\ <<Config[p], arg[p].obj>> \in stored'
<1>1. ASSUME TypeInv, SafeInv, [Next]_vars
      PROVE  [\A p \in Producers : pc[p] # "ok" /\ pc'[p] = "ok" => Safe(p)]_vars
  <2> SUFFICES ASSUME NEW p \in Producers, pc[p] # "ok", pc'[p] = "ok"
               PROVE  Safe(p)
    OBVIOUS
  <2> USE DEF TypeInv, TypeOK
  <2>1. EnqueueDuplicate(p) \/ EnqueueCommit(p)
    <3>1. \A q \in Procs, s \in ProducerPc \cup WorkerPc : Goto(q, s) /\ (q # p \/ s # "ok") => pc'[p] # "ok"
      BY <1>1 DEF Goto
    <3>2. pc' # pc OBVIOUS
    <3>3. ASSUME NEW q \in Producers, EnqueueStep(q)
          PROVE  EnqueueDuplicate(p) \/ EnqueueCommit(p)
      <4>1. CASE EnqueueDuplicate(q) BY <3>1, <4>1 DEF EnqueueDuplicate, Unlock, Procs, ProducerPc
      <4>2. CASE EnqueueCommit(q) BY <3>1, <4>2 DEF EnqueueCommit, Unlock, Procs, ProducerPc
      <4>3. CASE CreateLockFile(q) \/ InitLock(q) \/ InitCommit(q) \/ EnqueueOpen(q)
                 \/ EnqueueReject(q) \/ EnqueueWrite(q) \/ EnqueueRefused(q)
        BY <3>1, <4>3 DEF CreateLockFile, InitLock, InitCommit, EnqueueOpen, OpenMutating,
              EnqueueReject, EnqueueWrite, EnqueueRefused, Unlock, Procs, ProducerPc
      <4> QED BY <3>3, <4>1, <4>2, <4>3 DEF EnqueueStep
    <3>4. ASSUME NEW w \in Workers, DrainStep(w) \/ DrainFault(w) PROVE FALSE
      <4> w # p /\ w \in Procs BY ProcsAssumption DEF Procs
      <4>1. \A s \in WorkerPc : ~Goto(w, s) BY <3>1
      <4> QED
        BY <3>4, <4>1 DEF DrainStep, DrainFault, ClaimOpen, OpenMutating, Claim, ClaimNothing,
            ReadSnapshot, Serve, ServeConflict, ReceiveReceipt, FinishOpen, FinishStale,
            FinishSent, FinishUnlink, FinishFailed, RequestTimeout, LoseReceipt,
            FinishRefused, Unlock, WorkerPc
    <3>5. ASSUME NEW q \in Producers, NEW o \in Objects, NEW lim \in Limits, EnqueueCall(q, o, lim)
          PROVE  FALSE
      BY <3>1, <3>5 DEF EnqueueCall, Procs, ProducerPc
    <3>6. ASSUME NEW q \in Procs, Crash(q) PROVE FALSE
      BY <3>1, <3>6 DEF Crash, ProducerPc
    <3>7. \A r \in Targets \X Objects : ~ServeLate(r) BY <3>2 DEF ServeLate
    <3>8. (\A i \in Ids : ~Damage(i)) /\ ~Tick BY <3>2 DEF Damage, Tick
    <3>9. ~UNCHANGED vars BY <3>2 DEF vars
    <3> QED BY <1>1, <3>3, <3>4, <3>5, <3>6, <3>7, <3>8, <3>9 DEF Next
  <2>2. CASE EnqueueDuplicate(p)
    <3> PICK i \in RowOf(arg[p].obj) : (i \in archive \/ file[i] = arg[p].obj) /\ Draw(p, i)
      BY <2>2 DEF EnqueueDuplicate
    <3>1. i \in Registered /\ row[i].obj = arg[p].obj /\ arg'[p].id = i
      BY <1>1 DEF RowOf, Draw
    <3>2. UNCHANGED <<active, archive, file, stored>> /\ Config[p] = meta.target
      BY <2>2 DEF EnqueueDuplicate, disk, remote
    <3> QED BY <1>1, <3>1, <3>2 DEF SafeInv, SentIsStored, Registered
  <2>3. CASE EnqueueCommit(p)
    BY <1>1, <2>3 DEF EnqueueCommit, SafeInv, WriteInv
  <2> QED BY <2>1, <2>2, <2>3
<1> QED BY <1>1, Invariance, PTL DEF ReturnedIsSafe, Spec

-----------------------------------------------------------------------------
(* The queue implements VaultDelivery *)

queued == {row[i].obj : i \in active}
confirmed == {row[i].obj : i \in archive}
delivered == {o \in Objects : <<meta.target, o>> \in stored}

LEMMA RescheduleStutters ==
  ASSUME TypeInv, SafeInv, Kept \/ Reschedules
  PROVE  UNCHANGED <<queued, delivered, confirmed>>
<1>1. CASE Kept BY <1>1 DEF Kept, queued, delivered, confirmed
<1>2. CASE Reschedules
  <2>1. /\ UNCHANGED <<meta, active, archive, stored>>
        /\ \A i \in Ids : row'[i].obj = row[i].obj
    BY <1>2, ReschedulesKeeps
  <2>2. active \subseteq Ids /\ archive \subseteq Ids BY DEF TypeInv, TypeOK
  <2> QED BY <2>1, <2>2 DEF queued, delivered, confirmed
<1> QED BY <1>1, <1>2

LEMMA SetUpStutters ==
  ASSUME SetsUp
  PROVE  UNCHANGED <<queued, delivered, confirmed>>
<1> PICK p \in Producers : InitCommit(p) /\ stored = {} /\ active = {} /\ archive = {}
  BY DEF SetsUp
<1>1. stored' = {} /\ active' = {} /\ archive' = {} BY DEF InitCommit
<1> QED BY <1>1 DEF queued, delivered, confirmed

LEMMA RegisterAccepts ==
  ASSUME TypeInv, SafeInv, Registers
  PROVE  \E new \in SUBSET Objects : /\ new \cap (queued \cup confirmed) = {}
                                     /\ queued' = queued \cup new
                                     /\ UNCHANGED <<delivered, confirmed>>
<1> USE DEF TypeInv, TypeOK
<1> PICK p \in Producers :
         /\ EnqueueCommit(p) /\ arg[p].id \in Ids \ Registered /\ arg[p].obj \in Objects
         /\ \A j \in Registered : row[j].obj # arg[p].obj
  BY DEF Registers
<1>1. /\ active' = active \cup {arg[p].id} /\ UNCHANGED <<archive, stored>>
      /\ meta'.target = meta.target
      /\ row'[arg[p].id].obj = arg[p].obj
      /\ \A i \in Registered : row'[i].obj = row[i].obj
  BY DEF EnqueueCommit, NewRow
<1>2. {arg[p].obj} \cap (queued \cup confirmed) = {}
  BY DEF queued, confirmed, Registered
<1>3. queued' = queued \cup {arg[p].obj}
  BY <1>1 DEF queued, Registered
<1>4. UNCHANGED <<delivered, confirmed>>
  BY <1>1 DEF delivered, confirmed, Registered
<1>5. {arg[p].obj} \in SUBSET Objects OBVIOUS
<1> QED BY <1>2, <1>3, <1>4, <1>5

LEMMA StoreDelivers ==
  ASSUME TypeInv, SafeInv, Stores
  PROVE  \/ UNCHANGED <<queued, delivered, confirmed>>
         \/ \E o \in Objects : /\ o \in queued
                               /\ delivered' = delivered \cup {o}
                               /\ UNCHANGED <<queued, confirmed>>
<1> USE DEF TypeInv, TypeOK
<1> PICK t \in Targets, o \in Objects :
         /\ stored' \in {stored, stored \cup {<<t, o>>}} /\ UNCHANGED <<meta, active, archive, row>>
         /\ t = meta.target /\ \E i \in Registered : row[i].obj = o
  BY DEF Stores
<1>1. UNCHANGED <<queued, confirmed>> BY DEF queued, confirmed
<1>2. CASE stored' = stored BY <1>1, <1>2 DEF delivered
<1>3. CASE stored' = stored \cup {<<t, o>>}
  <2>1. delivered' = delivered \cup {o} BY <1>3 DEF delivered
  <2>2. CASE o \in queued BY <1>1, <2>1, <2>2
  <2>3. CASE o \notin queued
    <3>1. PICK i \in archive : row[i].obj = o BY <2>3 DEF queued, Registered
    <3>2. <<meta.target, o>> \in stored BY <3>1 DEF SafeInv, SentIsStored
    <3>3. o \in delivered BY <3>2 DEF delivered
    <3> QED BY <1>1, <2>1, <3>3
  <2> QED BY <2>2, <2>3
<1> QED BY <1>2, <1>3

LEMMA SendConfirms ==
  ASSUME TypeInv, SafeInv, Sends
  PROVE  \E o \in Objects : /\ o \in queued \cap delivered
                            /\ queued' = queued \ {o}
                            /\ confirmed' = confirmed \cup {o}
                            /\ UNCHANGED delivered
<1> USE DEF TypeInv, TypeOK, SafeInv
<1> PICK w \in Workers : FinishSent(w) /\ lease[w].id \in active \ archive BY DEF Sends
<1>1. /\ pc[w] = "finish_ok"
      /\ active' = active \ {lease[w].id} /\ archive' = archive \cup {lease[w].id}
      /\ UNCHANGED <<meta, stored>>
      /\ row' = [row EXCEPT ![lease[w].id] =
                   Scheduled(row[lease[w].id], row[lease[w].id].attempts, 0, None, 0)]
  BY DEF FinishSent
<1>2. \A i \in Ids : row'[i].obj = row[i].obj BY <1>1 DEF Scheduled
<1>3. Item(w) \in Objects /\ <<meta.target, Item(w)>> \in stored
  BY <1>1 DEF LeaseInv, CallOK
<1>4. Item(w) \in queued \cap delivered
  BY <1>3 DEF queued, delivered, Item
<1>5. \A i \in active \ {lease[w].id} : row[i].obj # Item(w)
  BY DEF OneRowPerObject, Item, Registered
<1>6. queued' = queued \ {Item(w)}
  BY <1>1, <1>2, <1>5 DEF queued, Item
<1>7. confirmed' = confirmed \cup {Item(w)}
  BY <1>1, <1>2 DEF confirmed, Item
<1>8. UNCHANGED delivered BY <1>1 DEF delivered
<1> QED BY <1>3, <1>4, <1>6, <1>7, <1>8

\* Every behaviour of the queue is one of VaultDelivery: an object is accepted
\* once, delivered while it is queued, confirmed after it was delivered.
THEOREM QueueImplementsDelivery == Spec => DeliverySpec
<1>1. Init => Delivery!Init
  <2> SUFFICES ASSUME Init PROVE Delivery!Init OBVIOUS
  <2>1. active = {} /\ archive = {} /\ stored = {} BY DEF Init
  <2> QED BY <2>1 DEF Delivery!Init
<1>2. ASSUME TypeInv, SafeInv, [Next]_vars PROVE [Delivery!Next]_(Delivery!vars)
  <2> USE DEF queued, delivered, confirmed
  <2>1. CASE Kept \/ Reschedules
    BY <1>2, <2>1, RescheduleStutters DEF Delivery!vars
  <2>2. CASE SetsUp
    BY <2>2, SetUpStutters DEF Delivery!vars
  <2>3. CASE Registers
    BY <1>2, <2>3, RegisterAccepts DEF Delivery!Next, Delivery!Accept
  <2>4. CASE Stores
    BY <1>2, <2>4, StoreDelivers DEF Delivery!Next, Delivery!Deliver, Delivery!vars
  <2>5. CASE Sends
    BY <1>2, <2>5, SendConfirms DEF Delivery!Next, Delivery!Confirm
  <2> QED BY <1>2, <2>1, <2>2, <2>3, <2>4, <2>5, StepKinds
<1> QED BY <1>1, <1>2, Invariance, PTL DEF DeliverySpec, Delivery!Spec, Spec

-----------------------------------------------------------------------------
(* The byte limit *)

Cells(f, S) == UNION {{i} \X (1 .. f[i]) : i \in S}

\* A sum over finitely many items is the size of a finite set.
LEMMA CellsFinite ==
  ASSUME NEW f \in [Ids -> Nat], NEW S, S \subseteq Ids
  PROVE  IsFiniteSet(Cells(f, S)) /\ Cardinality(Cells(f, S)) \in Nat
<1> DEFINE All == {{i} \X (1 .. f[i]) : i \in S}
           g == [i \in S |-> {i} \X (1 .. f[i])]
<1>1. g \in Surjection(S, All) BY DEF Surjection
<1>2. IsFiniteSet(S) BY IdsAssumption, FS_Subset
<1>3. IsFiniteSet(All) BY <1>1, <1>2, FS_Surjection
<1>4. ASSUME NEW T \in All PROVE IsFiniteSet(T)
  <2>1. PICK i \in S : T = {i} \X (1 .. f[i]) OBVIOUS
  <2>2. f[i] \in Int OBVIOUS
  <2>3. IsFiniteSet({i}) BY FS_Singleton
  <2>4. IsFiniteSet(1 .. f[i]) BY <2>2, FS_Interval
  <2> QED BY <2>1, <2>3, <2>4, FS_Product
<1> HIDE DEF All
<1>5. IsFiniteSet(UNION All) BY <1>3, <1>4, FS_UNION
<1>6. Cells(f, S) = UNION All BY DEF Cells, All
<1> QED BY <1>5, <1>6, FS_CardinalityType

\* One more item adds its size, ...
LEMMA CellsAdd ==
  ASSUME NEW f \in [Ids -> Nat], NEW S, S \subseteq Ids, NEW i \in Ids \ S
  PROVE  Cardinality(Cells(f, S \cup {i})) = Cardinality(Cells(f, S)) + f[i]
<1>1. PICK n \in Nat : n = f[i] OBVIOUS
<1>2. PICK C : C = {i} \X (1 .. n) OBVIOUS
<1>3. Cells(f, S \cup {i}) = Cells(f, S) \cup C /\ Cells(f, S) \cap C = {}
  BY <1>1, <1>2 DEF Cells
<1>4. IsFiniteSet(1 .. n) BY <1>1, FS_Interval
<1>5. Cardinality(1 .. n) = n
  <2>1. 1 \in Int /\ n \in Int BY <1>1
  <2>2. Cardinality(1 .. n) = IF 1 > n THEN 0 ELSE n - 1 + 1 BY <2>1, FS_Interval
  <2> QED BY <1>1, <2>2
<1>6. IsFiniteSet({i}) /\ Cardinality({i}) = 1 BY FS_Singleton
<1>7. IsFiniteSet(C) /\ Cardinality(C) = Cardinality({i}) * Cardinality(1 .. n)
  BY <1>2, <1>4, <1>6, FS_Product
<1>8. Cardinality(C) = n BY <1>1, <1>5, <1>6, <1>7
<1>9. IsFiniteSet(Cells(f, S)) /\ Cardinality(Cells(f, S)) \in Nat BY CellsFinite
<1>10. Cardinality(Cells(f, S) \cup C)
         = Cardinality(Cells(f, S)) + Cardinality(C) - Cardinality(Cells(f, S) \cap C)
  BY <1>7, <1>9, FS_Union
<1>11. Cardinality(Cells(f, S) \cap C) = 0 BY <1>3, FS_EmptySet
<1>12. ASSUME NEW x \in Nat, NEW y \in Nat PROVE x + y - 0 = x + y OBVIOUS
<1> QED BY <1>1, <1>3, <1>8, <1>9, <1>10, <1>11, <1>12

\* ... and fewer items have no more bytes.
LEMMA CellsFewer ==
  ASSUME NEW f \in [Ids -> Nat], NEW S, S \subseteq Ids, NEW T, T \subseteq S
  PROVE  Cardinality(Cells(f, T)) <= Cardinality(Cells(f, S))
<1>1. Cells(f, T) \subseteq Cells(f, S) BY DEF Cells
<1>2. IsFiniteSet(Cells(f, S)) BY CellsFinite
<1> QED BY <1>1, <1>2, FS_Subset

\* The bytes an item counts for.
ItemBytes == [i \in Ids |-> IF row[i].obj \in Objects THEN Size[row[i].obj] ELSE 0]

\* The pending bytes are within the limits that queue_meta records, and those
\* of a body that is written but not committed were within its caller's.
BytesInv ==
  /\ store = "ready" => PendingBytes <= meta.limits.bytes
  /\ \A p \in Producers : pc[p] = "written" => PendingBytes + Size[arg[p].obj] <= arg[p].limits.bytes

LEMMA PendingBytesIs ==
  ASSUME TypeInv
  PROVE  /\ ItemBytes \in [Ids -> Nat] /\ active \subseteq Ids
         /\ PendingBytes = Cardinality(Cells(ItemBytes, active)) /\ PendingBytes \in Nat
         /\ meta.limits.bytes \in Nat
<1>1. ItemBytes \in [Ids -> Nat] BY ObjectAssumption DEF ItemBytes
<1>2. active \subseteq Ids /\ meta.limits.bytes \in Nat BY DEF TypeInv, TypeOK
<1>3. \A i \in active : ItemBytes[i] = Size[row[i].obj]
  BY <1>2 DEF ItemBytes, TypeInv, CallOK, Registered
<1>4. Cells(ItemBytes, active) = UNION {{i} \X (1 .. Size[row[i].obj]) : i \in active}
  BY <1>3 DEF Cells
<1>5. Cardinality(Cells(ItemBytes, active)) \in Nat BY <1>1, <1>2, CellsFinite
<1> QED BY <1>1, <1>2, <1>4, <1>5 DEF PendingBytes

\* The bytes stay when the items and their objects do.
LEMMA SameBytes ==
  ASSUME active' = active, \A i \in active : row'[i].obj = row[i].obj
  PROVE  PendingBytes' = PendingBytes
BY DEF PendingBytes

\* A producer is between writing a body and committing it because it has just
\* written it, or was there before.
LEMMA WrittenStep ==
  ASSUME TypeInv, SafeInv, [Next]_vars, NEW p \in Producers, pc'[p] = "written"
  PROVE  EnqueueWrite(p) \/ (pc[p] = "written" /\ arg'[p] = arg[p])
<1> USE DEF TypeInv, TypeOK
<1>1. ASSUME NEW q \in Producers, EnqueueStep(q) PROVE EnqueueWrite(p) \/ (pc[p] = "written" /\ arg'[p] = arg[p])
  <2>1. CASE q = p
    BY <1>1, <2>1 DEF EnqueueStep, CreateLockFile, InitLock, InitCommit, EnqueueOpen, OpenMutating,
                      EnqueueDuplicate, EnqueueReject, EnqueueCommit, EnqueueRefused
  <2>2. CASE q # p
    <3>1. pc'[p] = pc[p]
      BY <1>1, <2>2 DEF EnqueueStep, CreateLockFile, InitLock, InitCommit, EnqueueOpen, OpenMutating,
                        EnqueueDuplicate, EnqueueReject, EnqueueWrite, EnqueueCommit, EnqueueRefused
    <3>2. arg'[p] = arg[p]
      BY <1>1, <2>2 DEF EnqueueStep, CreateLockFile, InitLock, InitCommit, EnqueueOpen, OpenMutating,
                        EnqueueDuplicate, EnqueueReject, EnqueueWrite, EnqueueCommit, EnqueueRefused
    <3> QED BY <3>1, <3>2
  <2> QED BY <2>1, <2>2
<1>2. ASSUME NEW w \in Workers, DrainStep(w) \/ DrainFault(w) PROVE pc[p] = "written" /\ arg'[p] = arg[p]
  <2>1. w # p BY ProcsAssumption
  <2>2. arg' = arg
    BY <1>2 DEF DrainStep, DrainFault, ClaimOpen, OpenMutating, Claim, ClaimNothing, ReadSnapshot, Serve,
                ServeConflict, ReceiveReceipt, FinishOpen, FinishStale, FinishSent, FinishUnlink,
                FinishFailed, RequestTimeout, LoseReceipt, FinishRefused
  <2>3. \E x : pc' = [pc EXCEPT ![w] = x]
    BY <1>2 DEF DrainStep, DrainFault, ClaimOpen, OpenMutating, Claim, ClaimNothing, ReadSnapshot, Serve,
                ServeConflict, ReceiveReceipt, FinishOpen, FinishStale, FinishSent, FinishUnlink,
                FinishFailed, RequestTimeout, LoseReceipt, FinishRefused
  <2> QED BY <2>1, <2>2, <2>3
<1>3. ASSUME NEW q \in Producers, NEW o \in Objects, NEW lim \in Limits, EnqueueCall(q, o, lim)
      PROVE  pc[p] = "written" /\ arg'[p] = arg[p]
  BY <1>3 DEF EnqueueCall
<1>4. ASSUME NEW q \in Procs, Crash(q) PROVE pc[p] = "written" /\ arg'[p] = arg[p]
  <2>1. q # p BY <1>4 DEF Crash
  <2>2. pc'[p] = pc[p] BY <1>4, <2>1 DEF Crash
  <2>3. arg'[p] = arg[p] BY <1>4, <2>1 DEF Crash
  <2> QED BY <2>2, <2>3
<1>5. ASSUME UNCHANGED <<pc, arg>> PROVE pc[p] = "written" /\ arg'[p] = arg[p]
  BY <1>5
<1>6. ASSUME \/ \E r \in Targets \X Objects : ServeLate(r)
             \/ \E i \in Ids : Damage(i)
             \/ Tick \/ UNCHANGED vars
      PROVE  UNCHANGED <<pc, arg>>
  BY <1>6 DEF ServeLate, Damage, Tick, vars
<1> QED BY <1>1, <1>2, <1>3, <1>4, <1>5, <1>6 DEF Next

\* While a producer is there, nobody else changes the items.
LEMMA WrittenAlone ==
  ASSUME TypeInv, SafeInv, [Next]_vars, NEW p \in Producers, pc[p] = "written", pc'[p] = "written"
  PROVE  PendingBytes' = PendingBytes
<1> USE DEF TypeInv, TypeOK
<1>1. lock = p /\ \A q \in Procs : pc[q] \in Locked => q = p
  BY DEF SafeInv, LockInv, Locked
<1>2. CASE Kept \/ Stores BY <1>2, SameBytes DEF Kept, Stores
<1>3. CASE Reschedules
  <2>1. active' = active /\ \A i \in Ids : row'[i].obj = row[i].obj BY <1>3, ReschedulesKeeps
  <2> QED BY <2>1, SameBytes
<1>4. ~Registers
  <2>1. ASSUME NEW q \in Producers, EnqueueCommit(q), lock = q PROVE FALSE
    BY <1>1, <2>1, ProcsAssumption DEF EnqueueCommit
  <2> QED BY <2>1 DEF Registers
<1>5. ~Sends
  <2>1. ASSUME NEW w \in Workers, FinishSent(w) PROVE FALSE
    BY <1>1, <2>1, ProcsAssumption DEF FinishSent, Locked
  <2> QED BY <2>1 DEF Sends
<1>6. ~SetsUp
  <2>1. ASSUME NEW q \in Producers, InitCommit(q) PROVE FALSE
    BY <1>1, <2>1 DEF InitCommit, Locked
  <2> QED BY <2>1 DEF SetsUp
<1> QED BY <1>2, <1>3, <1>4, <1>5, <1>6, StepKinds

LEMMA BytesStep == ASSUME TypeInv, SafeInv, BytesInv, [Next]_vars PROVE BytesInv'
<1>1. TypeInv' BY NextType
<1>2. /\ PendingBytes \in Nat /\ meta.limits.bytes \in Nat
      /\ ItemBytes \in [Ids -> Nat] /\ active \subseteq Ids
      /\ PendingBytes = Cardinality(Cells(ItemBytes, active))
  BY PendingBytesIs
<1>3. ASSUME NEW p \in Producers, pc'[p] = "written"
      PROVE  (PendingBytes + Size[arg[p].obj] <= arg[p].limits.bytes)'
  <2>1. CASE EnqueueWrite(p)
    <3>1. /\ PendingBytes + Size[arg[p].obj] <= arg[p].limits.bytes
          /\ active' = active /\ row' = row
      BY <2>1 DEF EnqueueWrite, Admissible
    <3>2. arg'[p].obj = arg[p].obj /\ arg'[p].limits = arg[p].limits
      BY <2>1 DEF EnqueueWrite, TypeInv, TypeOK
    <3>3. PendingBytes' = PendingBytes BY <3>1, SameBytes
    <3> QED BY <3>1, <3>2, <3>3
  <2>2. CASE pc[p] = "written" /\ arg'[p] = arg[p]
    <3>1. PendingBytes' = PendingBytes BY <1>3, <2>2, WrittenAlone
    <3> QED BY <2>2, <3>1 DEF BytesInv
  <2> QED BY <1>3, <2>1, <2>2, WrittenStep
<1>4. ASSUME store' = "ready" PROVE (PendingBytes <= meta.limits.bytes)'
  <2>1. CASE Registers
    <3>1. PICK p \in Producers : /\ EnqueueCommit(p) /\ pc[p] = "written"
                                 /\ arg[p].id \in Ids \ Registered /\ arg[p].obj \in Objects
      BY <2>1 DEF Registers
    <3>2. PICK i \in Ids \ active : i = arg[p].id BY <3>1 DEF Registered
    <3>3. /\ active' = active \cup {i} /\ row' = [row EXCEPT ![i] = NewRow(arg[p].obj)]
          /\ meta'.limits = arg[p].limits
      BY <3>1, <3>2 DEF EnqueueCommit
    <3>4. row'[i].obj = arg[p].obj /\ \A j \in Ids : j # i => row'[j] = row[j]
      BY <3>3 DEF TypeInv, TypeOK, NewRow
    <3>5. PICK f : f = ItemBytes' OBVIOUS
    <3>6. /\ f \in [Ids -> Nat] /\ f[i] = Size[arg[p].obj]
          /\ \A j \in active : f[j] = ItemBytes[j]
      BY <1>2, <3>1, <3>2, <3>4, <3>5, ObjectAssumption DEF ItemBytes
    <3>7. Cells(f, active) = Cells(ItemBytes, active) BY <3>6 DEF Cells
    <3>8. Cardinality(Cells(f, active \cup {i})) = Cardinality(Cells(f, active)) + f[i]
      BY <1>2, <3>2, <3>6, CellsAdd
    <3>9. PendingBytes' = Cardinality(Cells(f, active \cup {i}))
      <4>1. \A j \in active' : f[j] = Size[row'[j].obj]
        BY <1>1, <1>2, <3>3, <3>4, <3>5, <3>6 DEF ItemBytes, TypeInv, CallOK, Registered
      <4>2. Cells(f, active') = UNION {{j} \X (1 .. Size[row'[j].obj]) : j \in active'}
        BY <4>1 DEF Cells
      <4> QED BY <3>3, <4>2 DEF PendingBytes
    <3>10. PendingBytes' = PendingBytes + Size[arg[p].obj] BY <1>2, <3>6, <3>7, <3>8, <3>9
    <3>11. PendingBytes + Size[arg[p].obj] <= arg[p].limits.bytes BY <3>1 DEF BytesInv
    <3> QED BY <3>3, <3>10, <3>11
  <2>2. CASE Sends
    <3>1. PICK w \in Workers : FinishSent(w) BY <2>2 DEF Sends
    <3>2. /\ active' \subseteq active /\ UNCHANGED <<meta, store>>
          /\ \A i \in active' : row'[i] = row[i]
      BY <3>1, <1>2 DEF FinishSent, TypeInv, TypeOK
    <3>3. PendingBytes' = Cardinality(Cells(ItemBytes, active'))
      <4>1. \A i \in active' : ItemBytes[i] = Size[row'[i].obj]
        BY <1>2, <3>2 DEF ItemBytes, TypeInv, CallOK, Registered
      <4>2. Cells(ItemBytes, active') = UNION {{i} \X (1 .. Size[row'[i].obj]) : i \in active'}
        BY <4>1 DEF Cells
      <4> QED BY <4>2 DEF PendingBytes
    <3>4. PendingBytes' <= PendingBytes BY <1>2, <3>2, <3>3, CellsFewer
    <3>5. PendingBytes <= meta.limits.bytes BY <1>4, <3>2 DEF BytesInv
    <3>6. PendingBytes' \in Nat
      <4>1. active' \subseteq Ids BY <1>2, <3>2
      <4> QED BY <1>2, <3>3, <4>1, CellsFinite
    <3> QED BY <1>2, <3>2, <3>4, <3>5, <3>6
  <2>3. CASE SetsUp
    <3>1. active = {} /\ active' = {} BY <2>3 DEF SetsUp, InitCommit
    <3>2. PendingBytes' = 0
      <4>1. UNION {{i} \X (1 .. Size[row'[i].obj]) : i \in active'} = {} BY <3>1
      <4> QED BY <4>1, FS_EmptySet DEF PendingBytes
    <3>3. meta'.limits.bytes \in Nat BY <1>1 DEF TypeInv, TypeOK
    <3> QED BY <3>2, <3>3
  <2>4. ASSUME Kept \/ Stores \/ Reschedules, store = "ready" PROVE (PendingBytes <= meta.limits.bytes)'
    <3>1. active' = active /\ meta' = meta /\ \A i \in active : row'[i].obj = row[i].obj
      BY <1>2, <2>4, ReschedulesKeeps DEF Kept, Stores
    <3>2. PendingBytes' = PendingBytes BY <3>1, SameBytes
    <3> QED BY <2>4, <3>1, <3>2 DEF BytesInv
  <2>5. ASSUME store # "ready" PROVE (PendingBytes <= meta.limits.bytes)'
    <3>1. ASSUME Kept \/ Stores \/ Reschedules PROVE (PendingBytes <= meta.limits.bytes)'
      <4>1. active' = active BY <3>1, ReschedulesKeeps DEF Kept, Stores
      <4>2. active' = {} BY <2>5, <4>1 DEF SafeInv, SetupInv
      <4>3. UNION {{i} \X (1 .. Size[row'[i].obj]) : i \in active'} = {} BY <4>2
      <4>4. PendingBytes' = 0 BY <4>3, FS_EmptySet DEF PendingBytes
      <4>5. meta'.limits.bytes \in Nat BY <1>1 DEF TypeInv, TypeOK
      <4> QED BY <4>4, <4>5
    <3> QED BY <2>1, <2>2, <2>3, <3>1, StepKinds
  <2> QED BY <2>1, <2>2, <2>3, <2>4, <2>5, StepKinds
<1> QED BY <1>3, <1>4 DEF BytesInv

\* Whatever limits the producers call with, and whoever is killed between
\* writing a body and committing its row, the pending items stay within the
\* numbers of items and of bytes that queue_meta records.
THEOREM LimitsHold == Spec => []WithinStoredLimits
<1>1. Init => BytesInv BY DEF Init, BytesInv
<1>2. TypeInv /\ SafeInv /\ BytesInv /\ [Next]_vars => BytesInv' BY BytesStep
<1>3. SafeInv /\ BytesInv => WithinStoredLimits
  BY DEF SafeInv, ItemsWithinLimits, BytesInv, WithinStoredLimits
<1> QED BY <1>1, <1>2, <1>3, Invariance, PTL DEF Spec

-----------------------------------------------------------------------------
(* The readers *)

\* receipt_archive in the order of its rows has every archived item once; a
\* status reported archived items; and an export under way holds the first
\* rows, not past its watermark, which everything reported before is under.
ExportInv ==
  /\ order \in Seq(Ids) /\ IsInjective(order) /\ Range(order) = archive
  /\ report \subseteq archive
  /\ reader.at = "export" =>
        /\ mark \in Nat /\ mark <= Len(order)
        /\ out \in Seq(Ids) /\ Len(out) <= mark /\ \A n \in 1 .. Len(out) : out[n] = order[n]
        /\ report \subseteq {order[n] : n \in 1 .. mark}

\* The sequences of no and of one element.
LEMMA SmallSeqs == SetToSeq({}) = << >> /\ \A i : SetToSeq({i}) = <<i>>
<1>1. SetToSeq({}) = << >>
  <2>1. Cardinality({}) = 0 BY FS_EmptySet
  <2>2. << >> \in [1 .. 0 -> {}] /\ IsInjective(<< >>) BY DEF IsInjective
  <2>3. \A f \in [1 .. 0 -> {}] : f = << >> OBVIOUS
  <2> QED BY <2>1, <2>2, <2>3 DEF SetToSeq
<1>2. ASSUME NEW i PROVE SetToSeq({i}) = <<i>>
  <2>1. Cardinality({i}) = 1 BY FS_Singleton
  <2>2. <<i>> \in [1 .. 1 -> {i}] /\ IsInjective(<<i>>) BY DEF IsInjective
  <2>3. \A f \in [1 .. 1 -> {i}] : f = <<i>> OBVIOUS
  <2> QED BY <2>1, <2>2, <2>3 DEF SetToSeq
<1> QED BY <1>1, <1>2

\* A reader is a step of the queue that changes nothing, or counts a fault.
LEMMA ReadersKeepQueue ==
  ASSUME TypeInv, SafeInv, [ReadersNext]_allVars
  PROVE  TypeInv' /\ SafeInv'
<1>1. CASE [Next]_vars BY <1>1, NextType, SafeStep
<1>2. CASE ReaderCrash
  <2>1. UNCHANGED <<store, lock, meta, active, archive, row, file, used, pc, arg, lease, stored, wire>>
    BY <1>2 DEF ReaderCrash
  <2>2. faults' \in 0 .. MaxFaults BY <1>2, BoundAssumption DEF ReaderCrash, TypeInv, TypeOK
  <2>3. TypeInv' BY <2>1, <2>2 DEF TypeInv, TypeOK, CallOK, Registered, Item
  <2>4. SafeInv'
    BY <2>1 DEF SafeInv, LockInv, SetupInv, WriteInv, LeaseInv, WireInv, Registered, RowOf, Item,
                OneRowPerObject, PendingHasBody, SentIsStored, ArchiveSlotReserved, ItemsWithinLimits
  <2> QED BY <2>3, <2>4
<1>3. [Next]_vars \/ ReaderCrash
  BY DEF ReadersNext, QueueStep, OpenReadonly, ValidateRefused, Status, ExportBegin, ExportBatch,
         ExportEnd, allVars
<1> QED BY <1>1, <1>2, <1>3

\* A step of the queue archives one item at most, and its row is the last.
LEMMA OneRowMore ==
  ASSUME TypeInv, SafeInv, QueueStep
  PROVE  \/ archive' = archive /\ order' = order \o << >>
         \/ \E i \in Ids \ archive : archive' = archive \cup {i} /\ order' = order \o <<i>>
<1>1. Next /\ order' = order \o SetToSeq(archive' \ archive) BY DEF QueueStep, RowidOrder
<1>2. CASE archive' = archive
  <2>1. archive' \ archive = {} BY <1>2
  <2> QED BY <1>1, <1>2, <2>1, SmallSeqs
<1>3. CASE Sends
  <2>1. PICK w \in Workers : FinishSent(w) /\ lease[w].id \in active \ archive BY <1>3 DEF Sends
  <2>2. PICK i \in Ids \ archive : i = lease[w].id BY <2>1 DEF TypeInv, TypeOK
  <2>3. archive' = archive \cup {i} BY <2>1, <2>2 DEF FinishSent
  <2>4. archive' \ archive = {i} BY <2>2, <2>3
  <2> QED BY <1>1, <2>2, <2>3, <2>4, SmallSeqs
<1>4. Kept \/ Registers \/ Stores \/ Reschedules \/ SetsUp => archive' = archive
  BY ReschedulesKeeps DEF Kept, Registers, EnqueueCommit, Stores, SetsUp, InitCommit
<1> QED BY <1>1, <1>2, <1>3, <1>4, StepKinds

LEMMA ExportStep ==
  ASSUME TypeInv, SafeInv, ExportInv, [ReadersNext]_allVars
  PROVE  ExportInv'
<1> USE DEF ExportInv
<1>1. CASE QueueStep
  <2>1. UNCHANGED <<reader, report, mark, out>> BY <1>1 DEF QueueStep, readerVars
  <2>2. ASSUME order' = order \o << >>, archive' = archive PROVE ExportInv'
    <3>1. order' = order BY <2>2
    <3> QED BY <2>1, <2>2, <3>1
  <2>3. ASSUME NEW i \in Ids \ archive, archive' = archive \cup {i}, order' = order \o <<i>> PROVE ExportInv'
    <3>1. /\ order' \in Seq(Ids) /\ Len(order') = Len(order) + 1
          /\ order'[Len(order) + 1] = i /\ \A n \in 1 .. Len(order) : order'[n] = order[n]
          /\ Len(order) \in Nat
      BY <2>3
    <3>2. DOMAIN order = 1 .. Len(order) /\ DOMAIN order' = 1 .. (Len(order) + 1) BY <3>1
    <3>3. \A n \in 1 .. Len(order) : order[n] \in archive /\ order[n] # i BY <3>2, <2>3 DEF Range
    <3>4. IsInjective(order')
      <4>1. \A m, n \in 1 .. Len(order) : order[m] = order[n] => m = n BY <3>2 DEF IsInjective
      <4>2. ASSUME NEW m \in 1 .. (Len(order) + 1), NEW n \in 1 .. (Len(order) + 1), order'[m] = order'[n]
            PROVE  m = n
        <5>1. /\ m \in 1 .. Len(order) \/ m = Len(order) + 1
              /\ n \in 1 .. Len(order) \/ n = Len(order) + 1
          BY <3>1
        <5> QED BY <3>1, <3>3, <4>1, <4>2, <5>1
      <4> QED BY <3>2, <4>2 DEF IsInjective
    <3>5. Range(order') = archive'
      <4>1. ASSUME NEW x \in Range(order') PROVE x \in archive'
        <5>1. PICK n \in 1 .. (Len(order) + 1) : x = order'[n] BY <3>2 DEF Range
        <5>2. n \in 1 .. Len(order) \/ n = Len(order) + 1 BY <3>1
        <5> QED BY <2>3, <3>1, <3>3, <5>1, <5>2
      <4>2. ASSUME NEW x \in archive' PROVE x \in Range(order')
        <5>1. CASE x = i
          <6>1. Len(order) + 1 \in 1 .. (Len(order) + 1) BY <3>1
          <6> QED BY <3>1, <3>2, <5>1, <6>1 DEF Range
        <5>2. CASE x \in archive
          <6>1. PICK n \in 1 .. Len(order) : x = order[n] BY <3>2, <5>2 DEF Range
          <6>2. n \in 1 .. (Len(order) + 1) BY <3>1
          <6> QED BY <3>1, <3>2, <6>1, <6>2 DEF Range
        <5> QED BY <2>3, <5>1, <5>2
      <4> QED BY <4>1, <4>2
    <3>6. ASSUME reader.at = "export"
          PROVE  /\ mark <= Len(order')
                 /\ \A n \in 1 .. Len(out) : out[n] = order'[n]
                 /\ {order'[n] : n \in 1 .. mark} = {order[n] : n \in 1 .. mark}
      <4>1. mark \in Nat /\ mark <= Len(order) /\ Len(out) <= mark /\ Len(out) \in Nat BY <3>6
      <4>2. \A n \in 1 .. mark : order'[n] = order[n] BY <3>1, <4>1
      <4>3. \A n \in 1 .. Len(out) : n \in 1 .. mark BY <4>1
      <4> QED BY <3>1, <3>6, <4>1, <4>2, <4>3
    <3> QED BY <2>1, <2>3, <3>1, <3>4, <3>5, <3>6
  <2> QED BY <1>1, <2>2, <2>3, OneRowMore
<1>2. ASSUME UNCHANGED <<archive, order, report, mark, out>>, reader'.at \in {reader.at} \cup {"counted", "refused", "idle", "published", "changed"}
      PROVE  ExportInv'
  BY <1>2
<1>3. ASSUME NEW call \in {"status", "export"}, OpenReadonly(call) PROVE ExportInv'
  BY <1>2, <1>3 DEF OpenReadonly, vars
<1>4. CASE ValidateRefused
  BY <1>2, <1>4 DEF ValidateRefused, At, vars
<1>5. CASE Status
  BY <1>5 DEF Status, At, vars
<1>6. CASE ExportBegin
  <2>1. /\ UNCHANGED <<archive, order, report>> /\ mark' = Len(order) /\ out' = << >>
    BY <1>6 DEF ExportBegin, vars
  <2>2. Len(order) \in Nat /\ Len(<< >>) = 0 /\ << >> \in Seq(Ids) BY DEF ExportInv
  <2>3. {order[n] : n \in 1 .. Len(order)} = archive BY DEF Range
  <2> QED BY <2>1, <2>2, <2>3
<1>7. CASE ExportBatch
  <2>1. UNCHANGED <<archive, order, report, mark, reader>> /\ reader.at = "export" /\ Len(out) < mark
    BY <1>7 DEF ExportBatch, vars
  <2>2. PICK m : m = Lesser(Len(out) + Batch, mark) OBVIOUS
  <2>3. out' = out \o SubSeq(order, Len(out) + 1, m) BY <1>7, <2>2 DEF ExportBatch
  <2>4. m \in Nat /\ Len(out) < m /\ m <= mark /\ m <= Len(order) /\ Len(out) \in Nat /\ Len(order) \in Nat
    BY <2>1, <2>2, BatchAssumption DEF Lesser
  <2>5. PICK q : q = SubSeq(order, Len(out) + 1, m) OBVIOUS
  <2>6. /\ q \in Seq(Ids) /\ Len(q) = m - Len(out)
        /\ \A n \in 1 .. Len(q) : q[n] = order[Len(out) + n]
    BY <2>4, <2>5
  <2>7. /\ out' \in Seq(Ids) /\ Len(out') = m
        /\ \A n \in 1 .. Len(out) : out'[n] = out[n]
        /\ \A n \in 1 .. Len(q) : out'[Len(out) + n] = q[n]
    BY <2>1, <2>3, <2>4, <2>5, <2>6
  <2>8. ASSUME NEW n \in 1 .. m PROVE out'[n] = order[n]
    <3>1. CASE n <= Len(out) BY <2>1, <2>4, <2>7, <3>1
    <3>2. CASE n > Len(out)
      <4>1. n - Len(out) \in 1 .. Len(q) /\ Len(out) + (n - Len(out)) = n BY <2>4, <2>6, <3>2
      <4>2. out'[Len(out) + (n - Len(out))] = q[n - Len(out)] BY <2>7, <4>1
      <4>3. q[n - Len(out)] = order[Len(out) + (n - Len(out))] BY <2>6, <4>1
      <4> QED BY <4>1, <4>2, <4>3
    <3> QED BY <2>4, <3>1, <3>2
  <2> QED BY <2>1, <2>4, <2>7, <2>8
<1>8. CASE ExportEnd
  BY <1>2, <1>8 DEF ExportEnd, At, vars
<1>9. CASE ReaderCrash
  BY <1>2, <1>9 DEF ReaderCrash, At
<1>10. CASE UNCHANGED allVars
  BY <1>2, <1>10 DEF allVars, vars, readerVars
<1> QED BY <1>1, <1>3, <1>4, <1>5, <1>6, <1>7, <1>8, <1>9, <1>10 DEF ReadersNext

\* An export ends with the rows of its watermark.
LEMMA ExportEnds ==
  ASSUME TypeInv, SafeInv, ExportInv, [ReadersNext]_allVars,
         reader.at = "export", reader'.at \notin {"export", "idle"}
  PROVE  /\ reader'.at = "published"
         /\ IsInjective(out)
         /\ Range(out) = {order[n] : n \in 1 .. mark}
         /\ report \subseteq Range(out)
         /\ \A i \in Range(out) : <<meta.target, row[i].obj>> \in stored
<1>1. ExportEnd
  BY DEF ReadersNext, QueueStep, readerVars, OpenReadonly, ValidateRefused, Status, ExportBegin,
         ExportBatch, ReaderCrash, At, allVars
<1>2. /\ order \in Seq(Ids) /\ IsInjective(order) /\ Range(order) = archive
      /\ mark \in Nat /\ mark <= Len(order)
      /\ out \in Seq(Ids) /\ Len(out) <= mark /\ \A n \in 1 .. Len(out) : out[n] = order[n]
      /\ report \subseteq {order[n] : n \in 1 .. mark}
  BY DEF ExportInv
<1>3. Len(out) = mark /\ DOMAIN out = 1 .. mark /\ DOMAIN order = 1 .. Len(order) /\ Len(order) \in Nat
  BY <1>1, <1>2 DEF ExportEnd
<1>4. reader'.at = "published" BY <1>1, <1>3 DEF ExportEnd, At
<1>5. \A n \in 1 .. mark : n \in 1 .. Len(order) BY <1>2, <1>3
<1>6. IsInjective(out) BY <1>2, <1>3, <1>5 DEF IsInjective
<1>7. Range(out) = {order[n] : n \in 1 .. mark} BY <1>2, <1>3 DEF Range
<1>8. Range(out) \subseteq archive BY <1>2, <1>3, <1>5, <1>7 DEF Range
<1>9. \A i \in Range(out) : <<meta.target, row[i].obj>> \in stored
  BY <1>8 DEF SafeInv, SentIsStored
<1> QED BY <1>2, <1>4, <1>6, <1>7, <1>9

\* export_archive beside the workers: an export that was begun is published
\* with the receipts of its watermark, each once, all of them true and those
\* of every earlier status among them.
THEOREM ExportsAreComplete == ReadersSpec => ExportComplete
<1>1. ReadersInit => TypeInv /\ SafeInv /\ ExportInv
  <2>1. ASSUME ReadersInit PROVE ExportInv
    <3>1. order = << >> /\ archive = {} /\ report = {} /\ reader.at = "idle"
      BY <2>1 DEF ReadersInit, Init
    <3>2. << >> \in Seq(Ids) /\ DOMAIN << >> = {} OBVIOUS
    <3> QED BY <3>1, <3>2 DEF ExportInv, IsInjective, Range
  <2> QED BY <2>1, InitType, InitSafe DEF ReadersInit
<1>2. TypeInv /\ SafeInv /\ ExportInv /\ [ReadersNext]_allVars => (TypeInv /\ SafeInv /\ ExportInv)'
  BY ReadersKeepQueue, ExportStep
<1>3. TypeInv /\ SafeInv /\ ExportInv /\ [ReadersNext]_allVars =>
        [reader.at = "export" /\ reader'.at \notin {"export", "idle"} =>
          /\ reader'.at = "published"
          /\ IsInjective(out)
          /\ Range(out) = {order[n] : n \in 1 .. mark}
          /\ report \subseteq Range(out)
          /\ \A i \in Range(out) : <<meta.target, row[i].obj>> \in stored]_allVars
  BY ExportEnds
<1> QED BY <1>1, <1>2, <1>3, PTL DEF ReadersSpec, ExportComplete

=============================================================================
