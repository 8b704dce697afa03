----------------------- MODULE VaultBundleJobs_proofs -----------------------
(***************************************************************************)
(* Proofs about the bundle jobs, for any number of producers, workers,     *)
(* manifests and chunks, any limits, lease and retry times and any number  *)
(* of faults.                                                              *)
(***************************************************************************)
EXTENDS VaultBundleJobs, FiniteSetTheorems, TLAPS

-----------------------------------------------------------------------------
(* The inductive invariant *)

\* A call under way knows its manifest and limits, and which chunk it reads.
Calls ==
    /\ \A p \in Producers : pc[p] \notin {"idle", "ok"} => Man(p) \in Manifests /\ call[p].lim \in Limits
    /\ \A p \in Producers : pc[p] \in {"read", "recheck"} => look[p] \in Objects

\* An item is pending with its body kept, or archived and then delivered.
Items ==
    /\ queued \cap confirmed = {}
    /\ confirmed \subseteq delivered
    /\ \A o \in queued : body[o] # "none"
    /\ IsFiniteSet(Known) /\ IsFiniteSet(Jobs)

\* A busy worker has a job whose chunks are all archived.  As long as the job
\* still carries its token, the phase it works on is the job's, and what it was
\* answered is true of the server.
Busy(w) ==
    /\ lease[w].id \in Jobs
    /\ lease[w].token \in Tokens
    /\ Chunks[Manifest(w)] \subseteq confirmed
    /\ job[lease[w].id].token = lease[w].token => job[lease[w].id].phase = lease[w].phase
    /\ wpc[w] = "answered" => /\ Manifest(w) \in registered
                              /\ answer[w] = "complete" => Manifest(w) \in completed
                              /\ lease[w].phase = "complete" => answer[w] = "complete"

Leases == \A w \in Workers : wpc[w] # "idle" => Busy(w)

\* What a request given up on asks for was ready to be published.
Late == \A r \in wire : Chunks[r[2]] \subseteq confirmed

Inv ==
    /\ TypeOK /\ Calls /\ Items /\ RefsRegistered /\ BundleWithinLimits
    /\ Leases /\ Late /\ PhaseIsTrue /\ CompleteIsWhole /\ completed \subseteq registered

-----------------------------------------------------------------------------
(* Sums of sizes *)

Positions(S) == UNION {{o} \X (1 .. Size[o]) : o \in S}

(* The sizes of two finite sets without a common element add up.           *)
LEMMA DisjointUnion ==
    ASSUME NEW S, IsFiniteSet(S), NEW T, IsFiniteSet(T), S \cap T = {}
    PROVE  IsFiniteSet(S \cup T) /\ Cardinality(S \cup T) = Cardinality(S) + Cardinality(T)
<1>1. Cardinality(S \cup T) = Cardinality(S) + Cardinality(T) - Cardinality(S \cap T)
    BY FS_Union
<1>2. Cardinality(S \cap T) = 0 /\ Cardinality(S) \in Nat /\ Cardinality(T) \in Nat
    BY FS_EmptySet, FS_CardinalityType
<1>3. IsFiniteSet(S \cup T)
    BY FS_Union
<1> QED BY <1>1, <1>2, <1>3

(* A finite set of objects has finitely many bytes.                        *)
LEMMA PositionsFinite ==
    ASSUME NEW S, S \subseteq Objects, IsFiniteSet(S)
    PROVE  IsFiniteSet(Positions(S))
<1> DEFINE All == {{o} \X (1 .. Size[o]) : o \in S}
<1> DEFINE f == [o \in S |-> {o} \X (1 .. Size[o])]
<1>1. f \in Surjection(S, All)
    BY DEF Surjection
<1>2. IsFiniteSet(All)
    BY <1>1, FS_Surjection
<1>3. ASSUME NEW T \in All PROVE IsFiniteSet(T)
    <2>1. PICK o \in S : T = {o} \X (1 .. Size[o])
        OBVIOUS
    <2>2. Size[o] \in Int
        BY ConstAssumption
    <2>3. IsFiniteSet({o})
        BY FS_Singleton
    <2>4. IsFiniteSet(1 .. Size[o])
        BY <2>2, FS_Interval
    <2> QED BY <2>1, <2>3, <2>4, FS_Product
<1> HIDE DEF All
<1>4. IsFiniteSet(UNION All)
    BY <1>2, <1>3, FS_UNION
<1> QED BY <1>4 DEF Positions, All

(* The sum of sizes is a number, adds up over disjoint sets, and for one    *)
(* object is its size.                                                      *)
LEMMA BytesType ==
    ASSUME NEW S, S \subseteq Objects, IsFiniteSet(S)
    PROVE  Bytes(S) \in Nat
BY PositionsFinite, FS_CardinalityType DEF Bytes, Positions

LEMMA BytesAdd ==
    ASSUME NEW S, S \subseteq Objects, IsFiniteSet(S),
           NEW T, T \subseteq Objects, IsFiniteSet(T), S \cap T = {}
    PROVE  Bytes(S \cup T) = Bytes(S) + Bytes(T)
<1>1. Positions(S \cup T) = Positions(S) \cup Positions(T)
    BY DEF Positions
<1>2. Positions(S) \cap Positions(T) = {}
    BY DEF Positions
<1>3. Cardinality(Positions(S) \cup Positions(T)) = Cardinality(Positions(S)) + Cardinality(Positions(T))
    BY <1>2, PositionsFinite, DisjointUnion
<1>4. \A U : Bytes(U) = Cardinality(Positions(U))
    BY DEF Bytes, Positions
<1> QED BY <1>1, <1>3, <1>4

LEMMA BytesOne == ASSUME NEW o \in Objects PROVE Bytes({o}) = Size[o]
<1>1. Size[o] \in Nat
    BY ConstAssumption
<1>2. UNION {{x} \X (1 .. Size[x]) : x \in {o}} = {o} \X (1 .. Size[o])
    OBVIOUS
<1>3. IsFiniteSet(1 .. Size[o]) /\ Cardinality(1 .. Size[o]) = Size[o]
    BY <1>1, FS_Interval
<1>4. IsFiniteSet({o}) /\ Cardinality({o}) = 1
    BY FS_Singleton
<1>5. Cardinality({o} \X (1 .. Size[o])) = Cardinality({o}) * Cardinality(1 .. Size[o])
    BY <1>3, <1>4, FS_Product
<1>6. Cardinality({o} \X (1 .. Size[o])) = Size[o]
    BY <1>1, <1>3, <1>4, <1>5
<1> HIDE DEF Bytes
<1>7. Bytes({o}) = Cardinality({o} \X (1 .. Size[o]))
    BY <1>2, Zenon DEF Bytes
<1> QED BY <1>6, <1>7

(* Fewer objects have no more bytes.                                       *)
LEMMA BytesLess ==
    ASSUME NEW S, S \subseteq Objects, IsFiniteSet(S), NEW T \in SUBSET S
    PROVE  Bytes(T) <= Bytes(S)
<1>1. Positions(T) \in SUBSET Positions(S)
    BY DEF Positions
<1> QED BY <1>1, PositionsFinite, FS_Subset DEF Bytes, Positions

-----------------------------------------------------------------------------
(* The producers *)

ProducerTypes ==
    /\ pc \in [Producers -> {"idle", "first", "verify", "read", "recheck", "ok"}]
    /\ call \in [Producers -> [man : Manifests \cup {None}, lim : [items : Nat, bytes : Nat]]]
    /\ todo \in [Producers -> SUBSET Objects] /\ checked \in [Producers -> SUBSET Objects]
    /\ look \in [Producers -> Objects \cup {None}]

(* A call that returns leaves nothing behind.                              *)
LEMMA ReturnTyped ==
    ASSUME ProducerTypes, Calls, NEW p \in Producers, NEW result \in {"idle", "ok"},
           Return(p, result)
    PROVE  ProducerTypes' /\ Calls'
<1>1. NoCall \in [man : Manifests \cup {None}, lim : [items : Nat, bytes : Nat]]
    BY DEF NoCall
<1>2. ProducerTypes'
    BY <1>1 DEF ProducerTypes, Return
<1>3. \A q \in Producers : q # p => pc'[q] = pc[q] /\ call'[q] = call[q] /\ look'[q] = look[q]
    BY DEF ProducerTypes, Return
<1>4. pc'[p] = result
    BY DEF ProducerTypes, Return
<1> QED BY <1>2, <1>3, <1>4 DEF Calls, Man

(* Before its second section a call changes only what it keeps itself.     *)
LEMMA CallTyped ==
    ASSUME ProducerTypes, Calls, NEW p \in Producers,
           \/ \E m \in Manifests, lim \in Limits : BundleCall(p, m, lim)
           \/ BundlePrecheck(p) \/ LookUp(p) \/ ReadBody(p) \/ Recheck(p)
           \/ BundleAgain(p) \/ BundleReject(p) \/ BundleAbort(p)
    PROVE  ProducerTypes' /\ Calls'
<1>1. ASSUME NEW m \in Manifests, NEW lim \in Limits, BundleCall(p, m, lim)
      PROVE  ProducerTypes' /\ Calls'
    <2>1. lim \in [items : Nat, bytes : Nat]
        BY ConstAssumption
    <2>2. [man |-> m, lim |-> lim] \in [man : Manifests \cup {None}, lim : [items : Nat, bytes : Nat]]
        BY <2>1
    <2>3. ProducerTypes'
        BY <1>1, <2>2 DEF BundleCall, ProducerTypes
    <2>4. \A q \in Producers : /\ q # p => pc'[q] = pc[q] /\ call'[q] = call[q]
                                /\ look'[q] = look[q]
        BY <1>1 DEF BundleCall, ProducerTypes
    <2>5. pc'[p] = "first" /\ call'[p].man = m /\ call'[p].lim = lim
        BY <1>1 DEF BundleCall, ProducerTypes
    <2> QED BY <2>3, <2>4, <2>5 DEF Calls, Man
<1>2. CASE BundlePrecheck(p)
    <2>1. Man(p) \in Manifests /\ Chunks[Man(p)] \subseteq Objects
        BY <1>2, ConstAssumption DEF BundlePrecheck, Calls
    <2>2. ProducerTypes'
        BY <1>2, <2>1 DEF BundlePrecheck, ProducerTypes
    <2>3. Calls'
        BY <1>2 DEF BundlePrecheck, ProducerTypes, Calls, Man
    <2> QED BY <2>2, <2>3
<1>3. CASE LookUp(p)
    <2> DEFINE o == CHOOSE x \in todo[p] : TRUE
    <2>1. o \in todo[p] /\ o \in Objects
        BY <1>3 DEF LookUp, ProducerTypes
    <2>2. /\ pc[p] = "verify" /\ call' = call /\ checked' = checked
          /\ todo' = [todo EXCEPT ![p] = @ \ {o}]
          /\ \/ pc' = [pc EXCEPT ![p] = "read"] /\ look' = [look EXCEPT ![p] = o]
             \/ pc' = pc /\ look' = look
        BY <1>3 DEF LookUp
    <2> HIDE DEF o
    <2>3. ProducerTypes'
        BY <2>1, <2>2 DEF ProducerTypes
    <2>4. Calls'
        BY <2>1, <2>2 DEF ProducerTypes, Calls, Man
    <2> QED BY <2>3, <2>4
<1>4. CASE ReadBody(p)
    <2>1. look[p] \in Objects
        BY <1>4 DEF ReadBody, Calls
    <2>2. call' = call /\ todo' = todo /\ pc[p] = "read"
        BY <1>4 DEF ReadBody
    <2>3. CASE /\ checked' = [checked EXCEPT ![p] = @ \cup {look[p]}]
               /\ pc' = [pc EXCEPT ![p] = "verify"]
               /\ look' = [look EXCEPT ![p] = None]
        <3>1. ProducerTypes'
            BY <2>1, <2>2, <2>3 DEF ProducerTypes
        <3>2. Calls'
            BY <2>2, <2>3 DEF ProducerTypes, Calls, Man
        <3> QED BY <3>1, <3>2
    <2>4. CASE pc' = [pc EXCEPT ![p] = "recheck"] /\ checked' = checked /\ look' = look
        <3>1. ProducerTypes'
            BY <2>2, <2>4 DEF ProducerTypes
        <3>2. Calls'
            BY <2>2, <2>4 DEF ProducerTypes, Calls, Man
        <3> QED BY <3>1, <3>2
    <2> QED BY <1>4, <2>3, <2>4 DEF ReadBody
<1>5. CASE Recheck(p)
    <2>1. CASE look[p] \in confirmed
        <3>1. ProducerTypes'
            BY <1>5, <2>1 DEF Recheck, ProducerTypes
        <3>2. Calls'
            BY <1>5, <2>1 DEF Recheck, ProducerTypes, Calls, Man
        <3> QED BY <3>1, <3>2
    <2>2. CASE look[p] \notin confirmed
        BY <1>5, <2>2, ReturnTyped DEF Recheck
    <2> QED BY <2>1, <2>2
<1>6. CASE BundleAgain(p) \/ BundleReject(p) \/ BundleAbort(p)
    BY <1>6, ReturnTyped DEF BundleAgain, BundleReject, BundleAbort
<1> QED BY <1>1, <1>2, <1>3, <1>4, <1>5, <1>6

-----------------------------------------------------------------------------
(* The tables, the workers and the server *)

StateTypes ==
    /\ queued \subseteq Objects /\ confirmed \subseteq Objects /\ delivered \subseteq Objects
    /\ body \in [Objects -> {"none", "good", "bad"}]
    /\ limits \in Limits
    /\ job \in [Ids -> Job \cup {None}]
    /\ wpc \in [Workers -> {"idle", "sending", "answered", "failed"}]
    /\ lease \in [Workers -> [id : Ids \cup {None}, token : Tokens \cup {None},
                              phase : {"register", "complete"}]]
    /\ answer \in [Workers -> {"registered", "complete", None}]
    /\ registered \subseteq Manifests /\ completed \subseteq Manifests
    /\ wire \subseteq Requests
    /\ faults \in 0 .. MaxFaults

State ==
    /\ StateTypes /\ Items /\ RefsRegistered /\ BundleWithinLimits
    /\ Leases /\ Late /\ PhaseIsTrue /\ CompleteIsWhole /\ completed \subseteq registered

(* The invariant is about the producers and about everything else.         *)
LEMMA Parts == Inv <=> ProducerTypes /\ Calls /\ State
BY DEF Inv, State, TypeOK, ProducerTypes, StateTypes

(* The bound on faults is kept.                                            *)
LEMMA FaultTyped ==
    ASSUME faults \in 0 .. MaxFaults, Fault \/ faults' = faults
    PROVE  faults' \in 0 .. MaxFaults
BY ConstAssumption DEF Fault

(* Producers that only change what they keep themselves disturb nothing.   *)
LEMMA StateQuiet ==
    ASSUME State, UNCHANGED <<items, limits, job, workers, server>>, Fault \/ faults' = faults
    PROVE  State'
<1>1. /\ queued' = queued /\ confirmed' = confirmed /\ delivered' = delivered /\ body' = body
      /\ limits' = limits /\ job' = job /\ wpc' = wpc /\ lease' = lease /\ answer' = answer
      /\ registered' = registered /\ completed' = completed /\ wire' = wire
    BY DEF items, workers, server
<1>2. StateTypes'
    BY <1>1, FaultTyped DEF State, StateTypes
<1>3. Known' = Known /\ Jobs' = Jobs
    BY <1>1 DEF Known, Jobs
<1>4. Items' /\ RefsRegistered' /\ BundleWithinLimits'
    BY <1>1, <1>3 DEF State, Items, RefsRegistered, BundleWithinLimits
<1>5. Leases' /\ Late' /\ PhaseIsTrue' /\ CompleteIsWhole' /\ completed' \subseteq registered'
    BY <1>1, <1>3 DEF State, Leases, Busy, Manifest, Late, PhaseIsTrue, CompleteIsWhole
<1> QED BY <1>2, <1>4, <1>5 DEF State

(* What is known of jobs and of the server stays true while items only     *)
(* move on.                                                                *)
LEMMA ItemsMoveOn ==
    ASSUME State, StateTypes', Items', BundleWithinLimits', UNCHANGED <<job, workers, server>>,
           Known \subseteq Known', confirmed \subseteq confirmed', delivered \subseteq delivered'
    PROVE  State'
<1>1. /\ job' = job /\ wpc' = wpc /\ lease' = lease /\ answer' = answer
      /\ registered' = registered /\ completed' = completed /\ wire' = wire
    BY DEF workers, server
<1>2. Jobs' = Jobs
    BY <1>1 DEF Jobs
<1>3. RefsRegistered'
    BY <1>1, <1>2 DEF State, RefsRegistered, Items
<1>4. Late' /\ PhaseIsTrue' /\ CompleteIsWhole' /\ completed' \subseteq registered'
    BY <1>1, <1>2 DEF State, Late, PhaseIsTrue, CompleteIsWhole
<1>5. Leases'
    BY <1>1, <1>2 DEF State, Leases, Busy, Manifest
<1> QED BY <1>3, <1>4, <1>5 DEF State

(* The sizes of the two tables are numbers.                                *)
LEMMA Sizes ==
    ASSUME StateTypes, Items
    PROVE  /\ IsFiniteSet(queued) /\ Cardinality(queued) \in Nat /\ Bytes(queued) \in Nat
           /\ Cardinality(Known) \in Nat /\ Cardinality(Jobs) \in Nat
<1>1. queued \in SUBSET Known /\ queued \subseteq Objects /\ IsFiniteSet(Known) /\ IsFiniteSet(Jobs)
    BY DEF StateTypes, Items, Known
<1>2. IsFiniteSet(queued)
    BY <1>1, FS_Subset
<1> QED BY <1>1, <1>2, FS_CardinalityType, BytesType

(* A single file is taken in only where it fits.                           *)
LEMMA EnqueueStep ==
    ASSUME State, NEW o \in Objects, NEW lim \in Limits, EnqueueItem(o, lim)
    PROVE  State'
<1>1. /\ o \notin Known /\ Cardinality(Known) < MaxArchive /\ Cardinality(queued) < lim.items
      /\ Bytes(queued) + Size[o] <= lim.bytes /\ queued' = queued \cup {o}
      /\ body' = [body EXCEPT ![o] = "good"] /\ limits' = lim
      /\ confirmed' = confirmed /\ delivered' = delivered /\ job' = job
      /\ UNCHANGED <<job, workers, server>> /\ wpc' = wpc /\ lease' = lease /\ answer' = answer
      /\ registered' = registered /\ completed' = completed /\ wire' = wire /\ faults' = faults
    BY DEF EnqueueItem, workers, server
<1>2. StateTypes /\ Items /\ BundleWithinLimits
    BY DEF State
<1>3. StateTypes'
    BY <1>1, <1>2 DEF StateTypes
<1>4. Known' = Known \cup {o} /\ Jobs' = Jobs /\ o \notin queued
    BY <1>1 DEF Known, Jobs
<1>5. IsFiniteSet(Known') /\ Cardinality(Known') = Cardinality(Known) + 1
    BY <1>1, <1>2, <1>4, FS_AddElement DEF Items
<1>6. Items'
    BY <1>1, <1>2, <1>4, <1>5 DEF Items, StateTypes, Known
<1>7. Cardinality(queued') = Cardinality(queued) + 1
    BY <1>1, <1>2, <1>4, Sizes, FS_AddElement
<1>8. Bytes(queued') = Bytes(queued) + Size[o]
    <2>1. IsFiniteSet(queued) /\ IsFiniteSet({o}) /\ queued \subseteq Objects /\ {o} \subseteq Objects
        BY <1>2, Sizes, FS_Singleton DEF StateTypes
    <2>2. queued \cap {o} = {}
        BY <1>4
    <2>3. Bytes(queued \cup {o}) = Bytes(queued) + Bytes({o})
        BY <2>1, <2>2, BytesAdd
    <2> QED BY <1>1, <2>3, BytesOne
<1>9. lim.items \in Nat
    BY ConstAssumption
<1>10. BundleWithinLimits'
    <2>1. Cardinality(Jobs') <= MaxJobs
        BY <1>2, <1>4 DEF BundleWithinLimits
    <2>2. Cardinality(queued') <= limits'.items
        BY <1>1, <1>2, <1>7, <1>9, Sizes
    <2>3. Bytes(queued') <= limits'.bytes
        BY <1>1, <1>8
    <2>4. Cardinality(Known') <= MaxArchive
        BY <1>1, <1>2, <1>5, Sizes, ConstAssumption
    <2> QED BY <2>1, <2>2, <2>3, <2>4 DEF BundleWithinLimits
<1> QED BY <1>1, <1>3, <1>4, <1>6, <1>10, ItemsMoveOn

(* An item is delivered, confirmed after that, and only then unlinked; a   *)
(* pending body may be damaged.                                            *)
LEMMA ItemStepInv ==
    ASSUME State, NEW o \in Objects, ItemStep(o) \/ Damage(o)
    PROVE  State'
<1>1. /\ UNCHANGED <<limits, job, workers, server>> /\ limits' = limits /\ job' = job
      /\ wpc' = wpc /\ lease' = lease /\ answer' = answer /\ registered' = registered
      /\ completed' = completed /\ wire' = wire /\ (Fault \/ faults' = faults)
    BY DEF ItemStep, SendItem, ConfirmItem, UnlinkItem, Damage, workers, server
<1>2. StateTypes /\ Items /\ BundleWithinLimits /\ Jobs' = Jobs
    BY <1>1 DEF State, Jobs
<1>3. faults' \in 0 .. MaxFaults
    BY <1>1, <1>2, FaultTyped DEF StateTypes
<1>4. CASE SendItem(o)
    <2>1. /\ queued' = queued /\ confirmed' = confirmed /\ body' = body /\ delivered' = delivered \cup {o}
        BY <1>4 DEF SendItem
    <2>2. StateTypes' /\ Known' = Known
        BY <1>1, <1>2, <1>3, <2>1 DEF StateTypes, Known
    <2>3. Items' /\ BundleWithinLimits'
        BY <1>1, <1>2, <2>1, <2>2 DEF Items, BundleWithinLimits
    <2> QED BY <1>1, <2>1, <2>2, <2>3, ItemsMoveOn
<1>5. CASE ConfirmItem(o)
    <2>1. /\ o \in queued /\ o \in delivered /\ queued' = queued \ {o} /\ body' = body
          /\ confirmed' = confirmed \cup {o} /\ delivered' = delivered
        BY <1>5 DEF ConfirmItem
    <2>2. StateTypes' /\ Known' = Known
        BY <1>1, <1>2, <1>3, <2>1 DEF StateTypes, Known
    <2>3. Items'
        BY <1>2, <2>1, <2>2 DEF Items
    <2>4. IsFiniteSet(queued) /\ queued' \in SUBSET queued /\ queued \subseteq Objects
        BY <1>2, <2>1, Sizes DEF StateTypes
    <2>5. Cardinality(queued') <= Cardinality(queued) /\ Bytes(queued') <= Bytes(queued)
        BY <2>4, FS_Subset, BytesLess
    <2>6. Cardinality(queued') \in Nat /\ Bytes(queued') \in Nat /\ Cardinality(queued) \in Nat /\ Bytes(queued) \in Nat
        BY <1>2, <2>4, Sizes, FS_Subset, FS_CardinalityType, BytesType
    <2>7. limits.items \in Nat /\ limits.bytes \in Nat
        BY <1>2, ConstAssumption DEF StateTypes
    <2>8. BundleWithinLimits'
        BY <1>1, <1>2, <2>2, <2>5, <2>6, <2>7 DEF BundleWithinLimits
    <2> QED BY <1>1, <2>1, <2>2, <2>3, <2>8, ItemsMoveOn
<1>6. CASE UnlinkItem(o) \/ Damage(o)
    <2>1. /\ queued' = queued /\ confirmed' = confirmed /\ delivered' = delivered
          /\ \/ o \in confirmed /\ body' = [body EXCEPT ![o] = "none"]
             \/ body' = [body EXCEPT ![o] = "bad"]
        BY <1>6 DEF UnlinkItem, Damage
    <2>2. StateTypes' /\ Known' = Known
        BY <1>1, <1>2, <1>3, <2>1 DEF StateTypes, Known
    <2>3. Items' /\ BundleWithinLimits'
        BY <1>1, <1>2, <2>1, <2>2 DEF Items, BundleWithinLimits, StateTypes
    <2> QED BY <1>1, <2>1, <2>2, <2>3, ItemsMoveOn
<1> QED BY <1>4, <1>5, <1>6 DEF ItemStep

(* A bundle is registered as a whole: its new chunks, its job and the      *)
(* limits, after the room for all of them was checked again.               *)
LEMMA RegisterStep ==
    ASSUME State, Calls, NEW p \in Producers, BundleRegister(p)
    PROVE  State'
<1> DEFINE m == Man(p)
           lim == call[p].lim
           N == NewChunks(m)
           b == BundleId[m]
<1>1. /\ job[b] = None /\ Admission(m, lim) /\ queued' = queued \cup N
      /\ body' = [o \in Objects |-> IF o \in N THEN "good" ELSE body[o]]
      /\ job' = [job EXCEPT ![b] = NewJob(m)] /\ limits' = lim
      /\ confirmed' = confirmed /\ delivered' = delivered /\ (Fault \/ faults' = faults)
      /\ wpc' = wpc /\ lease' = lease /\ answer' = answer
      /\ registered' = registered /\ completed' = completed /\ wire' = wire
    BY DEF BundleRegister, Row, workers, server
<1>2. m \in Manifests /\ lim \in Limits
    BY DEF BundleRegister, Verified, Calls
<1>3. b \in Ids /\ Chunks[m] \subseteq Objects /\ IsFiniteSet(Chunks[m])
    BY <1>2, ConstAssumption DEF Ids
<1>4. N \in SUBSET Chunks[m] /\ N \cap Known = {} /\ Chunks[m] \subseteq Known \cup N
    BY DEF NewChunks
<1>5. N \subseteq Objects /\ IsFiniteSet(N) /\ Cardinality(N) \in Nat
    BY <1>3, <1>4, FS_Subset, FS_CardinalityType
<1>6. /\ Cardinality(Jobs) < MaxJobs
      /\ Cardinality(queued) + Cardinality(N) <= lim.items
      /\ Bytes(queued) + Bytes(N) <= lim.bytes
      /\ Cardinality(Known) + Cardinality(N) <= MaxArchive
    BY <1>1 DEF Admission
<1>7. StateTypes /\ Items /\ RefsRegistered /\ BundleWithinLimits /\ Leases /\ Late
      /\ PhaseIsTrue /\ CompleteIsWhole /\ completed \subseteq registered
    BY DEF State
<1>8. /\ NewJob(m) \in Job /\ NewJob(m) # None /\ NewJob(m).man = m
      /\ NewJob(m).phase = "register" /\ NewJob(m).token = None
    BY <1>2, <1>7, Sizes, ConstAssumption DEF NewJob, Job
<1> HIDE DEF m, lim, N, b
<1>9. StateTypes'
    <2>1. faults' \in 0 .. MaxFaults
        BY <1>1, <1>7, FaultTyped DEF StateTypes
    <2> QED BY <1>1, <1>2, <1>3, <1>5, <1>7, <1>8, <2>1 DEF StateTypes
<1>10. Known' = Known \cup N
    BY <1>1 DEF Known
<1>11. Jobs' = Jobs \cup {b} /\ b \notin Jobs
    BY <1>1, <1>3, <1>7, <1>8 DEF Jobs, StateTypes
<1>12. job'[b] = NewJob(m) /\ \A c \in Jobs : job'[c] = job[c]
    BY <1>1, <1>3, <1>7, <1>11 DEF Jobs, StateTypes
<1>13. IsFiniteSet(Known') /\ Cardinality(Known') = Cardinality(Known) + Cardinality(N)
    <2>1. IsFiniteSet(Known) /\ Known \cap N = {}
        BY <1>4, <1>7 DEF Items
    <2> QED BY <1>5, <1>10, <2>1, DisjointUnion
<1>14. IsFiniteSet(Jobs') /\ Cardinality(Jobs') = Cardinality(Jobs) + 1
    BY <1>7, <1>11, FS_AddElement DEF Items
<1>15. Items'
    BY <1>1, <1>4, <1>5, <1>7, <1>10, <1>13, <1>14 DEF Items, StateTypes, Known
<1>16. BundleWithinLimits'
    <2>1. IsFiniteSet(queued) /\ queued \subseteq Objects /\ queued \cap N = {}
        BY <1>4, <1>7, Sizes DEF StateTypes, Known
    <2>2. Bytes(queued') = Bytes(queued) + Bytes(N)
        BY <1>1, <1>5, <2>1, BytesAdd
    <2>3. Cardinality(queued \cup N) = Cardinality(queued) + Cardinality(N)
        BY <1>5, <2>1, DisjointUnion
    <2>4. Cardinality(queued) \in Nat /\ Cardinality(Known) \in Nat /\ Cardinality(Jobs) \in Nat
        BY <1>7, Sizes
    <2>5. Cardinality(queued') <= limits'.items
        BY <1>1, <1>5, <1>6, <2>3, <2>4
    <2>6. Cardinality(Jobs') <= MaxJobs
        BY <1>6, <1>14, <2>4, ConstAssumption
    <2> QED BY <1>1, <1>6, <1>13, <2>2, <2>5, <2>6 DEF BundleWithinLimits
<1>17. RefsRegistered'
    BY <1>4, <1>7, <1>8, <1>10, <1>11, <1>12, <1>15 DEF RefsRegistered, Items
<1>18. PhaseIsTrue' /\ Late' /\ CompleteIsWhole' /\ completed' \subseteq registered'
    BY <1>1, <1>7, <1>8, <1>11, <1>12 DEF PhaseIsTrue, Late, CompleteIsWhole
<1>19. Leases'
    BY <1>1, <1>7, <1>11, <1>12 DEF Leases, Busy, Manifest
<1> QED BY <1>7, <1>9, <1>15, <1>16, <1>17, <1>18, <1>19 DEF State

(* The producers' variables after a bundle was registered.                 *)
LEMMA RegisterTyped ==
    ASSUME ProducerTypes, Calls, NEW p \in Producers, BundleRegister(p)
    PROVE  ProducerTypes' /\ Calls'
BY ReturnTyped DEF BundleRegister

(* A job that is rescheduled is a job, of the same manifest.               *)
LEMMA ScheduledTyped ==
    ASSUME NEW j \in Job, NEW phase \in {"register", "complete", "done"},
           NEW delay \in 0 .. RetryTicks, NEW t \in Tokens \cup {None}, NEW time \in 0 .. LeaseTicks,
           NEW s, s = Scheduled(j, phase, delay, t, time)
    PROVE  /\ s \in Job /\ s # None /\ s.man = j.man /\ s.phase = phase
           /\ s.retry = delay /\ s.token = t /\ s.left = time
BY ConstAssumption DEF Scheduled, Job

(* The delays and leases that are stored are within their lengths.         *)
LEMMA Lengths == 0 \in 0 .. RetryTicks /\ RetryTicks \in 0 .. RetryTicks
                 /\ 0 \in 0 .. LeaseTicks /\ LeaseTicks \in 0 .. LeaseTicks
BY ConstAssumption

JobsKept == Jobs' = Jobs /\ \A b \in Jobs : job'[b].man = job[b].man

(* Replacing one job by one of the same manifest keeps the jobs.           *)
LEMMA OneJobChanged ==
    ASSUME StateTypes, NEW b \in Jobs, NEW s \in Job, s # None, s.man = job[b].man,
           job' = [job EXCEPT ![b] = s]
    PROVE  /\ JobsKept /\ job' \in [Ids -> Job \cup {None}]
           /\ job'[b] = s /\ \A c \in Ids : c # b => job'[c] = job[c]
BY DEF StateTypes, Jobs, JobsKept

(* What is stored of items and limits is untouched by the workers.         *)
LEMMA JobsMoveOn ==
    ASSUME State, StateTypes', UNCHANGED <<items, limits>>, JobsKept,
           Leases', Late', PhaseIsTrue', CompleteIsWhole', completed' \subseteq registered'
    PROVE  State'
<1>1. /\ queued' = queued /\ confirmed' = confirmed /\ delivered' = delivered /\ body' = body
      /\ limits' = limits
    BY DEF items
<1>2. Known' = Known
    BY <1>1 DEF Known
<1>3. Items' /\ RefsRegistered' /\ BundleWithinLimits'
    BY <1>1, <1>2 DEF State, Items, RefsRegistered, BundleWithinLimits, JobsKept
<1> QED BY <1>3 DEF State

(* A worker that did nothing keeps its lease as it was, as long as nobody  *)
(* changes the job under the worker's own token.                           *)
LEMMA OtherStaysBusy ==
    ASSUME State, JobsKept, confirmed' = confirmed, NEW v \in Workers, wpc[v] # "idle",
           wpc'[v] = wpc[v], lease'[v] = lease[v], answer'[v] = answer[v],
           \A b \in Jobs : job'[b].token = lease[v].token =>
              job'[b].token = job[b].token /\ job'[b].phase = job[b].phase,
           registered \subseteq registered', completed \subseteq completed'
    PROVE  Busy(v)'
<1>1. Busy(v)
    BY DEF State, Leases
<1>2. PICK b \in Jobs : b = lease[v].id
    BY <1>1 DEF Busy
<1>3. b \in Jobs' /\ lease'[v].id = b /\ job'[b].man = job[b].man
    BY <1>2 DEF JobsKept
<1>4. /\ lease'[v].token \in Tokens /\ Chunks[job'[b].man] \subseteq confirmed'
      /\ job'[b].token = lease'[v].token => job'[b].phase = lease'[v].phase
      /\ wpc'[v] = "answered" => /\ job'[b].man \in registered'
                                 /\ answer'[v] = "complete" => job'[b].man \in completed'
                                 /\ lease'[v].phase = "complete" => answer'[v] = "complete"
    BY <1>1, <1>2, <1>3 DEF Busy, Manifest
<1> QED BY <1>3, <1>4 DEF Busy, Manifest

(* The oldest job that is due is leased under a token nobody has.          *)
LEMMA ClaimStep ==
    ASSUME State, NEW w \in Workers, ClaimJob(w)
    PROVE  State'
<1>1. PICK b \in Ids, t \in FreshTokens :
          /\ JobDue(b)
          /\ job' = [job EXCEPT ![b] = Scheduled(@, @.phase, RetryTicks, t, LeaseTicks)]
          /\ lease' = [lease EXCEPT ![w] = [id |-> b, token |-> t, phase |-> job[b].phase]]
    BY DEF ClaimJob
<1>2. /\ wpc' = [wpc EXCEPT ![w] = "sending"] /\ UNCHANGED <<items, limits>>
      /\ queued' = queued /\ confirmed' = confirmed /\ delivered' = delivered /\ body' = body
      /\ limits' = limits /\ answer' = answer /\ registered' = registered
      /\ completed' = completed /\ wire' = wire /\ faults' = faults
    BY DEF ClaimJob, items, server
<1>3. StateTypes /\ Leases /\ Late /\ PhaseIsTrue /\ CompleteIsWhole /\ completed \subseteq registered
    BY DEF State
<1>4. b \in Jobs /\ job[b] \in Job /\ job[b].phase # "done" /\ Chunks[job[b].man] \subseteq confirmed
    BY <1>1, <1>3 DEF JobDue, Jobs, StateTypes
<1>5. t \in Tokens /\ \A v \in Workers : lease[v].token # t
    BY <1>1 DEF FreshTokens
<1>6. job[b].phase \in {"register", "complete"}
    BY <1>4 DEF Job
<1> DEFINE s == Scheduled(job[b], job[b].phase, RetryTicks, t, LeaseTicks)
<1>7. /\ s \in Job /\ s # None /\ s.man = job[b].man /\ s.phase = job[b].phase /\ s.token = t
    <2>1. job[b].phase \in {"register", "complete", "done"} /\ t \in Tokens \cup {None}
        BY <1>5, <1>6
    <2>2. s = [man |-> job[b].man, phase |-> job[b].phase, born |-> job[b].born,
               retry |-> RetryTicks, token |-> t, left |-> LeaseTicks]
        BY DEF Scheduled
    <2>3. job[b].man \in Manifests /\ job[b].born \in Nat
        BY <1>4 DEF Job
    <2>4. s \in Job
        BY <2>1, <2>2, <2>3, Lengths DEF Job
    <2>5. s.man = job[b].man /\ s.phase = job[b].phase /\ s.token = t
        BY <2>2
    <2> QED BY <2>4, <2>5, ConstAssumption
<1>8. job' = [job EXCEPT ![b] = s]
    BY <1>1
<1> HIDE DEF s
<1>9. /\ JobsKept /\ job' \in [Ids -> Job \cup {None}]
      /\ job'[b] = s /\ \A c \in Ids : c # b => job'[c] = job[c]
    BY <1>3, <1>4, <1>7, <1>8, OneJobChanged
<1>10. StateTypes'
    BY <1>1, <1>2, <1>3, <1>5, <1>6, <1>9 DEF StateTypes
<1>11. \A c \in Jobs : job'[c].phase = job[c].phase
    BY <1>7, <1>9 DEF Jobs
<1>12. Leases'
    <2>1. ASSUME NEW v \in Workers, wpc'[v] # "idle" PROVE Busy(v)'
        <3>1. CASE v = w
            <4>1. lease'[v] = [id |-> b, token |-> t, phase |-> job[b].phase] /\ wpc'[v] = "sending"
                BY <1>1, <1>2, <1>3, <3>1 DEF StateTypes
            <4>2. lease'[v].id = b /\ lease'[v].token = t /\ lease'[v].phase = job[b].phase
                BY <4>1
            <4> QED BY <1>2, <1>4, <1>5, <1>7, <1>9, <4>1, <4>2 DEF Busy, Manifest, JobsKept
        <3>2. CASE v # w
            <4>1. wpc'[v] = wpc[v] /\ lease'[v] = lease[v] /\ answer'[v] = answer[v] /\ lease[v].token # t
                BY <1>1, <1>2, <1>3, <1>5, <3>2 DEF StateTypes
            <4>2. \A c \in Jobs : job'[c].token = lease[v].token =>
                      job'[c].token = job[c].token /\ job'[c].phase = job[c].phase
                BY <1>7, <1>9, <1>11, <4>1 DEF Jobs
            <4> QED BY <1>2, <1>9, <2>1, <4>1, <4>2, OtherStaysBusy
        <3> QED BY <3>1, <3>2
    <2> QED BY <2>1 DEF Leases
<1>13. Late' /\ PhaseIsTrue' /\ CompleteIsWhole' /\ completed' \subseteq registered'
    BY <1>2, <1>3, <1>9, <1>11 DEF Late, PhaseIsTrue, CompleteIsWhole, JobsKept
<1> QED BY <1>2, <1>9, <1>10, <1>12, <1>13, JobsMoveOn

(* The server answers, late or in time, or the worker gives up: jobs stay  *)
(* as they are, and the catalogue only grows by what was ready.            *)
LEMMA ServerStep ==
    ASSUME State, NEW w \in Workers,
           ServeRegister(w) \/ ServeComplete(w) \/ JobTimeout(w) \/ LoseAnswer(w)
    PROVE  State'
<1>1. /\ wpc[w] # "idle" /\ job' = job /\ lease' = lease /\ UNCHANGED <<items, limits>>
      /\ queued' = queued /\ confirmed' = confirmed /\ delivered' = delivered /\ body' = body
      /\ limits' = limits /\ (Fault \/ faults' = faults)
      /\ \A v \in Workers : v # w => wpc'[v] = wpc[v] /\ answer'[v] = answer[v]
    BY DEF ServeRegister, ServeComplete, JobTimeout, LoseAnswer, items, server, State, StateTypes
<1>2. StateTypes /\ Items /\ Leases /\ Late /\ PhaseIsTrue /\ CompleteIsWhole /\ completed \subseteq registered
    BY DEF State
<1>3. faults' \in 0 .. MaxFaults
    BY <1>1, <1>2, FaultTyped DEF StateTypes
<1>4. Busy(w)
    BY <1>1, <1>2 DEF Leases
<1> DEFINE m == Manifest(w)
<1>5. m \in Manifests /\ Chunks[m] \subseteq confirmed /\ Chunks[m] \subseteq delivered
    BY <1>2, <1>4 DEF Busy, Manifest, Jobs, StateTypes, Job, Items
<1>6. JobsKept
    BY <1>1 DEF JobsKept, Jobs
<1>7. CASE ServeRegister(w)
    <2>1. /\ lease[w].phase = "register" /\ registered' = registered \cup {m} /\ completed' = completed
          /\ wire' = wire /\ wpc' = [wpc EXCEPT ![w] = "answered"]
          /\ answer' = [answer EXCEPT ![w] = IF m \in completed THEN "complete" ELSE "registered"]
        BY <1>7 DEF ServeRegister
    <2> HIDE DEF m
    <2>2. StateTypes'
        BY <1>1, <1>2, <1>3, <1>5, <2>1 DEF StateTypes
    <2>3. Late' /\ PhaseIsTrue' /\ CompleteIsWhole' /\ completed' \subseteq registered'
        BY <1>1, <1>2, <1>5, <1>6, <2>1 DEF Late, PhaseIsTrue, CompleteIsWhole, JobsKept
    <2>4. answer'[w] = "complete" => m \in completed
        BY <1>2, <2>1 DEF StateTypes
    <2>5. Busy(w)'
        BY <1>1, <1>4, <1>6, <2>1, <2>4 DEF Busy, Manifest, JobsKept, m
    <2>6. Leases'
        BY <1>1, <1>6, <2>1, <2>5, OtherStaysBusy DEF Leases
    <2> QED BY <1>1, <1>6, <2>2, <2>3, <2>6, JobsMoveOn
<1>8. CASE ServeComplete(w) /\ Completable(m)
    <2>1. /\ completed' = completed \cup {m} /\ registered' = registered /\ m \in registered
          /\ wire' = wire /\ wpc' = [wpc EXCEPT ![w] = "answered"]
          /\ answer' = [answer EXCEPT ![w] = "complete"]
        BY <1>8 DEF ServeComplete, Completable
    <2> HIDE DEF m
    <2>2. StateTypes'
        BY <1>1, <1>2, <1>3, <1>5, <2>1 DEF StateTypes
    <2>3. Late' /\ PhaseIsTrue' /\ CompleteIsWhole' /\ completed' \subseteq registered'
        BY <1>1, <1>2, <1>5, <1>6, <2>1 DEF Late, PhaseIsTrue, CompleteIsWhole, JobsKept
    <2>4. answer'[w] = "complete"
        BY <1>2, <2>1 DEF StateTypes
    <2>5. Busy(w)'
        BY <1>1, <1>4, <1>6, <2>1, <2>4 DEF Busy, Manifest, JobsKept, m
    <2>6. Leases'
        BY <1>1, <1>6, <2>1, <2>5, OtherStaysBusy DEF Leases
    <2> QED BY <1>1, <1>6, <2>2, <2>3, <2>6, JobsMoveOn
<1>9. CASE (ServeComplete(w) /\ ~Completable(m)) \/ JobTimeout(w) \/ LoseAnswer(w)
    <2>1. /\ registered' = registered /\ completed' = completed
          /\ wire' = wire \/ wire' = wire \cup {<<lease[w].phase, m>>}
          /\ wpc' = [wpc EXCEPT ![w] = "failed"]
          /\ answer' = answer \/ answer' = [answer EXCEPT ![w] = None]
        BY <1>9 DEF ServeComplete, JobTimeout, LoseAnswer, server
    <2>2. <<lease[w].phase, m>> \in Requests /\ <<lease[w].phase, m>>[2] = m
        BY <1>2, <1>5 DEF StateTypes, Requests
    <2> HIDE DEF m
    <2>3. StateTypes'
        BY <1>1, <1>2, <1>3, <2>1, <2>2 DEF StateTypes
    <2>4. Late'
        BY <1>1, <1>2, <1>5, <2>1, <2>2 DEF Late
    <2>5. PhaseIsTrue' /\ CompleteIsWhole' /\ completed' \subseteq registered'
        BY <1>1, <1>2, <1>6, <2>1 DEF PhaseIsTrue, CompleteIsWhole, JobsKept
    <2>6. wpc'[w] = "failed"
        BY <1>2, <2>1 DEF StateTypes
    <2>7. Busy(w)'
        BY <1>1, <1>4, <1>6, <2>6 DEF Busy, Manifest, JobsKept
    <2>8. Leases'
        BY <1>1, <1>6, <2>1, <2>7, OtherStaysBusy DEF Leases
    <2> QED BY <1>1, <1>6, <2>3, <2>4, <2>5, <2>8, JobsMoveOn
<1> QED BY <1>7, <1>8, <1>9 DEF ServeComplete

(* A request given up on arrives after all.                                *)
LEMMA LateStep ==
    ASSUME State, NEW r \in Requests, ServeLate(r)
    PROVE  State'
<1>1. /\ r \in wire /\ wire' = wire \ {r} /\ job' = job /\ lease' = lease /\ wpc' = wpc /\ answer' = answer
      /\ registered' = registered \/ registered' = registered \cup {r[2]}
      /\ completed' = completed \/ (r[2] \in registered /\ completed' = completed \cup {r[2]})
      /\ UNCHANGED <<items, limits>> /\ faults' = faults
      /\ queued' = queued /\ confirmed' = confirmed /\ delivered' = delivered /\ body' = body
      /\ limits' = limits
    BY DEF ServeLate, Completable, items, workers
<1>2. StateTypes /\ Items /\ Leases /\ Late /\ PhaseIsTrue /\ CompleteIsWhole /\ completed \subseteq registered
    BY DEF State
<1>3. PICK m \in Manifests : m = r[2]
    BY DEF Requests
<1>4. Chunks[m] \subseteq delivered
    BY <1>1, <1>2, <1>3 DEF Late, Items
<1>5. JobsKept
    BY <1>1 DEF JobsKept, Jobs
<1>6. StateTypes'
    BY <1>1, <1>2, <1>3 DEF StateTypes
<1>7. Late' /\ PhaseIsTrue' /\ CompleteIsWhole' /\ completed' \subseteq registered'
    BY <1>1, <1>2, <1>3, <1>4, <1>5 DEF Late, PhaseIsTrue, CompleteIsWhole, JobsKept
<1>8. Leases'
    BY <1>1, <1>5, OtherStaysBusy DEF Leases
<1> QED BY <1>1, <1>5, <1>6, <1>7, <1>8, JobsMoveOn

(* A worker that lets go of its lease, with its job as it was or           *)
(* rescheduled without a token, in a phase that is true of the server.     *)
LEMMA LetGo ==
    ASSUME State, NEW w \in Workers, wpc[w] # "idle", Idle(w),
           UNCHANGED <<items, limits, server>>, Fault \/ faults' = faults,
           NEW b, b = lease[w].id,
           \/ job' = job
           \/ \E phase \in {"register", "complete", "done"}, delay \in 0 .. RetryTicks :
                 /\ job' = [job EXCEPT ![b] = Scheduled(job[b], phase, delay, None, 0)]
                 /\ phase # "register" => job[b].man \in registered
                 /\ phase = "done" => job[b].man \in completed
    PROVE  State'
<1>1. /\ queued' = queued /\ confirmed' = confirmed /\ delivered' = delivered /\ body' = body
      /\ limits' = limits /\ registered' = registered /\ completed' = completed /\ wire' = wire
      /\ wpc' = [wpc EXCEPT ![w] = "idle"]
      /\ lease' = [lease EXCEPT ![w] = [id |-> None, token |-> None, phase |-> "register"]]
      /\ answer' = [answer EXCEPT ![w] = None]
    BY DEF items, server, Idle
<1>2. StateTypes /\ Leases /\ Late /\ PhaseIsTrue /\ CompleteIsWhole /\ completed \subseteq registered
    BY DEF State
<1>3. Busy(w) /\ b \in Jobs /\ job[b] \in Job
    BY <1>2 DEF Leases, Busy, Jobs, StateTypes
<1>4. faults' \in 0 .. MaxFaults
    BY <1>2, FaultTyped DEF StateTypes
<1>5. /\ JobsKept /\ job' \in [Ids -> Job \cup {None}] /\ PhaseIsTrue'
      /\ \A c \in Jobs : job'[c] = job[c] \/ job'[c].token = None
    <2>1. CASE job' = job
        BY <1>1, <1>2, <2>1 DEF JobsKept, Jobs, StateTypes, PhaseIsTrue
    <2>2. ASSUME NEW phase \in {"register", "complete", "done"}, NEW delay \in 0 .. RetryTicks,
                 job' = [job EXCEPT ![b] = Scheduled(job[b], phase, delay, None, 0)],
                 phase # "register" => job[b].man \in registered,
                 phase = "done" => job[b].man \in completed
          PROVE  /\ JobsKept /\ job' \in [Ids -> Job \cup {None}] /\ PhaseIsTrue'
                 /\ \A c \in Jobs : job'[c] = job[c] \/ job'[c].token = None
        <3>0. PICK s : s = Scheduled(job[b], phase, delay, None, 0)
            OBVIOUS
        <3>1. s \in Job /\ s # None /\ s.man = job[b].man /\ s.phase = phase /\ s.token = None
            <4>1. None \in Tokens \cup {None} /\ 0 \in 0 .. LeaseTicks
                BY Lengths
            <4> QED BY <1>3, <3>0, <4>1, ConstAssumption DEF Scheduled, Job
        <3>2. job' = [job EXCEPT ![b] = s]
            BY <2>2, <3>0
        <3>3. /\ JobsKept /\ job' \in [Ids -> Job \cup {None}]
              /\ job'[b] = s /\ \A c \in Ids : c # b => job'[c] = job[c]
            BY <1>2, <1>3, <3>1, <3>2, OneJobChanged
        <3>4. PhaseIsTrue'
            BY <1>1, <1>2, <2>2, <3>1, <3>3 DEF PhaseIsTrue, JobsKept, Jobs
        <3> QED BY <3>1, <3>3, <3>4 DEF Jobs
    <2> QED BY <2>1, <2>2
<1>6. StateTypes'
    BY <1>1, <1>2, <1>4, <1>5 DEF StateTypes
<1>7. Leases'
    <2>1. ASSUME NEW v \in Workers, wpc'[v] # "idle" PROVE Busy(v)'
        <3>1. v # w
            BY <1>1, <1>2, <2>1 DEF StateTypes
        <3>2. wpc'[v] = wpc[v] /\ lease'[v] = lease[v] /\ answer'[v] = answer[v]
            BY <1>1, <1>2, <3>1 DEF StateTypes
        <3>3. lease[v].token # None
            BY <1>2, <2>1, <3>2, ConstAssumption DEF Leases, Busy
        <3>4. \A c \in Jobs : job'[c].token = lease[v].token =>
                  job'[c].token = job[c].token /\ job'[c].phase = job[c].phase
            BY <1>5, <3>3
        <3> QED BY <1>1, <1>5, <2>1, <3>2, <3>4, OtherStaysBusy
    <2> QED BY <2>1 DEF Leases
<1>8. Late' /\ CompleteIsWhole' /\ completed' \subseteq registered'
    BY <1>1, <1>2 DEF Late, CompleteIsWhole
<1> QED BY <1>5, <1>6, <1>7, <1>8, JobsMoveOn

(* finish_job stores what the server said, a failure, or nothing.          *)
LEMMA FinishStep ==
    ASSUME State, NEW w \in Workers,
           FinishJobStale(w) \/ FinishJobOk(w) \/ FinishJobErr(w) \/ JobAbort(w)
    PROVE  State'
<1>1. /\ wpc[w] # "idle" /\ Idle(w) /\ UNCHANGED <<items, limits, server>>
      /\ Fault \/ faults' = faults
    BY DEF FinishJobStale, FinishJobOk, FinishJobErr, JobAbort
<1>2. PICK b : b = lease[w].id
    OBVIOUS
<1>3. Busy(w) /\ job[b] \in Job /\ b \in Jobs
    BY <1>1, <1>2 DEF State, Leases, Busy, Jobs, StateTypes
<1>4. CASE FinishJobStale(w) \/ JobAbort(w)
    BY <1>1, <1>2, <1>4, LetGo DEF FinishJobStale, JobAbort
<1>5. CASE FinishJobOk(w)
    <2> DEFINE phase == IF answer[w] = "complete" THEN "done" ELSE "complete"
    <2>1. job' = [job EXCEPT ![b] = Scheduled(job[b], phase, 0, None, 0)] /\ wpc[w] = "answered"
        BY <1>2, <1>5 DEF FinishJobOk
    <2>2. /\ phase \in {"register", "complete", "done"}
          /\ phase # "register" => job[b].man \in registered
          /\ phase = "done" => job[b].man \in completed
        BY <1>2, <1>3, <2>1 DEF Busy, Manifest
    <2> HIDE DEF phase
    <2> QED BY <1>1, <1>2, <2>1, <2>2, LetGo, Lengths
<1>6. CASE FinishJobErr(w)
    <2>1. job' = [job EXCEPT ![b] = Scheduled(job[b], job[b].phase, RetryTicks, None, 0)]
        BY <1>2, <1>6 DEF FinishJobErr
    <2>2. /\ job[b].phase \in {"register", "complete", "done"}
          /\ job[b].phase # "register" => job[b].man \in registered
          /\ job[b].phase = "done" => job[b].man \in completed
        BY <1>3 DEF State, PhaseIsTrue, Job
    <2> QED BY <1>1, <1>2, <2>1, <2>2, LetGo, Lengths
<1> QED BY <1>4, <1>5, <1>6

(* Time takes leases and delays away, and nothing else.                    *)
LEMMA TickStep ==
    ASSUME State, Tick
    PROVE  State'
<1>1. /\ job' = [b \in Ids |-> IF job[b] = None THEN None ELSE Countdown(job[b])]
      /\ UNCHANGED <<items, limits>> /\ (Fault \/ faults' = faults)
      /\ queued' = queued /\ confirmed' = confirmed /\ delivered' = delivered /\ body' = body
      /\ limits' = limits /\ registered' = registered /\ completed' = completed /\ wire' = wire
      /\ wpc' = wpc /\ lease' = lease /\ answer' = answer
    BY DEF Tick, items, workers, server
<1>2. StateTypes /\ Leases /\ Late /\ PhaseIsTrue /\ CompleteIsWhole /\ completed \subseteq registered
    BY DEF State
<1>3. faults' \in 0 .. MaxFaults
    BY <1>1, <1>2, FaultTyped DEF StateTypes
<1>4. ASSUME NEW b \in Jobs
      PROVE  /\ job'[b] \in Job /\ job'[b] # None /\ job'[b].man = job[b].man
             /\ job'[b].phase = job[b].phase /\ job'[b].token = job[b].token
    <2>1. job[b] \in Job /\ job'[b] = Countdown(job[b])
        BY <1>1, <1>2 DEF Jobs, StateTypes
    <2>2. /\ job[b].phase \in {"register", "complete", "done"}
          /\ job[b].token \in Tokens \cup {None}
          /\ Less(job[b].retry) \in 0 .. RetryTicks /\ Less(job[b].left) \in 0 .. LeaseTicks
        BY <2>1, ConstAssumption DEF Job, Less
    <2> QED BY <2>1, <2>2, ScheduledTyped DEF Countdown
<1>5. \A b \in Ids : b \notin Jobs => job'[b] = None
    BY <1>1 DEF Jobs
<1>6. JobsKept
    BY <1>4, <1>5 DEF JobsKept, Jobs
<1>7. StateTypes'
    <2>1. job' \in [Ids -> Job \cup {None}]
        BY <1>1, <1>4, <1>5
    <2> QED BY <1>1, <1>2, <1>3, <2>1 DEF StateTypes
<1>8. Late' /\ PhaseIsTrue' /\ CompleteIsWhole' /\ completed' \subseteq registered'
    BY <1>1, <1>2, <1>4, <1>6 DEF Late, PhaseIsTrue, CompleteIsWhole, JobsKept
<1>9. Leases'
    BY <1>1, <1>4, <1>6, OtherStaysBusy DEF Leases
<1> QED BY <1>1, <1>6, <1>7, <1>8, <1>9, JobsMoveOn

-----------------------------------------------------------------------------
(* The theorems *)

(* The queue starts empty, and nobody has asked for anything.              *)
LEMMA InitInv == Init => Inv
<1> SUFFICES ASSUME Init PROVE Inv
    OBVIOUS
<1>1. Jobs = {} /\ Known = {} /\ IsFiniteSet({}) /\ Cardinality({}) = 0
    BY FS_EmptySet DEF Init, Jobs, Known
<1>2. Bytes({}) = 0
    <2>1. UNION {{o} \X (1 .. Size[o]) : o \in {}} = {}
        OBVIOUS
    <2> QED BY <1>1, <2>1, Zenon DEF Bytes
<1>3. limits.items \in Nat /\ limits.bytes \in Nat
    BY ConstAssumption DEF Init
<1>4. ProducerTypes /\ Calls
    BY DEF Init, ProducerTypes, Calls, NoCall
<1>5. StateTypes
    BY ConstAssumption DEF Init, StateTypes
<1>6. Items /\ RefsRegistered
    BY <1>1 DEF Init, Items, RefsRegistered
<1>7. BundleWithinLimits
    BY <1>1, <1>2, <1>3, ConstAssumption DEF Init, BundleWithinLimits
<1>8. Leases /\ Late /\ PhaseIsTrue /\ CompleteIsWhole /\ completed \subseteq registered
    BY <1>1 DEF Init, Leases, Late, PhaseIsTrue, CompleteIsWhole
<1> QED BY <1>4, <1>5, <1>6, <1>7, <1>8, Parts DEF State

(* Every step of every process, and of time, keeps the invariant.          *)
LEMMA NextInv == Inv /\ [Next]_vars => Inv'
<1> SUFFICES ASSUME Inv, [Next]_vars PROVE Inv'
    OBVIOUS
<1>1. ProducerTypes /\ Calls /\ State
    BY Parts
<1>a. ProducerTypes' /\ Calls' /\ State' => Inv'
    BY DEF Inv, State, TypeOK, ProducerTypes, StateTypes
<1>2. ASSUME UNCHANGED producers PROVE ProducerTypes' /\ Calls'
    BY <1>1, <1>2 DEF producers, ProducerTypes, Calls, Man
<1>3. CASE UNCHANGED vars
    BY <1>1, <1>2, <1>3, StateQuiet, <1>a DEF vars, producers
<1>4. ASSUME NEW p \in Producers,
             \/ \E m \in Manifests, lim \in Limits : BundleCall(p, m, lim)
             \/ BundlePrecheck(p) \/ LookUp(p) \/ ReadBody(p) \/ Recheck(p)
             \/ BundleAgain(p) \/ BundleReject(p) \/ BundleAbort(p)
      PROVE  Inv'
    <2>1. UNCHANGED <<items, limits, job, workers, server>> /\ (Fault \/ faults' = faults)
        BY <1>4 DEF BundleCall, BundlePrecheck, LookUp, ReadBody, Recheck, BundleAgain,
                    BundleReject, BundleAbort
    <2> QED BY <1>1, <1>4, <2>1, CallTyped, StateQuiet, <1>a
<1>5. ASSUME NEW p \in Producers, BundleRegister(p) PROVE Inv'
    BY <1>1, <1>5, RegisterStep, RegisterTyped, <1>a
<1>6. ASSUME NEW o \in Objects, NEW lim \in Limits, EnqueueItem(o, lim) PROVE Inv'
    BY <1>1, <1>2, <1>6, EnqueueStep, <1>a DEF EnqueueItem
<1>7. ASSUME NEW o \in Objects, ItemStep(o) \/ Damage(o) PROVE Inv'
    <2>1. UNCHANGED producers
        BY <1>7 DEF ItemStep, SendItem, ConfirmItem, UnlinkItem, Damage
    <2> QED BY <1>1, <1>2, <1>7, <2>1, ItemStepInv, <1>a
<1>8. ASSUME NEW w \in Workers, JobStep(w) \/ JobTimeout(w) \/ LoseAnswer(w) \/ JobAbort(w)
      PROVE  Inv'
    <2>1. UNCHANGED producers
        BY <1>8 DEF JobStep, ClaimJob, ServeRegister, ServeComplete, FinishJobStale, FinishJobOk,
                    FinishJobErr, JobTimeout, LoseAnswer, JobAbort
    <2> QED BY <1>1, <1>2, <1>8, <2>1, ClaimStep, ServerStep, FinishStep, <1>a DEF JobStep
<1>9. ASSUME NEW r \in Requests, ServeLate(r) PROVE Inv'
    BY <1>1, <1>2, <1>9, LateStep, <1>a DEF ServeLate
<1>10. CASE Tick
    BY <1>1, <1>2, <1>10, TickStep, <1>a DEF Tick
<1> QED BY <1>3, <1>4, <1>5, <1>6, <1>7, <1>8, <1>9, <1>10 DEF Next, BundleStep

(* The invariant holds in every reachable state.                           *)
LEMMA Invariance == Spec => []Inv
BY InitInv, NextInv, PTL DEF Spec

(* Whatever producers, workers, single files, late requests and faults     *)
(* interleave: a job's chunks are in the queue or delivered, the queue     *)
(* stays within its limits, and a phase says only what the server did.     *)
THEOREM JobsStaySound == Spec => []JobsAreSound
<1>1. Inv => JobsAreSound
    BY DEF Inv, JobsAreSound
<1> QED BY <1>1, Invariance, PTL

(* A step of the jobs and items is a step of the abstract queue, or none.  *)
LEMMA DeliveryStep == Inv /\ [Next]_vars => [Delivery!Next]_(Delivery!vars)
<1> SUFFICES ASSUME Inv, [Next]_vars PROVE [Delivery!Next]_(Delivery!vars)
    OBVIOUS
<1>1. CASE UNCHANGED <<queued, delivered, confirmed>>
    BY <1>1 DEF Delivery!vars
<1>2. ASSUME NEW p \in Producers, BundleRegister(p) PROVE Delivery!Next
    <2>1. PICK new : new = NewChunks(Man(p))
        OBVIOUS
    <2>2. queued' = queued \cup new /\ confirmed' = confirmed /\ delivered' = delivered
        BY <1>2, <2>1 DEF BundleRegister
    <2>3. new \in SUBSET Objects /\ new \cap (queued \cup confirmed) = {}
        BY <1>2, <2>1, ConstAssumption DEF BundleRegister, Verified, Inv, Calls, NewChunks, Known
    <2> QED BY <2>2, <2>3 DEF Delivery!Next, Delivery!Accept
<1>3. ASSUME NEW o \in Objects, NEW lim \in Limits, EnqueueItem(o, lim) PROVE Delivery!Next
    <2>1. queued' = queued \cup {o} /\ confirmed' = confirmed /\ delivered' = delivered
        BY <1>3 DEF EnqueueItem
    <2>2. {o} \in SUBSET Objects /\ {o} \cap (queued \cup confirmed) = {}
        BY <1>3 DEF EnqueueItem, Known
    <2> QED BY <2>1, <2>2 DEF Delivery!Next, Delivery!Accept
<1>4. ASSUME NEW o \in Objects, SendItem(o) PROVE Delivery!Next
    BY <1>4 DEF SendItem, Delivery!Next, Delivery!Deliver
<1>5. ASSUME NEW o \in Objects, ConfirmItem(o) PROVE Delivery!Next
    BY <1>5 DEF ConfirmItem, Delivery!Next, Delivery!Confirm
<1>6. ASSUME NEW p \in Producers,
             \/ \E m \in Manifests, lim \in Limits : BundleCall(p, m, lim)
             \/ BundlePrecheck(p) \/ LookUp(p) \/ ReadBody(p) \/ Recheck(p)
             \/ BundleAgain(p) \/ BundleReject(p) \/ BundleAbort(p)
      PROVE  UNCHANGED <<queued, delivered, confirmed>>
    <2>1. UNCHANGED items
        BY <1>6 DEF BundleCall, BundlePrecheck, LookUp, ReadBody, Recheck, BundleAgain,
                    BundleReject, BundleAbort
    <2> QED BY <2>1 DEF items
<1>7. ASSUME NEW o \in Objects, UnlinkItem(o) \/ Damage(o) PROVE UNCHANGED <<queued, delivered, confirmed>>
    BY <1>7 DEF UnlinkItem, Damage
<1>8. ASSUME NEW w \in Workers, JobStep(w) \/ JobTimeout(w) \/ LoseAnswer(w) \/ JobAbort(w)
      PROVE  UNCHANGED <<queued, delivered, confirmed>>
    <2>1. UNCHANGED items
        BY <1>8 DEF JobStep, ClaimJob, ServeRegister, ServeComplete, FinishJobStale, FinishJobOk,
                    FinishJobErr, JobTimeout, LoseAnswer, JobAbort
    <2> QED BY <2>1 DEF items
<1>9. CASE (\E r \in Requests : ServeLate(r)) \/ Tick \/ UNCHANGED vars
    <2>1. UNCHANGED items
        BY <1>9 DEF ServeLate, Tick, vars
    <2> QED BY <1>1, <2>1 DEF items
<1> QED BY <1>1, <1>2, <1>3, <1>4, <1>5, <1>6, <1>7, <1>8, <1>9 DEF Next, BundleStep, ItemStep

Forward ==
    \A b \in Jobs : /\ job'[b] # None /\ job'[b].man = job[b].man
                     /\ Rank(job[b].phase) <= Rank(job'[b].phase)

(* The order of the phases.                                                *)
LEMMA Ranks == /\ Rank("register") = 1 /\ Rank("complete") = 2 /\ Rank("done") = 3
               /\ \A x \in {"register", "complete", "done"} : Rank(x) <= Rank(x)
BY DEF Rank

(* No step takes a job back or away.  Only the holder of its token changes *)
(* its phase, and the phase the holder worked on is still the job's.       *)
LEMMA ForwardStep == Inv /\ [Next]_vars => Forward
<1> SUFFICES ASSUME Inv, [Next]_vars PROVE Forward
    OBVIOUS
<1>1. StateTypes /\ Leases
    BY Parts DEF State
<1>2. \A b \in Jobs : job[b] \in Job /\ job[b] # None /\ job[b].phase \in {"register", "complete", "done"}
    BY <1>1 DEF Jobs, StateTypes, Job
<1>3. ASSUME job' = job PROVE Forward
    BY <1>2, <1>3, Ranks DEF Forward
<1>4. ASSUME NEW p \in Producers, BundleRegister(p) PROVE Forward
    <2>1. PICK b : b = BundleId[Man(p)]
        OBVIOUS
    <2>2. job[b] = None /\ job' = [job EXCEPT ![b] = NewJob(Man(p))]
        BY <1>4, <2>1 DEF BundleRegister, Row
    <2>3. \A c \in Jobs : job'[c] = job[c]
        BY <1>1, <2>2 DEF Jobs, StateTypes
    <2> QED BY <1>2, <2>3, Ranks DEF Forward
<1>5. ASSUME NEW b \in Jobs, NEW s, s # None, s.man = job[b].man,
             Rank(job[b].phase) <= Rank(s.phase), job' = [job EXCEPT ![b] = s]
      PROVE  Forward
    <2>1. job'[b] = s /\ \A c \in Jobs : c # b => job'[c] = job[c]
        BY <1>1, <1>5 DEF Jobs, StateTypes
    <2> QED BY <1>2, <1>5, <2>1, Ranks DEF Forward
<1>6. ASSUME NEW w \in Workers, ClaimJob(w) PROVE Forward
    <2>1. PICK b \in Ids, t \in FreshTokens :
              /\ JobDue(b)
              /\ job' = [job EXCEPT ![b] = Scheduled(@, @.phase, RetryTicks, t, LeaseTicks)]
        BY <1>6 DEF ClaimJob
    <2>2. b \in Jobs /\ t \in Tokens
        BY <2>1 DEF JobDue, FreshTokens
    <2>3. PICK s : s = Scheduled(job[b], job[b].phase, RetryTicks, t, LeaseTicks)
        OBVIOUS
    <2>4. s # None /\ s.man = job[b].man /\ s.phase = job[b].phase
        BY <1>2, <2>2, <2>3, ConstAssumption, Lengths DEF Scheduled, Job
    <2>5. job' = [job EXCEPT ![b] = s]
        BY <2>1, <2>3
    <2>6. Rank(job[b].phase) <= Rank(s.phase)
        BY <1>2, <2>2, <2>4, Ranks
    <2> QED BY <1>5, <2>2, <2>4, <2>5, <2>6
<1>7. ASSUME NEW w \in Workers, FinishJobOk(w) \/ FinishJobErr(w) PROVE Forward
    <2>1. PICK b : b = lease[w].id
        OBVIOUS
    <2>2. Busy(w) /\ b \in Jobs /\ job[b].phase = lease[w].phase
        BY <1>1, <1>7, <2>1 DEF FinishJobOk, FinishJobErr, Owns, Leases, Busy
    <2>3. lease[w].phase \in {"register", "complete"}
        BY <1>1 DEF StateTypes
    <2>4. PICK phase \in {"register", "complete", "done"}, delay \in 0 .. RetryTicks :
              /\ job' = [job EXCEPT ![b] = Scheduled(job[b], phase, delay, None, 0)]
              /\ Rank(job[b].phase) <= Rank(phase)
        <3>1. CASE FinishJobOk(w)
            <4>1. PICK phase \in {"complete", "done"} :
                      /\ job' = [job EXCEPT ![b] = Scheduled(job[b], phase, 0, None, 0)]
                      /\ answer[w] = "complete" => phase = "done"
                BY <2>1, <3>1 DEF FinishJobOk
            <4>2. lease[w].phase = "complete" => phase = "done"
                BY <2>2, <3>1, <4>1 DEF FinishJobOk, Busy
            <4>3. Rank(job[b].phase) <= Rank(phase)
                BY <2>2, <2>3, <4>2, Ranks
            <4> QED BY <4>1, <4>3, Lengths
        <3>2. CASE FinishJobErr(w)
            <4>1. job' = [job EXCEPT ![b] = Scheduled(job[b], job[b].phase, RetryTicks, None, 0)]
                BY <2>1, <3>2 DEF FinishJobErr
            <4> QED BY <1>2, <2>2, <4>1, Lengths, Ranks
        <3> QED BY <1>7, <3>1, <3>2
    <2>5. PICK s : s = Scheduled(job[b], phase, delay, None, 0)
        OBVIOUS
    <2>6. s # None /\ s.man = job[b].man /\ s.phase = phase
        BY <1>2, <2>2, <2>5, ConstAssumption, Lengths DEF Scheduled, Job
    <2>7. job' = [job EXCEPT ![b] = s]
        BY <2>4, <2>5
    <2> QED BY <1>5, <2>2, <2>4, <2>6, <2>7
<1>8. CASE Tick
    <2>1. ASSUME NEW b \in Jobs
          PROVE job'[b] # None /\ job'[b].man = job[b].man /\ job'[b].phase = job[b].phase
        <3>1. job'[b] = Countdown(job[b])
            BY <1>1, <1>8 DEF Tick, Jobs, StateTypes
        <3>2. /\ job[b].phase \in {"register", "complete", "done"}
              /\ job[b].token \in Tokens \cup {None}
              /\ Less(job[b].retry) \in 0 .. RetryTicks /\ Less(job[b].left) \in 0 .. LeaseTicks
            BY <1>2, <2>1, ConstAssumption DEF Job, Less
        <3>3. PICK s : s = Countdown(job[b])
            OBVIOUS
        <3>4. s \in Job /\ s.man = job[b].man /\ s.phase = job[b].phase
            BY <1>2, <2>1, <3>2, <3>3 DEF Countdown, Scheduled, Job
        <3> QED BY <3>1, <3>3, <3>4, ConstAssumption
    <2> QED BY <1>2, <2>1, Ranks DEF Forward
<1>9. CASE \/ \E p \in Producers, m \in Manifests, lim \in Limits : BundleCall(p, m, lim)
           \/ \E p \in Producers : \/ BundlePrecheck(p) \/ LookUp(p) \/ ReadBody(p) \/ Recheck(p)
                                   \/ BundleAgain(p) \/ BundleReject(p) \/ BundleAbort(p)
    BY <1>3, <1>9 DEF BundleCall, BundlePrecheck, LookUp, ReadBody, Recheck, BundleAgain,
                      BundleReject, BundleAbort
<1>10. CASE \/ \E o \in Objects, lim \in Limits : EnqueueItem(o, lim)
            \/ \E o \in Objects : ItemStep(o) \/ Damage(o)
            \/ \E r \in Requests : ServeLate(r)
            \/ UNCHANGED vars
    BY <1>3, <1>10 DEF EnqueueItem, ItemStep, SendItem, ConfirmItem, UnlinkItem, Damage, ServeLate, vars
<1>11. CASE \E w \in Workers : \/ ServeRegister(w) \/ ServeComplete(w) \/ FinishJobStale(w)
                               \/ JobTimeout(w) \/ LoseAnswer(w) \/ JobAbort(w)
    BY <1>3, <1>11 DEF ServeRegister, ServeComplete, FinishJobStale, JobTimeout, LoseAnswer, JobAbort
<1> QED BY <1>4, <1>6, <1>7, <1>8, <1>9, <1>10, <1>11 DEF Next, BundleStep, JobStep

(* Bundles and single files together implement the abstract queue, and no  *)
(* answer, however late, takes a job back or away.                         *)
THEOREM BundlesImplementDelivery == Spec => BundlesSpec
<1>1. Init => Delivery!Init
    BY DEF Init, Delivery!Init
<1>2. Inv /\ [Next]_vars =>
        [\A b \in Jobs : /\ job'[b] # None /\ job'[b].man = job[b].man
                         /\ Rank(job[b].phase) <= Rank(job'[b].phase)]_vars
    BY ForwardStep DEF Forward
<1>3. Spec => Delivery!Spec
    BY <1>1, DeliveryStep, Invariance, PTL DEF Spec, Delivery!Spec
<1>4. Spec => PhaseNeverBack
    BY <1>2, Invariance, PTL DEF Spec, PhaseNeverBack
<1> QED BY <1>3, <1>4 DEF BundlesSpec

(* When enqueue_bundle returns, the caller may delete its directory.  Only *)
(* the second section returns "ok", and it has just looked at every chunk. *)
LEMMA SafeStep ==
    ASSUME Inv, [Next]_vars, NEW p \in Producers, pc[p] # "ok", pc'[p] = "ok",
           NEW o \in Chunks[Man(p)]
    PROVE  \/ o \in queued' /\ body'[o] = "good"
           \/ o \in confirmed' /\ o \in delivered'
<1>1. ProducerTypes /\ Calls /\ StateTypes /\ Items
    BY Parts DEF State
<1>2. BundleAgain(p) \/ BundleRegister(p)
    <2>1. ASSUME NEW q \in Producers,
                 \/ \E m \in Manifests, lim \in Limits : BundleCall(q, m, lim)
                 \/ BundlePrecheck(q) \/ LookUp(q) \/ ReadBody(q) \/ Recheck(q)
                 \/ BundleReject(q) \/ BundleAbort(q)
          PROVE  FALSE
        <3>1. pc' = pc \/ \E x \in {"idle", "first", "verify", "read", "recheck"} : pc' = [pc EXCEPT ![q] = x]
            BY <2>1 DEF BundleCall, BundlePrecheck, LookUp, ReadBody, Recheck, BundleReject,
                        BundleAbort, Return
        <3> QED BY <1>1, <3>1 DEF ProducerTypes
    <2>2. ASSUME NEW q \in Producers, BundleAgain(q) \/ BundleRegister(q) PROVE q = p
        <3>1. pc' = [pc EXCEPT ![q] = "ok"] \/ pc' = [pc EXCEPT ![q] = "idle"]
            BY <2>2 DEF BundleAgain, BundleRegister, Return
        <3> QED BY <1>1, <3>1 DEF ProducerTypes
    <2>3. pc' # pc
        OBVIOUS
    <2>4. ~UNCHANGED vars /\ ~Tick /\ ~(\E r \in Requests : ServeLate(r))
        BY <2>3 DEF vars, producers, Tick, ServeLate
    <2>5. ~(\E w \in Workers : JobStep(w) \/ JobTimeout(w) \/ LoseAnswer(w) \/ JobAbort(w))
        BY <2>3 DEF producers, JobStep, ClaimJob, ServeRegister, ServeComplete, FinishJobStale,
                    FinishJobOk, FinishJobErr, JobTimeout, LoseAnswer, JobAbort
    <2>6. /\ ~(\E x \in Objects, lim \in Limits : EnqueueItem(x, lim))
          /\ ~(\E x \in Objects : ItemStep(x) \/ Damage(x))
        BY <2>3 DEF producers, EnqueueItem, ItemStep, SendItem, ConfirmItem, UnlinkItem, Damage
    <2> QED BY <2>1, <2>2, <2>4, <2>5, <2>6 DEF Next, BundleStep
<1>3. Man(p) \in Manifests /\ Reused(p)
    BY <1>1, <1>2 DEF BundleAgain, BundleRegister, Verified, Calls
<1>4. o \in Objects
    BY <1>3, ConstAssumption
<1>5. o \in queued => body[o] = "good"
    BY <1>3 DEF Reused
<1>6. CASE BundleAgain(p)
    <2>1. queued' = queued /\ confirmed' = confirmed /\ delivered' = delivered /\ body' = body
        BY <1>6 DEF BundleAgain, items
    <2>2. o \in queued \/ o \in confirmed
        BY <1>6 DEF BundleAgain, Known
    <2> QED BY <1>1, <1>5, <2>1, <2>2 DEF Items
<1>7. CASE BundleRegister(p)
    <2>1. PICK N : N = NewChunks(Man(p))
        OBVIOUS
    <2>2. /\ queued' = queued \cup N /\ confirmed' = confirmed /\ delivered' = delivered
          /\ body' = [x \in Objects |-> IF x \in N THEN "good" ELSE body[x]]
        BY <1>7, <2>1 DEF BundleRegister
    <2>3. o \in N \/ o \in queued \/ o \in confirmed
        BY <2>1 DEF NewChunks, Known
    <2>4. body'[o] = IF o \in N THEN "good" ELSE body[o]
        BY <1>4, <2>2
    <2> QED BY <1>1, <1>5, <2>2, <2>3, <2>4 DEF Items
<1> QED BY <1>2, <1>6, <1>7

(* A bundle that was accepted is safe without its directory: each chunk is *)
(* pending with an intact body, or the server has it.                      *)
THEOREM ReturnedBundlesAreSafe == Spec => ReturnedBundleIsSafe
<1>1. Inv /\ [Next]_vars =>
        [\A p \in Producers : pc[p] # "ok" /\ pc'[p] = "ok" =>
            \A o \in Chunks[Man(p)] : \/ o \in queued' /\ body'[o] = "good"
                                      \/ o \in confirmed' /\ o \in delivered']_vars
    BY SafeStep
<1> QED BY <1>1, Invariance, PTL DEF Spec, ReturnedBundleIsSafe

=============================================================================
