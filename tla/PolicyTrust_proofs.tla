------------------------- MODULE PolicyTrust_proofs -------------------------
(***************************************************************************)
(* Proofs about the activation of policies, for any number of agents that   *)
(* start, any documents and keys, and any bound of the audit.               *)
(***************************************************************************)
EXTENDS PolicyTrust, SequenceTheorems, TLAPS

\* What a start that is under way knows: a verified document is one its signer
\* endorsed, and the verdict of an open transaction is still the verdict on
\* the tables as they are, since nobody else can write them.
Reading ==
    /\ sigFile # NoSig /\ sigFile[2] \in TrustedKeys => sigFile[1] \in Endorsed
    /\ \A s \in Starts : verified[s] =>
          pc[s] \in {"checked", "locked"} /\ doc[s] \in Endorsed /\ doc[s].version > 0
    /\ \A s \in Starts : pc[s] = "locked" =>
          verdict[s] = IF verified[s] THEN CheckAcceptance(doc[s], at[s]) ELSE "rejected"

\* The active version is the newest accepted one, and running agents run rows.
Tables ==
    /\ \A r \in accepted : r.doc.version <= active
    /\ \A s \in Starts : pc[s] = "running" => \E r \in accepted : r.doc = doc[s]

-----------------------------------------------------------------------------
(* What the operators say.                                                 *)

(* check_acceptance gives one of four answers.                             *)
LEMMA VerdictType == \A d, t : CheckAcceptance(d, t) \in Verdicts
BY DEF CheckAcceptance, Verdicts

(* A new policy is in force for this host, newer than the active one, and  *)
(* a rollback only where it is allowed.                                    *)
LEMMA AcceptedFacts ==
    ASSUME NEW d, NEW t, d.version \in Nat, active \in Nat, d.version > 0,
           CheckAcceptance(d, t) \in {"accepted", "rollback_accepted"}
    PROVE  /\ CheckMetadata(d, t)
           /\ d.version > active
           /\ d.rollback = NoRollback \/ RollbackAllowed(d)
<1>1. CheckMetadata(d, t) /\ ~(d.version < active)
    BY DEF CheckAcceptance
<1>2. ~(active > 0 /\ d.version = active)
    BY DEF CheckAcceptance
<1>3. d.rollback = NoRollback \/ RollbackAllowed(d)
    BY DEF CheckAcceptance
<1> QED BY <1>1, <1>2, <1>3

(* A restart meets the active row with the very same bytes.                *)
LEMMA RestartedFacts ==
    ASSUME NEW d, NEW t, CheckAcceptance(d, t) = "restarted"
    PROVE  d.version = active /\ \E r \in accepted : r.doc.version = active /\ r.doc.hash = d.hash
BY DEF CheckAcceptance, ActiveDocs

(* The audit stays typed and within its bound.                             *)
LEMMA AuditedType ==
    ASSUME audit \in Seq(Verdicts), NEW row \in Verdicts
    PROVE  Audited(row) \in Seq(Verdicts) /\ Len(Audited(row)) <= MaxAuditRows
<1> DEFINE all == Append(audit, row)
           from == 1 + (IF Len(all) > MaxAuditRows THEN Len(all) - MaxAuditRows ELSE 0)
<1>1. all \in Seq(Verdicts) /\ Len(all) \in Nat /\ MaxAuditRows \in Nat
    BY TrustConstants
<1>2. from \in Int /\ from >= 1 /\ Len(all) - from + 1 <= MaxAuditRows
    BY <1>1
<1>3. \A i \in from .. Len(all) : all[i] \in Verdicts
    BY <1>1, <1>2
<1>4. /\ SubSeq(all, from, Len(all)) \in Seq(Verdicts)
      /\ Len(SubSeq(all, from, Len(all))) = IF from <= Len(all) THEN Len(all) - from + 1 ELSE 0
    <2> HIDE DEF all, from
    <2> QED BY <1>1, <1>2, <1>3, SubSeqProperties
<1>5. Len(SubSeq(all, from, Len(all))) <= MaxAuditRows
    <2> HIDE DEF all, from
    <2> QED BY <1>1, <1>2, <1>4
<1> QED BY <1>4, <1>5 DEF Audited

-----------------------------------------------------------------------------
(* A host without policies starts with its tables and files typed.         *)
LEMMA InitTyped == Init => TypeOK
BY TrustConstants DEF Init, TypeOK, Pcs, Times, Verdicts

(* The operator's files and the clock stay typed.                          *)
LEMMA EnvironmentTyped == TypeOK /\ Environment => TypeOK'
<1> SUFFICES ASSUME TypeOK, Environment PROVE TypeOK'
    OBVIOUS
<1> USE DEF TypeOK, files, state
<1>1. CASE \E d \in Docs : DeployPolicy(d)
    BY <1>1 DEF DeployPolicy
<1>2. CASE \E k \in Keys : SignFile(k)
    <2>1. sigFile' \in Sigs
        BY <1>2, TrustConstants DEF SignFile, Sigs
    <2> QED BY <1>2, <2>1 DEF SignFile
<1>3. CASE \E t \in Times : SetClock(t)
    BY <1>3 DEF SetClock
<1> QED BY <1>1, <1>2, <1>3 DEF Environment

(* What is about to be committed as new was endorsed and judged so.        *)
LEMMA NewIsEndorsed ==
    ASSUME Reading, NEW s \in Starts, pc[s] = "locked",
           verdict[s] \in {"accepted", "rollback_accepted"}
    PROVE  /\ doc[s] \in Endorsed /\ doc[s].version > 0
           /\ CheckAcceptance(doc[s], at[s]) = verdict[s]
BY DEF Reading

(* What a start forgets stays typed.                                       *)
LEMMA ForgetTyped ==
    ASSUME TypeOK, NEW s \in Starts, Forget(s), NEW p \in Pcs \ {"locked"},
           pc' = [pc EXCEPT ![s] = p]
    PROVE  /\ lock' \in Starts \cup {NoStart}
           /\ pc' \in [Starts -> Pcs]
           /\ verdict' \in [Starts -> Verdicts \cup {"none"}]
           /\ verified' \in [Starts -> BOOLEAN] /\ at' \in [Starts -> Times]
           /\ \A u \in Starts : pc'[u] = "locked" => lock' = u
<1>1. 0 \in Times
    BY TrustConstants DEF Times
<1>2. \A u \in Starts : pc'[u] = "locked" => u # s /\ lock = u
    BY DEF TypeOK
<1>3. \A u \in Starts : pc'[u] = "locked" => lock' = u
    BY <1>2 DEF Forget
<1> QED BY <1>1, <1>3 DEF TypeOK, Forget

(* Every step of a start keeps the types, and the transaction its owner.   *)
LEMMA StartTyped ==
    ASSUME TypeOK, Reading, NEW s \in Starts, Starting(s) \/ Stop(s) PROVE TypeOK'
<1> USE DEF TypeOK, files, state
<1>1. CASE OpenState(s)
    BY <1>1 DEF OpenState, Pcs
<1>2. CASE ReadPolicyFile(s)
    BY <1>2 DEF ReadPolicyFile, Pcs
<1>3. CASE ReadSignature(s)
    <2>1. ReadVerify(doc[s], sigFile) \in BOOLEAN
        BY DEF ReadVerify
    <2> QED BY <1>3, <2>1 DEF ReadSignature, Pcs
<1>4. CASE Begin(s)
    <2>1. Judged(s) \in Verdicts
        BY VerdictType DEF Judged, Verdicts
    <2>2. \A u \in Starts : pc'[u] = "locked" => lock' = u
        BY <1>4, TrustConstants DEF Begin
    <2> QED BY <1>4, <2>1, <2>2 DEF Begin, Pcs
<1>5. CASE Refuse(s)
    <2>1. /\ Forget(s) /\ pc' = [pc EXCEPT ![s] = "off"] /\ audit' = Audited("rejected")
          /\ "off" \in Pcs \ {"locked"} /\ "rejected" \in Verdicts
        BY <1>5 DEF Refuse, Pcs, Verdicts
    <2>2. audit' \in Seq(Verdicts) /\ Len(audit') <= MaxAuditRows
        BY <2>1, AuditedType
    <2>3. doc' \in [Starts -> Docs \cup {NoDoc}] /\ UNCHANGED <<policyFile, sigFile, clock, accepted, active>>
        BY <1>5 DEF Refuse
    <2> QED BY <2>1, <2>2, <2>3, ForgetTyped
<1>6. CASE Activate(s)
    <2>1. /\ Forget(s) /\ pc' = [pc EXCEPT ![s] = "running"] /\ audit' = Audited(verdict[s])
          /\ "running" \in Pcs \ {"locked"} /\ verdict[s] \in Verdicts
        BY <1>6 DEF Activate, Commit, Pcs, Verdicts
    <2>2. audit' \in Seq(Verdicts) /\ Len(audit') <= MaxAuditRows
        BY <2>1, AuditedType
    <2>3. UNCHANGED <<policyFile, sigFile, clock, doc>>
        BY <1>6 DEF Activate
    <2>4. accepted' \subseteq [doc : Docs, at : Times] /\ active' \in Nat
        <3>1. CASE UNCHANGED <<accepted, active>>
            BY <3>1
        <3>2. CASE /\ verdict[s] \in {"accepted", "rollback_accepted"}
                   /\ accepted' = accepted \cup {[doc |-> doc[s], at |-> at[s]]}
                   /\ active' = doc[s].version
            <4>1. doc[s] \in Docs /\ doc[s].version \in Nat
                BY <1>6, <3>2, NewIsEndorsed, TrustConstants DEF Activate, DocShape
            <4> QED BY <3>2, <4>1
        <3> QED BY <1>6, <3>1, <3>2 DEF Activate, Commit
    <2> QED BY <2>1, <2>2, <2>3, <2>4, ForgetTyped
<1>7. CASE Stop(s)
    <2>1. Forget(s) /\ pc' = [pc EXCEPT ![s] = "off"] /\ "off" \in Pcs \ {"locked"}
        BY <1>7 DEF Stop, Pcs
    <2>2. /\ doc' \in [Starts -> Docs \cup {NoDoc}]
          /\ UNCHANGED <<policyFile, sigFile, clock, accepted, active, audit>>
        BY <1>7 DEF Stop
    <2> QED BY <2>1, <2>2, ForgetTyped
<1> QED
    BY <1>1, <1>2, <1>3, <1>4, <1>5, <1>6, <1>7 DEF Starting

-----------------------------------------------------------------------------
(* What a start knows stays true while other starts and the operator act.  *)
LEMMA EnvironmentReading == TypeOK /\ Reading /\ Environment => Reading'
<1> SUFFICES ASSUME TypeOK, Reading, Environment PROVE Reading'
    OBVIOUS
<1>1. UNCHANGED <<accepted, active, pc, doc, verified, at, verdict>>
    BY DEF Environment, DeployPolicy, SignFile, SetClock, state
<1>2. sigFile' # NoSig /\ sigFile'[2] \in TrustedKeys => sigFile'[1] \in Endorsed
    BY DEF Reading, Environment, DeployPolicy, SignFile, SetClock, files
<1>3. \A s \in Starts : CheckAcceptance(doc[s], at[s])' = CheckAcceptance(doc[s], at[s])
    BY <1>1 DEF CheckAcceptance, ActiveDocs, RollbackAllowed
<1> QED BY <1>1, <1>2, <1>3 DEF Reading

(* ... and while it acts itself.                                           *)
LEMMA StartReading ==
    ASSUME TypeOK, Reading, NEW s \in Starts, Starting(s) \/ Stop(s) PROVE Reading'
<1> DEFINE Known(u) ==
        /\ verified[u] => pc[u] \in {"checked", "locked"} /\ doc[u] \in Endorsed /\ doc[u].version > 0
        /\ pc[u] = "locked" =>
              verdict[u] = IF verified[u] THEN CheckAcceptance(doc[u], at[u]) ELSE "rejected"
<1>1. UNCHANGED sigFile
    BY DEF Starting, OpenState, ReadPolicyFile, ReadSignature, Begin, Refuse, Activate, Stop, files
<1>2. ASSUME NEW u \in Starts, u # s PROVE Known(u)'
    <2>1. pc'[u] = pc[u] /\ doc'[u] = doc[u] /\ verified'[u] = verified[u]
          /\ at'[u] = at[u] /\ verdict'[u] = verdict[u]
        BY <1>2 DEF TypeOK, Starting, OpenState, ReadPolicyFile, ReadSignature, Begin, Refuse,
                    Activate, Commit, Stop, Forget
    <2>2. pc[u] = "locked" => UNCHANGED <<accepted, active>>
        <3>1. CASE Activate(s)
            BY <1>2, <3>1 DEF TypeOK, Activate
        <3>2. CASE ~Activate(s)
            BY <3>2 DEF Starting, OpenState, ReadPolicyFile, ReadSignature, Begin, Refuse, Stop, state
        <3> QED BY <3>1, <3>2
    <2>3. pc[u] = "locked" => CheckAcceptance(doc[u], at[u])' = CheckAcceptance(doc[u], at[u])
        BY <2>1, <2>2 DEF CheckAcceptance, ActiveDocs, RollbackAllowed
    <2> QED BY <2>1, <2>3 DEF Reading
<1>3. Known(s)'
    <2> USE DEF TypeOK, Reading
    <2>1. CASE OpenState(s) \/ ReadPolicyFile(s)
        BY <2>1 DEF OpenState, ReadPolicyFile
    <2>2. CASE ReadSignature(s)
        <3>1. pc'[s] = "checked" /\ doc'[s] = doc[s] /\ verified'[s] = ReadVerify(doc[s], sigFile)
            BY <2>2 DEF ReadSignature
        <3>2. ASSUME ReadVerify(doc[s], sigFile) PROVE doc[s] \in Endorsed /\ doc[s].version > 0
            <4>1. PICK k \in TrustedKeys : sigFile = <<doc[s], k>>
                BY <3>2 DEF ReadVerify, VerifyBytes
            <4>2. sigFile # NoSig
                BY <3>2, <4>1, TrustConstants DEF ReadVerify, Sigs
            <4> QED BY <3>2, <4>1, <4>2 DEF ReadVerify
        <3> QED BY <3>1, <3>2
    <2>3. CASE Begin(s)
        <3>1. /\ pc[s] = "checked" /\ pc'[s] = "locked" /\ doc'[s] = doc[s] /\ verified'[s] = verified[s]
              /\ at'[s] = clock /\ verdict'[s] = Judged(s) /\ UNCHANGED <<accepted, active>>
            BY <2>3 DEF Begin, state
        <3>2. CheckAcceptance(doc[s], at[s])' = CheckAcceptance(doc[s], clock)
            BY <3>1 DEF CheckAcceptance, ActiveDocs, RollbackAllowed
        <3> QED BY <3>1, <3>2 DEF Judged
    <2>4. CASE Refuse(s) \/ Activate(s) \/ Stop(s)
        <3>1. pc'[s] # "locked" /\ verified'[s] = FALSE
            BY <2>4 DEF Refuse, Activate, Commit, Stop, Forget
        <3> QED BY <3>1
    <2> QED BY <2>1, <2>2, <2>3, <2>4 DEF Starting
<1> QED BY <1>1, <1>2, <1>3 DEF Reading

-----------------------------------------------------------------------------
\* A start commits its document as a new row.
NewRow(s) ==
    /\ pc[s] = "locked" /\ verdict[s] \in {"accepted", "rollback_accepted"}
    /\ accepted' = accepted \cup {[doc |-> doc[s], at |-> at[s]]}
    /\ active' = doc[s].version

(* The tables change by one new row at a time, or not at all.              *)
LEMMA TablesChange ==
    ASSUME [Next]_vars
    PROVE  UNCHANGED <<accepted, active>> \/ \E s \in Starts : NewRow(s)
<1>1. CASE UNCHANGED vars
    BY <1>1 DEF vars
<1>2. CASE Environment
    BY <1>2 DEF Environment, DeployPolicy, SignFile, SetClock, state
<1>3. ASSUME NEW s \in Starts, Starting(s) \/ Stop(s)
      PROVE  UNCHANGED <<accepted, active>> \/ NewRow(s)
    BY <1>3 DEF Starting, OpenState, ReadPolicyFile, ReadSignature, Begin, Refuse,
                Activate, Commit, Stop, state, NewRow
<1> QED BY <1>1, <1>2, <1>3 DEF Next

(* What is known of a new row.                                             *)
LEMMA NewRowFacts ==
    ASSUME TypeOK, Reading, NEW s \in Starts, NewRow(s)
    PROVE  /\ doc[s] \in Endorsed /\ doc[s] \in Docs /\ doc[s].version \in Nat
           /\ CheckMetadata(doc[s], at[s])
           /\ doc[s].version > active
           /\ doc[s].rollback = NoRollback \/ RollbackAllowed(doc[s])
<1>1. /\ doc[s] \in Endorsed /\ doc[s].version > 0
      /\ CheckAcceptance(doc[s], at[s]) \in {"accepted", "rollback_accepted"}
    BY NewIsEndorsed DEF NewRow
<1>2. doc[s] \in Docs /\ doc[s].version \in Nat /\ active \in Nat
    BY <1>1, TrustConstants DEF DocShape, TypeOK
<1> QED BY <1>1, <1>2, AcceptedFacts

(* An agent that comes to run has its document in the accepted table.      *)
LEMMA StartsRunning ==
    ASSUME TypeOK, Reading, Tables, [Next]_vars, NEW s \in Starts, pc'[s] = "running"
    PROVE  /\ \E r \in accepted' : r.doc = doc'[s]
           /\ pc[s] # "running" => doc'[s].version = active'
<1>1. CASE pc[s] = "running"
    <2>1. doc'[s] = doc[s]
        BY <1>1 DEF TypeOK, Next, Environment, DeployPolicy, SignFile, SetClock, Starting, OpenState,
                    ReadPolicyFile, ReadSignature, Begin, Refuse, Activate, Commit, Stop, vars
    <2>2. accepted \subseteq accepted'
        BY TablesChange DEF NewRow
    <2> QED BY <1>1, <2>1, <2>2 DEF Tables
<1>2. CASE pc[s] # "running"
    <2>1. Activate(s)
        BY <1>2 DEF TypeOK, Next, Environment, DeployPolicy, SignFile, SetClock, Starting, OpenState,
                    ReadPolicyFile, ReadSignature, Begin, Refuse, Activate, Commit, Stop, vars
    <2>2. doc'[s] = doc[s] /\ pc[s] = "locked"
        BY <2>1 DEF Activate
    <2>3. CASE verdict[s] \in {"accepted", "rollback_accepted"}
        <3>1. accepted' = accepted \cup {[doc |-> doc[s], at |-> at[s]]} /\ active' = doc[s].version
            BY <2>1, <2>3 DEF Activate, Commit
        <3>2. [doc |-> doc[s], at |-> at[s]].doc = doc[s]
            OBVIOUS
        <3> QED BY <2>2, <3>1, <3>2
    <2>4. CASE verdict[s] = "restarted"
        <3>1. UNCHANGED <<accepted, active>>
            BY <2>1, <2>4 DEF Activate, Commit
        <3>2. verified[s] /\ CheckAcceptance(doc[s], at[s]) = "restarted"
            BY <2>2, <2>4 DEF Reading
        <3>3. PICK r \in accepted : r.doc.hash = doc[s].hash
            BY <3>2, RestartedFacts
        <3>4. doc[s].version = active
            BY <3>2, RestartedFacts
        <3>5. r.doc = doc[s]
            BY <3>2, <3>3, TrustConstants DEF TypeOK, Reading
        <3> QED BY <2>2, <3>1, <3>3, <3>4, <3>5
    <2> QED BY <2>1, <2>3, <2>4 DEF Activate, Commit
<1> QED BY <1>1, <1>2

(* The active version stays the newest one and running agents keep rows.   *)
LEMMA TablesStep == TypeOK /\ Reading /\ Tables /\ [Next]_vars => Tables'
<1> SUFFICES ASSUME TypeOK, Reading, Tables, [Next]_vars PROVE Tables'
    OBVIOUS
<1>1. ASSUME NEW r \in accepted' PROVE r.doc.version <= active'
    <2>1. CASE UNCHANGED <<accepted, active>>
        BY <1>1, <2>1 DEF Tables
    <2>2. ASSUME NEW s \in Starts, NewRow(s) PROVE r.doc.version <= active'
        <3>1. doc[s].version > active /\ doc[s].version \in Nat /\ active \in Nat
            BY <2>2, NewRowFacts DEF TypeOK
        <3>2. CASE r \in accepted
            <4>1. r.doc.version \in Nat /\ r.doc.version <= active
                BY <3>2, TrustConstants DEF TypeOK, Tables, DocShape
            <4> QED BY <2>2, <3>1, <4>1 DEF NewRow
        <3>3. CASE r = [doc |-> doc[s], at |-> at[s]]
            BY <2>2, <3>1, <3>3 DEF NewRow
        <3> QED BY <1>1, <2>2, <3>2, <3>3 DEF NewRow
    <2> QED BY <2>1, <2>2, TablesChange
<1>2. \A s \in Starts : pc'[s] = "running" => \E r \in accepted' : r.doc = doc'[s]
    BY StartsRunning
<1> QED BY <1>1, <1>2 DEF Tables

-----------------------------------------------------------------------------
\* What AcceptedIsAuthorised says of one row.
Authorised(r, rows) ==
    /\ r.doc \in Endorsed /\ CheckMetadata(r.doc, r.at)
    /\ \A q \in rows : q.doc.version = r.doc.version => q = r
    /\ r.doc.rollback # NoRollback =>
          /\ \E q \in rows : q.doc.version < r.doc.version
                /\ q.doc.hash = r.doc.rollback.hash /\ q.doc.settings = r.doc.settings
          /\ \A q \in rows \ {r} : q.doc.rollback = NoRollback
                \/ q.doc.rollback.approval # r.doc.rollback.approval

(* A new row keeps the history authorised: its version is higher than all  *)
(* others, and its approval, if it has one, was in none of them.           *)
LEMMA HistoryStep ==
    TypeOK /\ Reading /\ Tables /\ AcceptedIsAuthorised /\ [Next]_vars => AcceptedIsAuthorised'
<1> SUFFICES ASSUME TypeOK, Reading, Tables, AcceptedIsAuthorised, [Next]_vars
             PROVE  \A r \in accepted' : Authorised(r, accepted')
    BY DEF AcceptedIsAuthorised, Authorised, CheckMetadata, InForce, Targeted
<1>0. \A r \in accepted : Authorised(r, accepted)
    BY DEF AcceptedIsAuthorised, Authorised
<1>1. CASE UNCHANGED <<accepted, active>>
    BY <1>0, <1>1
<1>2. ASSUME NEW s \in Starts, NewRow(s) PROVE \A r \in accepted' : Authorised(r, accepted')
    <2> DEFINE new == [doc |-> doc[s], at |-> at[s]]
    <2>1. accepted' = accepted \cup {new} /\ new.doc = doc[s] /\ new.at = at[s]
        BY <1>2 DEF NewRow
    <2>2. /\ doc[s] \in Endorsed /\ doc[s].version \in Nat /\ CheckMetadata(doc[s], at[s])
          /\ doc[s].version > active /\ active \in Nat
          /\ doc[s].rollback = NoRollback \/ RollbackAllowed(doc[s])
        BY <1>2, NewRowFacts DEF TypeOK
    <2>3. \A q \in accepted : q.doc.version \in Nat /\ q.doc.version < doc[s].version
        <3> SUFFICES ASSUME NEW q \in accepted
                     PROVE  q.doc.version \in Nat /\ q.doc.version < doc[s].version
            OBVIOUS
        <3>1. q.doc \in Docs
            BY DEF TypeOK
        <3>2. q.doc.version \in Nat /\ q.doc.version <= active
            BY <3>1, TrustConstants DEF DocShape, Tables
        <3> QED BY <2>2, <3>2
    <2>4. doc[s].rollback # NoRollback =>
             \A q \in accepted : q.doc.rollback = NoRollback
                                \/ q.doc.rollback.approval # doc[s].rollback.approval
        BY <2>2 DEF RollbackAllowed
    <2> HIDE DEF new
    <2>5. ASSUME NEW r \in accepted PROVE Authorised(r, accepted')
        <3>1. r.doc.version # new.doc.version
            BY <2>1, <2>2, <2>3, <2>5
        <3>2. r.doc.rollback # NoRollback => new.doc.rollback = NoRollback
                 \/ new.doc.rollback.approval # r.doc.rollback.approval
            BY <2>1, <2>4, <2>5
        <3>3. Authorised(r, accepted)
            BY <1>0, <2>5
        <3> QED BY <2>1, <3>1, <3>2, <3>3 DEF Authorised
    <2>6. Authorised(new, accepted')
        <3>1. new.doc \in Endorsed /\ CheckMetadata(new.doc, new.at)
            BY <2>1, <2>2
        <3>2. \A q \in accepted' : q.doc.version = new.doc.version => q = new
            BY <2>1, <2>2, <2>3
        <3>3. ASSUME new.doc.rollback # NoRollback
              PROVE  \E q \in accepted' : q.doc.version < new.doc.version
                        /\ q.doc.hash = new.doc.rollback.hash /\ q.doc.settings = new.doc.settings
            BY <2>1, <2>2, <2>3, <3>3 DEF RollbackAllowed
        <3>4. ASSUME new.doc.rollback # NoRollback
              PROVE  \A q \in accepted' \ {new} : q.doc.rollback = NoRollback
                        \/ q.doc.rollback.approval # new.doc.rollback.approval
            BY <2>1, <2>4, <3>4
        <3> QED BY <3>1, <3>2, <3>3, <3>4 DEF Authorised
    <2> QED BY <2>1, <2>5, <2>6
<1> QED BY <1>1, <1>2, TablesChange

Inv == TypeOK /\ Reading /\ Tables /\ AcceptedIsAuthorised

(* The invariant of all starts holds in every reachable state.             *)
THEOREM Invariance == Spec => []Inv
<1>1. Init => Inv
    <2>1. Init => Reading /\ Tables /\ AcceptedIsAuthorised
        BY DEF Init, Reading, Tables, AcceptedIsAuthorised
    <2> QED BY <2>1, InitTyped DEF Inv
<1>2. Inv /\ [Next]_vars => Inv'
    <2> SUFFICES ASSUME Inv, [Next]_vars PROVE Inv'
        OBVIOUS
    <2>1. TypeOK' /\ Reading'
        <3>1. CASE UNCHANGED vars
            <4>1. TypeOK'
                BY <3>1 DEF Inv, TypeOK, vars
            <4>2. \A s \in Starts : CheckAcceptance(doc[s], at[s])' = CheckAcceptance(doc[s], at[s])
                BY <3>1 DEF CheckAcceptance, ActiveDocs, RollbackAllowed, vars
            <4> QED BY <3>1, <4>1, <4>2 DEF Inv, Reading, vars
        <3>2. CASE Environment
            BY <3>2, EnvironmentTyped, EnvironmentReading DEF Inv
        <3>3. ASSUME NEW s \in Starts, Starting(s) \/ Stop(s) PROVE TypeOK' /\ Reading'
            BY <3>3, StartTyped, StartReading DEF Inv
        <3> QED BY <3>1, <3>2, <3>3 DEF Next
    <2> QED BY <2>1, TablesStep, HistoryStep DEF Inv
<1> QED BY <1>1, <1>2, PTL DEF Spec

(* The tables are typed, the audit is bounded, and every accepted policy   *)
(* was endorsed, meant for this host, in force, unique in its version and, *)
(* when it is a rollback, approved once (check_acceptance).                *)
THEOREM TablesStaySound == Spec => []TablesAreSound
<1>1. Inv => TablesAreSound
    BY DEF Inv, TablesAreSound
<1> QED BY <1>1, Invariance, PTL

(* However many agents start at once, the active version never falls, is   *)
(* the newest accepted one, and no accepted row is lost (activate_at).     *)
THEOREM WatermarkNeverFalls == Spec => WatermarkHolds
<1>1. Inv /\ Inv' /\ [Next]_vars =>
        [/\ active' >= active /\ accepted \subseteq accepted'
         /\ \A r \in accepted' : r.doc.version <= active']_vars
    <2> SUFFICES ASSUME Inv, Inv', [Next]_vars
                 PROVE  /\ active' >= active /\ accepted \subseteq accepted'
                        /\ \A r \in accepted' : r.doc.version <= active'
        OBVIOUS
    <2>1. active \in Nat
        BY DEF Inv, TypeOK
    <2>2. CASE UNCHANGED <<accepted, active>>
        BY <2>1, <2>2 DEF Inv, Tables
    <2>3. ASSUME NEW s \in Starts, NewRow(s) PROVE active' >= active /\ accepted \subseteq accepted'
        <3>1. doc[s].version > active /\ doc[s].version \in Nat
            BY <2>3, NewRowFacts DEF Inv
        <3> QED BY <2>1, <2>3, <3>1 DEF NewRow
    <2> QED BY <2>2, <2>3, TablesChange DEF Inv, Tables
<1> QED BY <1>1, Invariance, PTL DEF Spec, WatermarkHolds

(* A running agent runs the bytes that were committed, and starts with the *)
(* version that is active, whatever the files hold by then (activate_at).  *)
THEOREM RunningIsCommitted == Spec => RunsWhatWasCommitted
<1>1. Inv /\ [Next]_vars =>
        [\A s \in Starts : pc'[s] = "running" =>
            /\ \E r \in accepted' : r.doc = doc'[s]
            /\ pc[s] # "running" => doc'[s].version = active']_vars
    BY StartsRunning DEF Inv
<1> QED BY <1>1, Invariance, PTL DEF Spec, RunsWhatWasCommitted
=============================================================================
