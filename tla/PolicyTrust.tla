---------------------------- MODULE PolicyTrust ----------------------------
(***************************************************************************)
(* Activation of a signed policy (argos-policy, trust.rs).  An agent that   *)
(* starts reads the policy file and then its signature file, which the      *)
(* operator replaces one at a time, and decides inside one immediate        *)
(* SQLite transaction whether the policy is accepted, restarted or refused. *)
(* The accepted rows, the active version and the audit row are one commit.  *)
(* Several agents may start at once and a start may be killed at any point; *)
(* the wall clock may be set forwards and backwards at any time.            *)
(***************************************************************************)
EXTENDS Integers, FiniteSets, Sequences

CONSTANTS
    Starts,       \* agent processes that may be started
    Docs,         \* the policy documents that exist, records (see DocShape)
    Keys,         \* signing keys
    Endorsed,     \* the documents the holders of the trusted keys agree to sign
    HostPolicyId, \* config.policy_id
    HostId,       \* config.host_id
    HostGroups,   \* config.groups
    TrustedKeys,  \* config.trusted_keys: the key ids this host trusts
    MaxTime,      \* bound on the wall clock
    MaxAuditRows, \* MAX_AUDIT_ROWS
    NoDoc, NoSig, NoRollback, NoStart

DocShape(d) ==
    /\ d.version \in Nat /\ d.issued \in Nat /\ d.notBefore \in Nat /\ d.expires \in Nat
    /\ d.wellFormed \in BOOLEAN

ASSUME TrustConstants ==
    /\ \A d \in Docs : DocShape(d)
    /\ \A d, e \in Docs : d.hash = e.hash => d = e   \* SHA-256 names the bytes
    /\ TrustedKeys \subseteq Keys /\ Endorsed \subseteq Docs
    /\ MaxTime \in Nat /\ MaxAuditRows \in Nat \ {0}
    /\ NoDoc \notin Docs /\ NoSig \notin Docs \X Keys /\ NoStart \notin Starts

VARIABLES
    policyFile,  \* what config.path holds
    sigFile,     \* what <config.path>.sig holds: <<document, key>>
    clock,       \* now_ms()
    accepted,    \* table accepted_policies: rows [doc, at]
    active,      \* table active_policy: the version, 0 when empty
    audit,       \* table policy_audit, oldest first: the outcomes
    lock,        \* the start that holds the write transaction
    pc,          \* where each start is
    doc,         \* the bytes a start has read
    verified,    \* whether read_verify accepted them
    at,          \* `now`, taken once the transaction is open
    verdict      \* what check_acceptance answered in it

files == <<policyFile, sigFile>>
state == <<accepted, active, audit>>
vars == <<policyFile, sigFile, clock, accepted, active, audit, lock, pc, doc, verified, at, verdict>>

Sigs == Docs \X Keys
Times == 0..MaxTime
Verdicts == {"rejected", "accepted", "restarted", "rollback_accepted"}
Pcs == {"off", "open", "read", "checked", "locked", "running"}

Init ==
    /\ policyFile = NoDoc /\ sigFile = NoSig
    /\ clock \in Times
    /\ accepted = {} /\ active = 0 /\ audit = <<>>
    /\ lock = NoStart
    /\ pc = [s \in Starts |-> "off"]
    /\ doc = [s \in Starts |-> NoDoc]
    /\ verified = [s \in Starts |-> FALSE]
    /\ at = [s \in Starts |-> 0]
    /\ verdict = [s \in Starts |-> "none"]

(* The operator replaces the policy file, and the signature file, separately. *)
DeployPolicy(d) ==
    /\ policyFile' = d
    /\ UNCHANGED <<sigFile, clock, state, lock, pc, doc, verified, at, verdict>>

\* sign_file signs the bytes now in the policy file and replaces the .sig file.
SignFile(k) ==
    /\ policyFile # NoDoc
    /\ k \in TrustedKeys => policyFile \in Endorsed
    /\ sigFile' = <<policyFile, k>>
    /\ UNCHANGED <<policyFile, clock, state, lock, pc, doc, verified, at, verdict>>

SetClock(t) ==
    /\ clock' = t
    /\ UNCHANGED <<files, state, lock, pc, doc, verified, at, verdict>>

\* verify_bytes: the signature is over exactly these bytes, by this key.
VerifyBytes(d, sig, k) == sig = <<d, k>>

\* The metadata read_verify demands of a rollback before looking at any state.
RollbackShape(d) ==
    \/ d.rollback = NoRollback
    \/ d.rollback.source > 0 /\ d.rollback.source < d.version

\* read_verify on the bytes and the signature that were read.
ReadVerify(d, sig) ==
    /\ d # NoDoc
    /\ \E k \in TrustedKeys : VerifyBytes(d, sig, k) /\ d.keyId = k
    /\ d.wellFormed
    /\ d.version > 0
    /\ RollbackShape(d)

\* Both scopes must match when both are given, and one must be given.
Targeted(d) ==
    /\ d.hosts # {} \/ d.groups # {}
    /\ d.hosts # {} => HostId \in d.hosts
    /\ d.groups # {} => d.groups \cap HostGroups # {}

InForce(d, now) == d.notBefore <= now /\ now < d.expires

CheckMetadata(d, now) ==
    /\ d.policyId = HostPolicyId
    /\ d.issued > 0 /\ d.issued <= d.notBefore /\ d.notBefore < d.expires
    /\ InForce(d, now)
    /\ Targeted(d)

ActiveDocs == {r.doc : r \in {x \in accepted : x.doc.version = active}}

RollbackAllowed(d) ==
    /\ active > 0 /\ d.rollback.source < active
    /\ \E r \in accepted :
          /\ r.doc.version = d.rollback.source /\ r.doc.policyId = d.policyId
          /\ r.doc.hash = d.rollback.hash
          /\ r.doc.settings = d.settings
    /\ \A r \in accepted :
          r.doc.rollback = NoRollback \/ r.doc.rollback.approval # d.rollback.approval

CheckAcceptance(d, now) ==
    IF ~CheckMetadata(d, now) \/ (\E c \in ActiveDocs : c.policyId # d.policyId) THEN "rejected"
    ELSE IF d.version < active THEN "rejected"
    ELSE IF active > 0 /\ d.version = active
      THEN IF \E c \in ActiveDocs : c.hash = d.hash THEN "restarted" ELSE "rejected"
    ELSE IF d.rollback = NoRollback THEN "accepted"
    ELSE IF RollbackAllowed(d) THEN "rollback_accepted" ELSE "rejected"

\* audit: insert the row, then drop what lies beyond the newest MAX_AUDIT_ROWS.
Audited(row) ==
    LET all == Append(audit, row)
    IN SubSeq(all, 1 + (IF Len(all) > MaxAuditRows THEN Len(all) - MaxAuditRows ELSE 0), Len(all))

(* One start of an agent, step by step. *)
OpenState(s) ==
    /\ pc[s] = "off"
    /\ pc' = [pc EXCEPT ![s] = "open"]
    /\ UNCHANGED <<files, clock, state, lock, doc, verified, at, verdict>>

ReadPolicyFile(s) ==
    /\ pc[s] = "open"
    /\ doc' = [doc EXCEPT ![s] = policyFile]
    /\ pc' = [pc EXCEPT ![s] = "read"]
    /\ UNCHANGED <<files, clock, state, lock, verified, at, verdict>>

\* Mutant: the signature is checked, but not against the bytes that were read.
VerifyOnlySignature(s) ==
    /\ pc[s] = "read"
    /\ verified' = [verified EXCEPT ![s] =
           doc[s] # NoDoc /\ \E d \in Docs, k \in TrustedKeys : VerifyBytes(d, sigFile, k)]
    /\ pc' = [pc EXCEPT ![s] = "checked"]
    /\ UNCHANGED <<files, clock, state, lock, doc, at, verdict>>

ReadSignature(s) ==
    /\ pc[s] = "read"
    /\ verified' = [verified EXCEPT ![s] = ReadVerify(doc[s], sigFile)]
    /\ pc' = [pc EXCEPT ![s] = "checked"]
    /\ UNCHANGED <<files, clock, state, lock, doc, at, verdict>>

Judged(s) == IF verified[s] THEN CheckAcceptance(doc[s], clock) ELSE "rejected"

\* Mutant: the state is checked before the write transaction is taken.
CheckBeforeBegin(s) ==
    /\ pc[s] = "checked"
    /\ at' = [at EXCEPT ![s] = clock]
    /\ verdict' = [verdict EXCEPT ![s] = Judged(s)]
    /\ pc' = [pc EXCEPT ![s] = "locked"]
    /\ UNCHANGED <<files, clock, state, lock, doc, verified>>

\* BEGIN IMMEDIATE, then the clock, then the checks: a start that had to wait
\* judges the present state at the present time.
Begin(s) ==
    /\ pc[s] = "checked" /\ lock = NoStart
    /\ lock' = s
    /\ at' = [at EXCEPT ![s] = clock]
    /\ verdict' = [verdict EXCEPT ![s] = Judged(s)]
    /\ pc' = [pc EXCEPT ![s] = "locked"]
    /\ UNCHANGED <<files, clock, state, doc, verified>>

\* What a start keeps in memory ends with it.
Forget(s) ==
    /\ lock' = IF lock = s THEN NoStart ELSE lock
    /\ verified' = [verified EXCEPT ![s] = FALSE]
    /\ at' = [at EXCEPT ![s] = 0]
    /\ verdict' = [verdict EXCEPT ![s] = "none"]

\* A refusal is audited and committed, and the start is aborted.
Refuse(s) ==
    /\ pc[s] = "locked" /\ verdict[s] = "rejected"
    /\ audit' = Audited("rejected")
    /\ Forget(s)
    /\ pc' = [pc EXCEPT ![s] = "off"]
    /\ doc' = [doc EXCEPT ![s] = NoDoc]
    /\ UNCHANGED <<files, clock, accepted, active>>

\* The accepted row and the active version, unless the policy was restarted, and
\* the audit row are one commit.
Commit(s) ==
    /\ \/ /\ verdict[s] = "restarted"
          /\ UNCHANGED <<accepted, active>>
       \/ /\ verdict[s] \in {"accepted", "rollback_accepted"}
          /\ accepted' = accepted \cup {[doc |-> doc[s], at |-> at[s]]}
          /\ active' = doc[s].version
    /\ audit' = Audited(verdict[s])
    /\ Forget(s)
    /\ pc' = [pc EXCEPT ![s] = "running"]

\* Mutant: the policy is read from its file again once it is committed.
ActivateRereads(s) ==
    /\ pc[s] = "locked" /\ policyFile # NoDoc
    /\ Commit(s)
    /\ doc' = [doc EXCEPT ![s] = policyFile]
    /\ UNCHANGED <<files, clock>>

\* The bytes that were verified are the ones stored and the ones the agent runs.
Activate(s) ==
    /\ pc[s] = "locked"
    /\ Commit(s)
    /\ UNCHANGED <<files, clock, doc>>

\* A kill, a busy timeout or a failed read, write or commit ends the start; an
\* open transaction is rolled back.  A running agent stops the same way.
Stop(s) ==
    /\ pc[s] # "off"
    /\ Forget(s)
    /\ pc' = [pc EXCEPT ![s] = "off"]
    /\ doc' = [doc EXCEPT ![s] = NoDoc]
    /\ UNCHANGED <<files, clock, state>>

Environment ==
    \/ \E d \in Docs : DeployPolicy(d)
    \/ \E k \in Keys : SignFile(k)
    \/ \E t \in Times : SetClock(t)

Starting(s) ==
    \/ OpenState(s) \/ ReadPolicyFile(s) \/ ReadSignature(s)
    \/ Begin(s) \/ Refuse(s) \/ Activate(s)

Next ==
    \/ Environment
    \/ \E s \in Starts : Starting(s) \/ Stop(s)

Spec == Init /\ [][Next]_vars

-----------------------------------------------------------------------------
(* The tables and the starts hold what their types say, the audit never grows    *)
(* past its bound, and the write transaction belongs to the start that is in it. *)
TypeOK ==
    /\ policyFile \in Docs \cup {NoDoc} /\ sigFile \in Sigs \cup {NoSig}
    /\ clock \in Times
    /\ accepted \subseteq [doc : Docs, at : Times] /\ active \in Nat
    /\ audit \in Seq(Verdicts)
    /\ Len(audit) <= MaxAuditRows
    /\ lock \in Starts \cup {NoStart}
    /\ pc \in [Starts -> Pcs] /\ doc \in [Starts -> Docs \cup {NoDoc}]
    /\ verdict \in [Starts -> Verdicts \cup {"none"}]
    /\ verified \in [Starts -> BOOLEAN] /\ at \in [Starts -> Times]
    /\ \A s \in Starts : pc[s] = "locked" => lock = s

(* Whatever order the two files are replaced in, and however many agents start   *)
(* at once, the accepted history is authorised: every row is a document its      *)
(* signer endorsed, meant for this host and in force when the transaction judged *)
(* it; no version and no rollback approval occurs twice; and a rollback restores *)
(* the settings of an older accepted version, named by its hash.                 *)
AcceptedIsAuthorised ==
    \A r \in accepted :
        /\ r.doc \in Endorsed /\ CheckMetadata(r.doc, r.at)
        /\ \A q \in accepted : q.doc.version = r.doc.version => q = r
        /\ r.doc.rollback # NoRollback =>
              /\ \E q \in accepted : q.doc.version < r.doc.version
                    /\ q.doc.hash = r.doc.rollback.hash /\ q.doc.settings = r.doc.settings
              /\ \A q \in accepted \ {r} : q.doc.rollback = NoRollback
                    \/ q.doc.rollback.approval # r.doc.rollback.approval

(* The tables are typed, bounded and authorised at every moment.                 *)
TablesAreSound == TypeOK /\ AcceptedIsAuthorised

(* Two agents that start together, or an old file put back, never lower the      *)
(* high-watermark: the active version is the newest accepted one, it never       *)
(* decreases, and no accepted row is ever rewritten or lost.                     *)
WatermarkHolds ==
    [][/\ active' >= active /\ accepted \subseteq accepted'
       /\ \A r \in accepted' : r.doc.version <= active']_vars

(* An agent never runs bytes that were not committed: the document that drives   *)
(* a running agent is an accepted row, whatever the files hold by then, and no   *)
(* agent was started with a version older than the active one at that moment.    *)
RunsWhatWasCommitted ==
    [][\A s \in Starts : pc'[s] = "running" =>
          /\ \E r \in accepted' : r.doc = doc'[s]
          /\ pc[s] # "running" => doc'[s].version = active']_vars

=============================================================================
