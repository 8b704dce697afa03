---------------------------- MODULE VaultStorage ----------------------------
(***************************************************************************)
(* The storage of the vault server: Storage::put_inner of crates/argos-    *)
(* vault/src/server.rs, write_new of lib.rs and the capacity accounting of *)
(* quota.rs.                                                               *)
(*                                                                         *)
(* An object is two files in its agent's directory, body and receipt, each *)
(* written to a temporary file, linked to its name and synced.  The server *)
(* counts what it stores in memory and rebuilds the counts by a scan when  *)
(* it starts.  Requests run one at a time (the storage mutex); processes   *)
(* are kept apart by the writer lock.  A process may be killed, a step may *)
(* fail, and the machine may crash, which undoes directory changes that    *)
(* were not synced.  Free space is an environment's choice: put may always *)
(* be refused.                                                             *)
(***************************************************************************)
EXTENDS Naturals, FiniteSets

CONSTANTS
    Servers,      \* server processes
    Agents,
    Hashes,       \* contents, by sha256
    Size,         \* [Hashes -> bytes]
    Role,         \* [Hashes -> Kinds]: what a content is as a control object
    Configs,      \* CapacityConfig values, one chosen at each start
    MaxScan,      \* max_scan_entries
    KeepsParents, \* syncing a directory also keeps its own new entry
    MaxFaults,    \* bound: crashes, failing steps, damaged bodies
    None

VARIABLES
    dir,       \* the directory of an agent
    temp,      \* the temporary file in it
    blob,      \* <hash>.blob
    rcpt,      \* <hash>.receipt.json
    kind,      \* the kind an object was stored as
    bad,       \* objects whose body was changed from outside
    up,        \* the servers that run
    ok,        \* ... with storage_consistent
    whole,     \* ... with reconstruction_complete
    cfg,       \* ... their configuration
    use, rev,  \* ... their counts of objects, and of revocations among them
    op,        \* ... the put they are in
    answered,  \* receipts that were returned
    faults

disk == <<dir, temp, blob, rcpt, kind, bad>>
mem == <<up, ok, whole, cfg, use, rev>>
vars == <<disk, mem, op, answered, faults>>

Kinds == {"plain", "control", "revoke"}
Keys == Agents \X Hashes
Count == [objs : Nat, bytes : Nat, done : Nat]
Limit == [objs : Nat, bytes : Nat]
Budget == [all : Limit, agent : [Agents -> Limit]]

\* "new": seen by everyone but not synced; "twin": the same, and still linked
\* to its temporary file; "gone": removed but not synced.
DirStates == {"absent", "new", "kept"}
FileStates == {"absent", "twin", "new", "kept"}
TempStates == {"absent", "new", "kept", "gone"}

Steps == {"dir", "root", "temp", "link", "unlink", "sync", "finish"}
Op == [a : Agents, h : Hashes, kind : Kinds, file : {"blob", "rcpt"}, step : Steps]

ASSUME StorageAssumption ==
    /\ Size \in [Hashes -> Nat] /\ Role \in [Hashes -> Kinds]
    /\ IsFiniteSet(Agents) /\ IsFiniteSet(Hashes)
    /\ Configs \subseteq [normal : Budget, revoke : Budget]
    /\ None \notin Op
    /\ MaxScan \in Nat /\ MaxFaults \in Nat /\ KeepsParents \in BOOLEAN

-----------------------------------------------------------------------------
(* Helpers *)

Fault == faults < MaxFaults /\ faults' = faults + 1

TempSeen(a) == temp[a] \in {"new", "kept"}

\* read_storage_file wants regular files with a single link.
Readable(f) == f \in {"new", "kept"}

\* StorageReader::get: both files are there and fit together.
Get(k) == Readable(blob[k]) /\ Readable(rcpt[k]) /\ k \notin bad

Zero == [objs |-> 0, bytes |-> 0, done |-> 0]

Plus(c, n) == [objs |-> c.objs + 1, bytes |-> c.bytes + n, done |-> c.done]

Done(c) == [objs |-> c.objs, bytes |-> c.bytes, done |-> c.done + 1]

\* The sum of the values of f, as the size of a set.
SumOf(f) == Cardinality(UNION {{x} \X (1 .. f[x]) : x \in DOMAIN f})

Bytes(S) == SumOf([k \in S |-> Size[k[2]]])

CountOf(S, verified) ==
    [objs |-> Cardinality(S), bytes |-> Bytes(S), done |-> Cardinality(S \cap verified)]

Of(a, S) == {k \in S : k[1] = a}

\* revocation_enabled
Enabled(c) ==
    /\ c.revoke.all.objs > 0 /\ c.revoke.all.bytes > 0
    /\ \A a \in Agents : c.revoke.agent[a].objs > 0 /\ c.revoke.agent[a].bytes > 0

Fits(c, lim, n) == c.bytes < lim.bytes /\ c.bytes + n <= lim.bytes /\ c.objs + 1 <= lim.objs

Minus(c, d) == [objs |-> c.objs - d.objs, bytes |-> c.bytes - d.bytes, done |-> c.done - d.done]

Total(f) == [objs |-> SumOf([a \in Agents |-> f[a].objs]),
             bytes |-> SumOf([a \in Agents |-> f[a].bytes])]

\* admit: what the object is charged to has room, for all agents and for its own.
Admit(s, a, n, revoke) ==
    LET used == IF revoke THEN rev[s] ELSE [b \in Agents |-> Minus(use[s][b], rev[s][b])]
        budget == IF revoke THEN cfg[s].revoke ELSE cfg[s].normal
    IN /\ s \in ok \cap whole
       /\ Fits(Total(used), budget.all, n)
       /\ Fits(used[a], budget.agent[a], n)

Init ==
    /\ dir = [a \in Agents |-> "absent"]
    /\ temp = [a \in Agents |-> "absent"]
    /\ blob = [k \in Keys |-> "absent"]
    /\ rcpt = [k \in Keys |-> "absent"]
    /\ kind = [k \in Keys |-> None]
    /\ bad = {}
    /\ up = {} /\ ok = {} /\ whole = {}
    /\ cfg \in [Servers -> Configs] /\ \A s, t \in Servers : cfg[s] = cfg[t]
    /\ use = [s \in Servers |-> [a \in Agents |-> Zero]]
    /\ rev = [s \in Servers |-> [a \in Agents |-> Zero]]
    /\ op = [s \in Servers |-> None]
    /\ answered = {}
    /\ faults = 0

-----------------------------------------------------------------------------
(* Starting: CapacityState::open *)

Seen == {k \in Keys : Readable(blob[k])}

\* What the scan accepts.  The body is hashed for control objects only.
Verified == {k \in Seen : Readable(rcpt[k]) /\ (kind[k] = "plain" \/ k \notin bad)}

Revocations(c) == IF Enabled(c) THEN {k \in Verified : kind[k] = "revoke"} ELSE {}

Entries ==
    1 + Cardinality({a \in Agents : dir[a] # "absent"}) + Cardinality({a \in Agents : TempSeen(a)})
      + Cardinality({k \in Keys : blob[k] # "absent"}) + Cardinality({k \in Keys : rcpt[k] # "absent"})

\* No temporary file, and every object has a verified receipt.
Sound ==
    /\ \A a \in Agents : ~TempSeen(a)
    /\ \A k \in Keys : (blob[k] # "absent" \/ rcpt[k] # "absent") => k \in Verified

\* Mutant: the lock is not taken.
AloneNot == TRUE

\* The lock refuses a second server.
Alone == up = {}

\* A scan that meets too many entries, or a file it cannot take, stays incomplete.
Start(s, c) ==
    /\ s \notin up /\ Alone
    /\ \E S \in SUBSET Seen :
          /\ Entries <= MaxScan => S = Seen
          /\ use' = [use EXCEPT ![s] = [a \in Agents |-> CountOf(Of(a, S), Verified)]]
          /\ rev' = [rev EXCEPT ![s] = [a \in Agents |-> CountOf(Of(a, S \cap Revocations(c)), Verified)]]
    /\ up' = up \cup {s}
    /\ whole' = IF Entries <= MaxScan /\ \A k \in Keys : blob[k] # "twin" THEN whole \cup {s} ELSE whole
    /\ ok' = IF Sound /\ Entries <= MaxScan THEN ok \cup {s} ELSE ok
    /\ cfg' = [cfg EXCEPT ![s] = c]
    /\ UNCHANGED <<disk, op, answered, faults>>

-----------------------------------------------------------------------------
(* put_inner *)

Free(s) == s \in up /\ op[s] = None

\* write_failed: no new object until the server is restarted.
WriteFailed(s) == ok' = ok \ {s}

\* Syncing the directory of an agent.
Kept(f) == IF f = "new" THEN "kept" ELSE f

SyncFiles(a) ==
    /\ blob' = [k \in Keys |-> IF k[1] = a THEN Kept(blob[k]) ELSE blob[k]]
    /\ rcpt' = [k \in Keys |-> IF k[1] = a THEN Kept(rcpt[k]) ELSE rcpt[k]]
    /\ temp' = [temp EXCEPT ![a] = IF @ = "gone" THEN "absent" ELSE @]
    /\ dir' = IF KeepsParents THEN [dir EXCEPT ![a] = Kept(@)] ELSE dir

\* Mutant: the receipt is returned without syncing the directory first.
PutAgainUnsynced(s, k, d) ==
    /\ Free(s)
    /\ Get(k) /\ kind[k] = d
    /\ answered' = answered \cup {<<k, d>>}
    /\ UNCHANGED <<disk, mem, op, faults>>

\* The object is there: its receipt is returned again, whatever the room.
PutAgain(s, k, d) ==
    /\ Free(s)
    /\ Get(k) /\ kind[k] = d
    /\ \/ SyncFiles(k[1]) /\ answered' = answered \cup {<<k, d>>} /\ UNCHANGED <<ok, faults>>
       \/ Fault /\ WriteFailed(s) /\ UNCHANGED <<dir, temp, blob, rcpt, answered>>
    /\ UNCHANGED <<kind, bad, up, whole, cfg, use, rev, op>>

\* The object does not verify, or is half published.
PutBroken(s, k) ==
    /\ Free(s)
    /\ blob[k] # "absent" \/ rcpt[k] # "absent"
    /\ ~Get(k)
    /\ WriteFailed(s)
    /\ UNCHANGED <<disk, up, whole, cfg, use, rev, op, answered, faults>>

\* A new object: its room is reserved before anything is written.
PutNew(s, k, d) ==
    /\ Free(s)
    /\ d \in {"plain", Role[k[2]]}
    /\ blob[k] = "absent" /\ rcpt[k] = "absent"
    /\ LET revoke == d = "revoke" /\ Enabled(cfg[s]) IN
         /\ Admit(s, k[1], Size[k[2]], revoke)
         /\ use' = [use EXCEPT ![s][k[1]] = Plus(@, Size[k[2]])]
         /\ rev' = IF revoke THEN [rev EXCEPT ![s][k[1]] = Plus(@, Size[k[2]])] ELSE rev
    /\ op' = [op EXCEPT ![s] = [a |-> k[1], h |-> k[2], kind |-> d, file |-> "blob", step |-> "dir"]]
    /\ UNCHANGED <<disk, up, ok, whole, cfg, answered, faults>>

At(s, step) == s \in up /\ op[s] # None /\ op[s].step = step

Goto(s, file, step) ==
    op' = [op EXCEPT ![s] = [a |-> @.a, h |-> @.h, kind |-> @.kind, file |-> file, step |-> step]]

Key(s) == <<op[s].a, op[s].h>>

\* Storage::directory
MakeDir(s) ==
    /\ At(s, "dir")
    /\ IF dir[op[s].a] = "absent"
         THEN dir' = [dir EXCEPT ![op[s].a] = "new"] /\ Goto(s, "blob", "root")
         ELSE dir' = dir /\ Goto(s, "blob", "temp")
    /\ UNCHANGED <<temp, blob, rcpt, kind, bad, mem, answered, faults>>

SyncRoot(s) ==
    /\ At(s, "root")
    /\ dir' = [a \in Agents |-> Kept(dir[a])]
    /\ Goto(s, "blob", "temp")
    /\ UNCHANGED <<temp, blob, rcpt, kind, bad, mem, answered, faults>>

\* write_new, for the body and then for the receipt: the content is written
\* and synced under a temporary name, ...
WriteTemp(s) ==
    /\ At(s, "temp")
    /\ temp' = [temp EXCEPT ![op[s].a] = "new"]
    /\ Goto(s, op[s].file, "link")
    /\ UNCHANGED <<dir, blob, rcpt, kind, bad, mem, answered, faults>>

\* ... linked to its name unless that exists, ...
Link(s) ==
    /\ At(s, "link")
    /\ IF op[s].file = "blob"
         THEN /\ blob[Key(s)] = "absent"
              /\ blob' = [blob EXCEPT ![Key(s)] = "twin"]
              /\ kind' = [kind EXCEPT ![Key(s)] = op[s].kind]
              /\ bad' = bad \ {Key(s)}
              /\ rcpt' = rcpt
         ELSE /\ rcpt[Key(s)] = "absent"
              /\ rcpt' = [rcpt EXCEPT ![Key(s)] = "twin"]
              /\ UNCHANGED <<blob, kind, bad>>
    /\ Goto(s, op[s].file, "unlink")
    /\ UNCHANGED <<dir, temp, mem, answered, faults>>

Single(f) == IF f = "twin" THEN "new" ELSE f

\* ... its temporary name removed ...
Unlink(s) ==
    /\ At(s, "unlink")
    /\ temp' = [temp EXCEPT ![op[s].a] = "gone"]
    /\ blob' = [blob EXCEPT ![Key(s)] = Single(@)]
    /\ rcpt' = [rcpt EXCEPT ![Key(s)] = Single(@)]
    /\ Goto(s, op[s].file, "sync")
    /\ UNCHANGED <<dir, kind, bad, mem, answered, faults>>

\* ... and the directory synced.
SyncDir(s) ==
    /\ At(s, "sync")
    /\ SyncFiles(op[s].a)
    /\ IF op[s].file = "blob" THEN Goto(s, "rcpt", "temp") ELSE Goto(s, "rcpt", "finish")
    /\ UNCHANGED <<kind, bad, mem, answered, faults>>

\* mark_receipted and the answer.
Finish(s) ==
    /\ At(s, "finish")
    /\ use' = [use EXCEPT ![s][op[s].a] = Done(@)]
    /\ rev' = IF op[s].kind = "revoke" /\ Enabled(cfg[s])
                THEN [rev EXCEPT ![s][op[s].a] = Done(@)] ELSE rev
    /\ answered' = answered \cup {<<Key(s), op[s].kind>>}
    /\ op' = [op EXCEPT ![s] = None]
    /\ UNCHANGED <<disk, up, ok, whole, cfg, faults>>

\* What write_new leaves of its temporary file when it fails.
AfterFailure(s) ==
    \/ UNCHANGED <<temp, blob, rcpt>>
    \/ /\ temp[op[s].a] = "new"
       /\ temp' = [temp EXCEPT ![op[s].a] = "gone"]
       /\ blob' = [blob EXCEPT ![Key(s)] = Single(@)]
       /\ rcpt' = [rcpt EXCEPT ![Key(s)] = Single(@)]

\* A step of the publication fails: the reservation stays, and no new object
\* is taken until the next start.
Fail(s) ==
    /\ s \in up /\ op[s] # None
    /\ Fault
    /\ AfterFailure(s)
    /\ WriteFailed(s)
    /\ op' = [op EXCEPT ![s] = None]
    /\ UNCHANGED <<dir, kind, bad, up, whole, cfg, use, rev, answered>>

-----------------------------------------------------------------------------
(* Faults and repair *)

Forget(S) ==
    /\ up' = up \ S /\ ok' = ok \ S /\ whole' = whole \ S
    /\ use' = [s \in Servers |-> IF s \in S THEN [a \in Agents |-> Zero] ELSE use[s]]
    /\ rev' = [s \in Servers |-> IF s \in S THEN [a \in Agents |-> Zero] ELSE rev[s]]
    /\ op' = [s \in Servers |-> IF s \in S THEN None ELSE op[s]]
    /\ cfg' = cfg

Kill(s) ==
    /\ s \in up
    /\ Fault
    /\ Forget({s})
    /\ UNCHANGED <<disk, answered>>

\* The machine stops: what was not synced is there afterwards, or is not.
SystemCrash ==
    /\ Fault
    /\ Forget(Servers)
    /\ \E D \in SUBSET {a \in Agents : dir[a] = "new"},
          T \in SUBSET {a \in Agents : temp[a] \in {"new", "gone"}},
          B \in SUBSET {k \in Keys : blob[k] \in {"new", "twin"}},
          R \in SUBSET {k \in Keys : rcpt[k] \in {"new", "twin"}} :
         LET t(a) == IF a \in D \/ a \in T \/ temp[a] = "absent" THEN "absent" ELSE "kept"
             f(x, k, L) == IF k[1] \in D \/ k \in L \/ x = "absent" THEN "absent"
                           ELSE IF x = "twin" /\ t(k[1]) = "kept" THEN "twin" ELSE "kept"
         IN /\ dir' = [a \in Agents |-> IF a \in D \/ dir[a] = "absent" THEN "absent" ELSE "kept"]
            /\ temp' = [a \in Agents |-> t(a)]
            /\ blob' = [k \in Keys |-> f(blob[k], k, B)]
            /\ rcpt' = [k \in Keys |-> f(rcpt[k], k, R)]
    /\ UNCHANGED <<kind, bad, answered>>

Damage(k) ==
    /\ Readable(blob[k]) /\ k \notin bad
    /\ Fault
    /\ bad' = bad \cup {k}
    /\ UNCHANGED <<dir, temp, blob, rcpt, kind, mem, op, answered>>

\* The administrator removes what a crash left in a directory.
Repair(a) ==
    /\ up = {}
    /\ dir[a] # "absent"
    /\ LET partial(k) == k[1] = a /\ (blob[k] = "absent" \/ rcpt[k] = "absent")
           f(x, k) == IF k[1] # a \/ x = "absent" THEN x ELSE IF partial(k) THEN "absent" ELSE "kept"
       IN /\ blob' = [k \in Keys |-> f(blob[k], k)]
          /\ rcpt' = [k \in Keys |-> f(rcpt[k], k)]
    /\ temp' = [temp EXCEPT ![a] = "absent"]
    /\ UNCHANGED <<dir, kind, bad, mem, op, answered, faults>>

-----------------------------------------------------------------------------
PutStep(s) ==
    \/ MakeDir(s) \/ SyncRoot(s) \/ WriteTemp(s) \/ Link(s) \/ Unlink(s) \/ SyncDir(s)
    \/ Finish(s)

Next ==
    \/ \E s \in Servers, c \in Configs : Start(s, c)
    \/ \E s \in Servers, k \in Keys, d \in Kinds : PutNew(s, k, d) \/ PutAgain(s, k, d)
    \/ \E s \in Servers, k \in Keys : PutBroken(s, k)
    \/ \E s \in Servers : PutStep(s) \/ Fail(s) \/ Kill(s)
    \/ SystemCrash
    \/ \E k \in Keys : Damage(k)
    \/ \E a \in Agents : Repair(a)

Spec == Init /\ [][Next]_vars

-----------------------------------------------------------------------------
(* Properties *)

\* Every variable keeps its type; in particular no count falls below zero, and
\* only a server that runs vouches for its storage.
TypeOK ==
    /\ dir \in [Agents -> DirStates] /\ temp \in [Agents -> TempStates]
    /\ blob \in [Keys -> FileStates] /\ rcpt \in [Keys -> FileStates]
    /\ kind \in [Keys -> Kinds \cup {None}] /\ bad \subseteq Keys
    /\ up \subseteq Servers /\ ok \subseteq up /\ whole \subseteq up
    /\ cfg \in [Servers -> Configs]
    /\ use \in [Servers -> [Agents -> Count]] /\ rev \in [Servers -> [Agents -> Count]]
    /\ op \in [Servers -> Op \cup {None}]
    /\ answered \subseteq Keys \X Kinds
    /\ faults \in 0 .. MaxFaults

\* A receipt on disk always has its body, synced before it: readers that hold
\* no lock, and a scan after a crash, never meet a receipt alone.
ReceiptHasBody == \A k \in Keys : rcpt[k] # "absent" => blob[k] = "kept"

\* A receipt that was returned stays: whatever fails or crashes later, both
\* files are there, stored as what the receipt says.
AnsweredIsKept ==
    \A r \in answered : blob[r[1]] = "kept" /\ rcpt[r[1]] = "kept" /\ kind[r[1]] = r[2]

\* As long as a server vouches for its counts they are what a restart with
\* the same configuration would find on disk.
CountsAreTrue ==
    \A s \in ok \cap whole : (op[s] = None /\ bad = {}) =>
        \A a \in Agents :
            /\ use[s][a] = CountOf(Of(a, Seen), Verified)
            /\ rev[s][a] = CountOf(Of(a, Revocations(cfg[s])), Verified)

\* What put_inner promised is on disk and counted, whatever failed or crashed.
StorageIsSound == TypeOK /\ ReceiptHasBody /\ AnsweredIsKept /\ CountsAreTrue

Charged(s, S) == IF Enabled(cfg[s]) THEN {k \in S : kind'[k] # "revoke"} ELSE S

\* A new body appears only within the limits of the running server: neither
\* two servers, nor uploads and revocations together, nor counts rebuilt
\* after a crash let the disk outgrow them, and revocations do not use up
\* the room of other objects.
StaysWithinLimits ==
    [][\A s \in up, k \in Keys : (blob[k] = "absent" /\ blob'[k] # "absent") =>
          LET stored == {j \in Keys : blob'[j] # "absent"}
              mine == IF k \in Charged(s, {k}) THEN Charged(s, stored) ELSE stored \ Charged(s, stored)
              budget == IF k \in Charged(s, {k}) THEN cfg[s].normal ELSE cfg[s].revoke
          IN /\ Cardinality(mine) <= budget.all.objs /\ Bytes(mine) <= budget.all.bytes
             /\ Cardinality(Of(k[1], mine)) <= budget.agent[k[1]].objs
             /\ Bytes(Of(k[1], mine)) <= budget.agent[k[1]].bytes]_vars
=============================================================================
