---------------------------- MODULE BundleCatalog ----------------------------
(***************************************************************************)
(* The catalogue of backup bundles on the vault server: crates/argos-vault *)
(* src/bundle/server.rs (register, complete, review).                      *)
(*                                                                         *)
(* Manifest, completion and reviews of a bundle are control objects in the *)
(* storage, tied together by rows of a database.  Object and row are       *)
(* written one after the other, so completions and reviews are first noted *)
(* as intents, and the number of control objects a bundle owns is compared *)
(* with its rows before anything is believed.  The storage is seen as      *)
(* VaultStorage presents it: an object is stored whole, refused, or its    *)
(* failure stops all new objects until a restart.  Requests hold the       *)
(* storage mutex; a completion hashes the chunks without it.  One agent,   *)
(* which bundle ids stand for.                                             *)
(***************************************************************************)
EXTENDS Naturals, Sequences, FiniteSets

CONSTANTS
    Ids,         \* bundle ids
    Manifests,   \* manifests, by content
    IdOf,        \* [Manifests -> Ids]
    Chunks,      \* the chunks of the bundles
    Good,        \* review requests with decision "good"
    Revoked,     \* review requests with decision "revoked"
    Completers,  \* concurrent completion requests
    MaxReviews,  \* MAX_REVIEWS
    MaxFaults,   \* bound: kills, refused or failing writes, damaged chunks
    None

VARIABLES
    row,       \* bundles: the manifest of a bundle id
    done,      \* ... and its completion
    reviews,   \* reviews, in their sequence
    toDo,      \* intents: complete
    toReview,  \* intents: review
    toRevoke,  \* intents: revoke
    dropped,   \* intents: superseded-review-*
    stored,    \* control objects in the storage
    up,
    ok,        \* storage_consistent
    owners,    \* bundle_control_owners
    act,       \* the request that holds the mutex
    comp,      \* completions: the bundle and the chunks hashed so far
    chunk,     \* the chunks in the storage
    asked,     \* history: revocations whose intent was stored
    acked,     \* history: reviews that were confirmed
    faults

rows == <<row, done, reviews, toDo, toReview, toRevoke, dropped>>
store == <<stored, up, ok, owners>>
ghosts == <<asked, acked>>
vars == <<rows, store, act, comp, chunk, ghosts, faults>>

Requests == Good \cup Revoked

ASSUME CatalogAssumption ==
    /\ IdOf \in [Manifests -> Ids] /\ Good \cap Revoked = {}
    /\ MaxReviews \in Nat \ {0} /\ MaxFaults \in Nat
    /\ None \notin Manifests /\ None \notin Ids /\ None \notin Requests

\* A signature is made at a time: "at" tells two signings of one request apart.
Completion == [man : Manifests, at : 0 .. MaxFaults]
Event == [req : Requests, seq : 1 .. MaxReviews, at : 0 .. MaxFaults]
Body == Manifests \cup Completion \cup Event
Object == [id : Ids, body : Body]

\* Manifests are told apart from what is signed later, and None from all of them.
ASSUME BodyAssumption ==
    /\ Manifests \cap (Completion \cup Event) = {} /\ None \notin Completion \cup Event
    /\ None \notin [id : Ids, step : {"put", "row", "settle", "event"},
                    body : Body \cup {None}, req : Requests \cup {None}]

-----------------------------------------------------------------------------
(* Helpers *)

Fault == faults < MaxFaults /\ faults' = faults + 1

Obj(b, x) == [id |-> b, body |-> x]

Stored(b, x) == x # None /\ Obj(b, x) \in stored

Reviewed(b) == {reviews[b][i].req : i \in 1 .. Len(reviews[b])}

One(test) == IF test THEN 1 ELSE 0

\* The control objects the rows of a bundle account for ...
Expected(b) == 1 + One(done[b] # None) + Len(reviews[b])

\* ... and those its intents explain.
Pending(b) == One(Stored(b, toDo[b])) + One(Stored(b, toReview[b]))

\* bundle_coverage with repair: the storage is sound, the intents continue the
\* rows, and they explain every control object of the bundle.
Repairable(b) ==
    /\ ok
    /\ toDo[b] # None => done[b] = None
    /\ toReview[b] # None => toReview[b].seq = Len(reviews[b]) + 1
    /\ owners[b] = Expected(b) + Pending(b)

\* Mutant: a revocation counts once it is signed.
ShownUntilSigned(b) ==
    /\ row[b] # None
    /\ toReview[b] # None => toReview[b].req \in Good
    /\ ok /\ owners[b] = Expected(b)

\* record: what a bundle is shown as, if it is shown at all.
Shown(b) ==
    /\ row[b] # None
    /\ toRevoke[b] = None
    /\ toReview[b] # None => toReview[b].req \in Good
    /\ ok /\ owners[b] = Expected(b)

Recommended(b) ==
    /\ up /\ act = None
    /\ Shown(b)
    /\ done[b] # None /\ reviews[b] # <<>>
    /\ reviews[b][Len(reviews[b])].req \in Good

Owned == [b \in Ids |-> Cardinality({o \in stored : o.id = b})]

Init ==
    /\ row = [b \in Ids |-> None] /\ done = [b \in Ids |-> None]
    /\ reviews = [b \in Ids |-> <<>>]
    /\ toDo = [b \in Ids |-> None] /\ toReview = [b \in Ids |-> None]
    /\ toRevoke = [b \in Ids |-> None] /\ dropped = [b \in Ids |-> {}]
    /\ stored = {} /\ up = TRUE /\ ok = TRUE /\ owners = [b \in Ids |-> 0]
    /\ act = None
    /\ comp = [p \in Completers |-> [id |-> None, read |-> {}]]
    /\ chunk = [c \in Chunks |-> "good"]
    /\ asked = [b \in Ids |-> {}] /\ acked = [b \in Ids |-> {}]
    /\ faults = 0

-----------------------------------------------------------------------------
(* Steps of a request under the mutex *)

Free == up /\ act = None

At(step) == up /\ act # None /\ act.step = step

\* A request: its bundle, what it publishes, for which review request.
Request(b, step, body, req) == [id |-> b, step |-> step, body |-> body, req |-> req]

\* Storage::put: an object that is there is returned, a new one is stored and
\* counted; the request fails if it is refused or cannot be written.
Put ==
    /\ At("put")
    /\ \/ /\ Stored(act.id, act.body)
          /\ act' = [act EXCEPT !.step = "row"]
          /\ UNCHANGED <<stored, ok, owners, faults>>
       \/ /\ ok /\ ~Stored(act.id, act.body)
          /\ act' = [act EXCEPT !.step = "row"]
          /\ stored' = stored \cup {Obj(act.id, act.body)}
          /\ owners' = [owners EXCEPT ![act.id] = @ + 1]
          /\ UNCHANGED <<ok, faults>>
       \/ /\ ok /\ ~Stored(act.id, act.body)
          /\ Fault
          /\ act' = None
          /\ \/ UNCHANGED <<stored, ok>>
             \/ ok' = FALSE /\ stored' \in {stored, stored \cup {Obj(act.id, act.body)}}
          /\ UNCHANGED owners
       \/ /\ ~ok /\ ~Stored(act.id, act.body)
          /\ act' = None
          /\ UNCHANGED <<stored, ok, owners, faults>>
    /\ UNCHANGED <<rows, up, comp, chunk, ghosts>>

-----------------------------------------------------------------------------
(* register_inner *)

Register(m) ==
    /\ Free
    /\ row[IdOf[m]] = None
    /\ act' = Request(IdOf[m], "put", m, None)
    /\ UNCHANGED <<rows, store, comp, chunk, ghosts, faults>>

RowManifest ==
    /\ At("row") /\ act.body \in Manifests
    /\ row' = [row EXCEPT ![act.id] = act.body]
    /\ act' = None
    /\ UNCHANGED <<done, reviews, toDo, toReview, toRevoke, dropped, store, comp, chunk, ghosts, faults>>

-----------------------------------------------------------------------------
(* complete_unlocked *)

CompleteBegin(p, b) ==
    /\ Free
    /\ comp[p].id = None
    /\ row[b] # None /\ Repairable(b) /\ done[b] = None
    /\ comp' = [comp EXCEPT ![p] = [id |-> b, read |-> {}]]
    /\ UNCHANGED <<rows, store, act, chunk, ghosts, faults>>

\* The chunks are read and hashed without the mutex; one that is not as its
\* receipt says ends the request.
ReadChunk(p, c) ==
    /\ up
    /\ comp[p].id # None /\ c \notin comp[p].read
    /\ comp' = [comp EXCEPT ![p] = IF chunk[c] = "good"
                                     THEN [id |-> @.id, read |-> @.read \cup {c}]
                                     ELSE [id |-> None, read |-> {}]]
    /\ UNCHANGED <<rows, store, act, chunk, ghosts, faults>>

\* Mutant: the files are not compared again under the mutex.
UnchangedAssumed(p) == TRUE

\* FileStamp::unchanged
Unchanged(p) == \A c \in comp[p].read : chunk[c] = "good"

\* Under the mutex again: another request may have completed the bundle.
CompleteCommit(p) ==
    /\ Free
    /\ comp[p].id # None /\ comp[p].read = Chunks
    /\ LET b == comp[p].id IN
         \/ /\ Repairable(b) /\ done[b] = None /\ Unchanged(p)
            /\ toDo' = [toDo EXCEPT ![b] = IF @ = None THEN [man |-> row[b], at |-> faults] ELSE @]
            /\ act' = Request(b, "put", toDo'[b], None)
         \/ /\ ~(Repairable(b) /\ done[b] = None /\ Unchanged(p))
            /\ UNCHANGED <<toDo, act>>
    /\ comp' = [comp EXCEPT ![p] = [id |-> None, read |-> {}]]
    /\ UNCHANGED <<row, done, reviews, toReview, toRevoke, dropped, store, chunk, ghosts, faults>>

RowCompletion ==
    /\ At("row") /\ act.body \in Completion
    /\ done[act.id] = None
    /\ done' = [done EXCEPT ![act.id] = act.body]
    /\ toDo' = [toDo EXCEPT ![act.id] = None]
    /\ act' = None
    /\ UNCHANGED <<row, reviews, toReview, toRevoke, dropped, store, comp, chunk, ghosts, faults>>

-----------------------------------------------------------------------------
(* review_inner *)

Superseded(b) == {e.req : e \in dropped[b]}

Reviewable(b, r) ==
    /\ Free
    /\ row[b] # None /\ Repairable(b)
    /\ r \notin Reviewed(b) \cup Superseded(b)
    /\ done[b] # None

\* retain_revocation_intent: a revocation is noted before anything else, and
\* only one at a time.
Revoke(b, r) ==
    /\ Reviewable(b, r) /\ r \in Revoked
    /\ toRevoke[b] \in {None, r}
    /\ toRevoke' = [toRevoke EXCEPT ![b] = r]
    /\ asked' = [asked EXCEPT ![b] = @ \cup {r}]
    /\ act' = Request(b, "settle", None, r)
    /\ UNCHANGED <<row, done, reviews, toDo, toReview, dropped, store, comp, chunk, acked, faults>>

\* Mutant: a published review is put aside like an unpublished one.
SettleAside ==
    /\ At("settle")
    /\ LET b == act.id
           e == toReview[b]
       IN \/ /\ (IF e = None THEN TRUE ELSE e.req \notin Good)
             /\ act' = [act EXCEPT !.step = "event"]
             /\ UNCHANGED <<toReview, dropped>>
          \/ /\ e # None /\ e.req \in Good
             /\ toReview' = [toReview EXCEPT ![b] = None]
             /\ dropped' = [dropped EXCEPT ![b] = @ \cup {e}]
             /\ act' = [act EXCEPT !.step = "event"]
    /\ UNCHANGED <<row, done, reviews, toDo, toRevoke, store, comp, chunk, ghosts, faults>>

\* settle_pending_good: an unfinished "good" is entered if its object was
\* published, and put aside for ever if not.
Settle ==
    /\ At("settle")
    /\ LET b == act.id
           e == toReview[b]
       IN \/ /\ (IF e = None THEN TRUE ELSE e.req \notin Good)
             /\ act' = [act EXCEPT !.step = "event"]
             /\ UNCHANGED <<reviews, toReview, dropped>>
          \/ /\ e # None /\ e.req \in Good
             /\ toReview' = [toReview EXCEPT ![b] = None]
             /\ IF Stored(b, e)
                  THEN reviews' = [reviews EXCEPT ![b] = Append(@, e)] /\ UNCHANGED dropped
                  ELSE /\ Cardinality(dropped[b]) < MaxReviews
                       /\ dropped' = [dropped EXCEPT ![b] = @ \cup {e}]
                       /\ UNCHANGED reviews
             /\ act' = [act EXCEPT !.step = "event"]
          \/ /\ e # None /\ e.req \in Good /\ ~Stored(b, e)
             /\ Cardinality(dropped[b]) >= MaxReviews
             /\ act' = None
             /\ UNCHANGED <<reviews, toReview, dropped>>
    /\ UNCHANGED <<row, done, toDo, toRevoke, store, comp, chunk, ghosts, faults>>

\* A good review waits for a revocation that is under way.
Approve(b, r) ==
    /\ Reviewable(b, r) /\ r \in Good
    /\ toRevoke[b] = None
    /\ act' = Request(b, "event", None, r)
    /\ UNCHANGED <<rows, store, comp, chunk, ghosts, faults>>

\* The last slot of the history is for a revocation.
HasSlot(b, r) == Len(reviews[b]) + One(r \in Good) < MaxReviews

\* Mutant: every attempt signs its own event.
EventAnew ==
    /\ At("event")
    /\ LET b == act.id
           new == [req |-> act.req, seq |-> Len(reviews[b]) + 1, at |-> faults]
       IN IF HasSlot(b, act.req) /\ Repairable(b)
            THEN toReview' = [toReview EXCEPT ![b] = new] /\ act' = Request(b, "put", new, act.req)
            ELSE toReview' = toReview /\ act' = None
    /\ UNCHANGED <<row, done, reviews, toDo, toRevoke, dropped, store, comp, chunk, ghosts, faults>>

\* The event is signed and noted, or the one noted before for the same request
\* is taken up again.
NoteEvent ==
    /\ At("event")
    /\ LET b == act.id
           new == [req |-> act.req, seq |-> Len(reviews[b]) + 1, at |-> faults]
           e == IF toReview[b] = None THEN new ELSE toReview[b]
       IN IF HasSlot(b, act.req) /\ Repairable(b)
            THEN /\ toReview' = [toReview EXCEPT ![b] = e]
                 /\ act' = IF e.req = act.req THEN Request(b, "put", e, act.req) ELSE None
            ELSE toReview' = toReview /\ act' = None
    /\ UNCHANGED <<row, done, reviews, toDo, toRevoke, dropped, store, comp, chunk, ghosts, faults>>

\* One transaction enters the review and strikes off its intents; then the
\* record is returned.
RowReview ==
    /\ At("row") /\ act.body \in Event
    /\ reviews' = [reviews EXCEPT ![act.id] = Append(@, act.body)]
    /\ toReview' = [toReview EXCEPT ![act.id] = None]
    /\ toRevoke' = IF act.req \in Revoked THEN [toRevoke EXCEPT ![act.id] = None] ELSE toRevoke
    /\ acked' = [acked EXCEPT ![act.id] = @ \cup {act.req}]
    /\ act' = None
    /\ UNCHANGED <<row, done, toDo, dropped, store, comp, chunk, asked, faults>>

-----------------------------------------------------------------------------
(* Faults *)

\* The database refuses a statement: the request fails where it is.
SqlError ==
    /\ up /\ act # None /\ act.step # "put"
    /\ Fault
    /\ act' = None
    /\ UNCHANGED <<rows, store, comp, chunk, ghosts>>

Kill ==
    /\ up
    /\ Fault
    /\ up' = FALSE
    /\ act' = None
    /\ comp' = [p \in Completers |-> [id |-> None, read |-> {}]]
    /\ UNCHANGED <<rows, stored, ok, owners, chunk, ghosts>>

\* The scan of VaultStorage counts the control objects; leftovers of a failed
\* write have been cleared by the administrator.
Restart ==
    /\ ~up \/ (~ok /\ act = None)
    /\ up' = TRUE /\ ok' = TRUE
    /\ owners' = Owned
    /\ act' = None
    /\ comp' = [p \in Completers |-> [id |-> None, read |-> {}]]
    /\ UNCHANGED <<rows, stored, chunk, ghosts, faults>>

Damage(c) ==
    /\ chunk[c] = "good"
    /\ Fault
    /\ chunk' = [chunk EXCEPT ![c] = "bad"]
    /\ UNCHANGED <<rows, store, act, comp, ghosts>>

-----------------------------------------------------------------------------
Step == Put \/ RowManifest \/ RowCompletion \/ Settle \/ NoteEvent \/ RowReview

Next ==
    \/ \E m \in Manifests : Register(m)
    \/ \E p \in Completers, b \in Ids : CompleteBegin(p, b)
    \/ \E p \in Completers, c \in Chunks : ReadChunk(p, c)
    \/ \E p \in Completers : CompleteCommit(p)
    \/ \E b \in Ids, r \in Requests : Revoke(b, r) \/ Approve(b, r)
    \/ Step
    \/ SqlError \/ Kill \/ Restart
    \/ \E c \in Chunks : Damage(c)

Spec == Init /\ [][Next]_vars

\* Requests under way go on, a stopped server is restarted, and the
\* administrator repeats a revocation that was not confirmed.
Retry(b) == toRevoke[b] # None /\ Revoke(b, toRevoke[b])

Fairness ==
    /\ WF_vars(Step) /\ WF_vars(Restart)
    /\ \A b \in Ids : SF_vars(Retry(b))

FairSpec == Spec /\ Fairness

-----------------------------------------------------------------------------
(* Properties *)

\* Every variable keeps its type; in particular the history of reviews and the
\* sequence numbers stay within MAX_REVIEWS.
TypeOK ==
    /\ row \in [Ids -> Manifests \cup {None}] /\ done \in [Ids -> Completion \cup {None}]
    /\ \A b \in Ids : /\ Len(reviews[b]) <= MaxReviews
                      /\ \A i \in 1 .. Len(reviews[b]) : reviews[b][i] \in Event
                      /\ dropped[b] \subseteq Event
    /\ toDo \in [Ids -> Completion \cup {None}] /\ toReview \in [Ids -> Event \cup {None}]
    /\ toRevoke \in [Ids -> Revoked \cup {None}]
    /\ stored \subseteq Object
    /\ up \in BOOLEAN /\ ok \in BOOLEAN /\ owners \in [Ids -> Nat]
    /\ act # None => act.id \in Ids /\ act.step \in {"put", "row", "settle", "event"}
    /\ comp \in [Completers -> [id : Ids \cup {None}, read : SUBSET Chunks]]
    /\ chunk \in [Chunks -> {"good", "bad"}]
    /\ asked \in [Ids -> SUBSET Revoked] /\ acked \in [Ids -> SUBSET Requests]
    /\ faults \in 0 .. MaxFaults

\* No failure leaves a bundle that cannot be repaired by sending the request
\* again: between requests, rows and intents account for every control object.
AlwaysRepairable ==
    \A b \in Ids : (Free /\ ok /\ row[b] # None) =>
        Repairable(b) \/ \E m \in Manifests : m # row[b] /\ Stored(b, m)

\* The history is numbered without gaps, has no request twice, ends with a
\* revocation when it is full, and has every review that was confirmed.
HistoryIsSound ==
    \A b \in Ids :
        /\ \A i \in 1 .. Len(reviews[b]) : reviews[b][i].seq = i /\ Stored(b, reviews[b][i])
        /\ Cardinality(Reviewed(b)) = Len(reviews[b])
        /\ Len(reviews[b]) = MaxReviews => reviews[b][MaxReviews].req \in Revoked
        /\ acked[b] \subseteq Reviewed(b)

\* The catalogue is sound between and during requests, whatever failed before:
\* typed, repairable, with a gapless history (MAX_REVIEWS and its last slot).
CatalogIsSound == TypeOK /\ AlwaysRepairable /\ HistoryIsSound

\* From the moment a revocation is noted, the bundle is recommended again only
\* by a good review entered after it.
RevocationHolds ==
    \A b \in Ids : Recommended(b) =>
        \A r \in asked[b] : r \in Reviewed(b)

\* A good review that a revocation replaced is never entered later.
SupersededStaysOut == \A b \in Ids : \A e \in dropped[b] : e.req \notin Reviewed(b)

\* A revocation is final for everything before it (review_inner, record_raw).
RevocationIsFinal == RevocationHolds /\ SupersededStaysOut

\* What is completed was whole when the completion was noted: every chunk was
\* hashed, and none changed between the hashing and the note.
CompletedIsWhole ==
    [][\A b \in Ids : (toDo[b] = None /\ toDo'[b] # None) => \A c \in Chunks : chunk[c] = "good"]_vars

\* While the history has room, a revocation that is noted and repeated is
\* entered in the end, whatever good review was half done before it.
RevocationEndsWithRoom ==
    \A b \in Ids : (toRevoke[b] # None /\ Len(reviews[b]) < MaxReviews) ~> toRevoke[b] = None
=============================================================================
