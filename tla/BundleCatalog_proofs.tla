------------------------ MODULE BundleCatalog_proofs ------------------------
(***************************************************************************)
(* Proofs about the bundle catalogue, for any bundles, manifests, review   *)
(* requests, concurrent completions, lengths of history and faults.        *)
(***************************************************************************)
EXTENDS BundleCatalog, FiniteSetTheorems, TLAPS

ActType == [id : Ids, step : {"put", "row", "settle", "event"},
            body : Body \cup {None}, req : Requests \cup {None}]

\* The types of TypeOK, with the history as a sequence and the request as a record.
Types ==
    /\ row \in [Ids -> Manifests \cup {None}] /\ done \in [Ids -> Completion \cup {None}]
    /\ reviews \in [Ids -> Seq(Event)] /\ dropped \in [Ids -> SUBSET Event]
    /\ toDo \in [Ids -> Completion \cup {None}] /\ toReview \in [Ids -> Event \cup {None}]
    /\ toRevoke \in [Ids -> Revoked \cup {None}]
    /\ stored \subseteq Object /\ IsFiniteSet(stored)
    /\ up \in BOOLEAN /\ ok \in BOOLEAN /\ owners \in [Ids -> Nat]
    /\ act \in ActType \cup {None}
    /\ comp \in [Completers -> [id : Ids \cup {None}, read : SUBSET Chunks]]
    /\ chunk \in [Chunks -> {"good", "bad"}]
    /\ asked \in [Ids -> SUBSET Revoked] /\ acked \in [Ids -> SUBSET Requests]
    /\ faults \in 0 .. MaxFaults

\* The control objects of a bundle, and the manifests among them.
Objects(b) == {o \in stored : o.id = b}
Manifested(b) == {m \in Manifests : Stored(b, m)}

\* Every control object is one that a row or an intent names, and rows name
\* only objects that are there.
Named(b) ==
    /\ row[b] # None => Stored(b, row[b])
    /\ done[b] # None => Stored(b, done[b])
    /\ \A c \in Completion : Stored(b, c) => c = done[b] \/ c = toDo[b]
    /\ \A e \in Event : Stored(b, e) => e = toReview[b] \/ \E i \in 1 .. Len(reviews[b]) : e = reviews[b][i]

\* Rows and intents account for as many control objects as there are.
Counted(b) ==
    /\ IsFiniteSet(Manifested(b))
    /\ Cardinality(Objects(b)) =
        Cardinality(Manifested(b)) + One(done[b] # None) + Len(reviews[b]) + Pending(b)

\* Intents continue the rows.
Intended(b) ==
    /\ toDo[b] # None => done[b] = None
    /\ toReview[b] # None =>
        /\ toReview[b].seq = Len(reviews[b]) + 1
        /\ toReview[b].req \notin Reviewed(b) \cup Superseded(b)
        /\ HasSlot(b, toReview[b].req)

\* HistoryIsSound and SupersededStaysOut, for one bundle.
History(b) ==
    /\ Len(reviews[b]) <= MaxReviews
    /\ \A i \in 1 .. Len(reviews[b]) : reviews[b][i].seq = i /\ Stored(b, reviews[b][i])
    /\ IsFiniteSet(Reviewed(b)) /\ Cardinality(Reviewed(b)) = Len(reviews[b])
    /\ Len(reviews[b]) = MaxReviews => reviews[b][MaxReviews].req \in Revoked
    /\ acked[b] \subseteq Reviewed(b)
    /\ \A e \in dropped[b] : e.req \notin Reviewed(b)

\* A revocation that was noted is entered, or still noted.
Noted(b) == \A r \in asked[b] : r \in Reviewed(b) \/ toRevoke[b] = r

\* A request publishes what is noted for it, reviews only what is not reviewed
\* yet, and a revocation stays noted while it is under way.
ActSound ==
    act # None =>
        /\ act.step \in {"put", "row"} =>
            /\ act.body # None
            /\ act.body \in Completion => act.body = toDo[act.id] /\ done[act.id] = None
            /\ act.body \in Event => act.body = toReview[act.id] /\ act.body.req = act.req
        /\ act.step = "row" => Stored(act.id, act.body)
        /\ act.step \in {"settle", "event"} =>
            act.req # None /\ act.req \notin Reviewed(act.id) \cup Superseded(act.id)
        /\ act.step = "settle" => act.req \in Revoked
        /\ act.req \in Revoked => toRevoke[act.id] = act.req

\* While the storage is sound, its counts are those of the objects.
CountsKept == ok => \A b \in Ids : owners[b] = Cardinality(Objects(b))

Sound(b) == Named(b) /\ Counted(b) /\ Intended(b) /\ History(b) /\ Noted(b)

\* What is being completed is registered.
Registered == \A p \in Completers : comp[p].id # None => row[comp[p].id] # None

Inv == Types /\ ActSound /\ Registered /\ CountsKept /\ \A b \in Ids : Sound(b)

-----------------------------------------------------------------------------
(* Manifests, completions and reviews differ, and None is none of them.      *)
LEMMA Different ==
    /\ \A c \in Completion : c \notin Event /\ c \notin Manifests /\ c # None
    /\ \A e \in Event : e \notin Completion /\ e \notin Manifests /\ e # None
    /\ \A m \in Manifests : m # None /\ m \in Body
    /\ Completion \subseteq Body /\ Event \subseteq Body
    /\ None \notin ActType /\ None \notin Requests /\ None \notin Ids /\ None \notin Body
<1>1. ASSUME NEW c \in Completion PROVE c \notin Event
    <2>1. DOMAIN c = {"man", "at"}
        BY Zenon DEF Completion
    <2>2. ASSUME c \in Event PROVE DOMAIN c = {"req", "seq", "at"}
        BY <2>2, Zenon DEF Event
    <2>3. "man" \notin {"req", "seq", "at"}
        OBVIOUS
    <2> QED BY <2>1, <2>2, <2>3
<1>2. None \notin Completion /\ None \notin Event /\ Manifests \cap (Completion \cup Event) = {}
    BY BodyAssumption
<1>3. None \notin ActType
    BY BodyAssumption DEF ActType
<1>4. None \notin Requests /\ None \notin Ids /\ None \notin Manifests
    BY CatalogAssumption
<1> QED BY <1>1, <1>2, <1>3, <1>4, Zenon DEF Body

(* An object is its bundle and what it says.                                 *)
LEMMA ObjIs ==
    ASSUME NEW b, NEW x
    PROVE  Obj(b, x).id = b /\ Obj(b, x).body = x
BY DEF Obj

(* A step of the request changes where it is and nothing else of it.         *)
LEMMA ActSteps ==
    ASSUME act \in ActType, NEW s \in {"put", "row", "settle", "event"}, act' = [act EXCEPT !.step = s]
    PROVE  /\ act' \in ActType
           /\ act'.id = act.id /\ act'.step = s /\ act'.body = act.body /\ act'.req = act.req
<1>1. act' = [id |-> act.id, step |-> s, body |-> act.body, req |-> act.req]
    BY Zenon DEF ActType
<1>2. act.id \in Ids /\ act.body \in Body \cup {None} /\ act.req \in Requests \cup {None}
    BY DEF ActType
<1>3. act' \in ActType
    BY <1>1, <1>2, Zenon DEF ActType
<1> QED BY <1>1, <1>3

(* The numbers the counting is about.                                        *)
LEMMA Numbers ==
    ASSUME Types, NEW b \in Ids, Sound(b)
    PROVE  /\ IsFiniteSet(Objects(b)) /\ Cardinality(Objects(b)) \in Nat
           /\ IsFiniteSet(Manifested(b)) /\ Cardinality(Manifested(b)) \in Nat
           /\ IsFiniteSet(Reviewed(b)) /\ Len(reviews[b]) \in Nat
<1>1. IsFiniteSet(Objects(b))
    BY FS_Subset DEF Types, Objects
<1>2. IsFiniteSet(Manifested(b)) /\ IsFiniteSet(Reviewed(b))
    BY DEF Sound, Counted, History
<1>3. Len(reviews[b]) \in Nat
    BY DEF Types
<1> QED BY <1>1, <1>2, <1>3, FS_CardinalityType

-----------------------------------------------------------------------------
(* A bundle none of whose rows, intents and objects change stays sound.      *)
LEMMA Frame ==
    ASSUME NEW b \in Ids, Sound(b),
           row'[b] = row[b], done'[b] = done[b], reviews'[b] = reviews[b], toDo'[b] = toDo[b],
           toReview'[b] = toReview[b], toRevoke'[b] = toRevoke[b], dropped'[b] = dropped[b],
           asked'[b] = asked[b], acked'[b] = acked[b], stored' = stored
    PROVE  Sound(b)'
<1>1. Reviewed(b)' = Reviewed(b) /\ Superseded(b)' = Superseded(b)
    BY DEF Reviewed, Superseded
<1>2. Objects(b)' = Objects(b) /\ Manifested(b)' = Manifested(b) /\ Pending(b)' = Pending(b)
    BY DEF Objects, Manifested, Pending, Stored
<1>3. Named(b)'
    BY DEF Sound, Named, Stored
<1>4. Counted(b)'
    BY <1>2 DEF Sound, Counted
<1>5. Intended(b)'
    BY <1>1 DEF Sound, Intended, HasSlot
<1>6. History(b)'
    BY <1>1 DEF Sound, History, Stored
<1>7. Noted(b)'
    BY <1>1 DEF Sound, Noted
<1> QED BY <1>3, <1>4, <1>5, <1>6, <1>7 DEF Sound

(* Entering a manifest that is stored.                                       *)
LEMMA EnterManifest ==
    ASSUME NEW b \in Ids, Sound(b), NEW m \in Manifests, Stored(b, m), row'[b] = m,
           UNCHANGED <<done, reviews, toDo, toReview, toRevoke, dropped, asked, acked, stored>>
    PROVE  Sound(b)'
<1>1. Reviewed(b)' = Reviewed(b) /\ Superseded(b)' = Superseded(b)
    BY DEF Reviewed, Superseded
<1>2. Objects(b)' = Objects(b) /\ Manifested(b)' = Manifested(b) /\ Pending(b)' = Pending(b)
    BY DEF Objects, Manifested, Pending, Stored
<1>3. Named(b)'
    BY DEF Sound, Named, Stored
<1>4. Counted(b)'
    BY <1>2 DEF Sound, Counted
<1>5. Intended(b)'
    BY <1>1 DEF Sound, Intended, HasSlot
<1>6. History(b)'
    BY <1>1 DEF Sound, History, Stored
<1>7. Noted(b)'
    BY <1>1 DEF Sound, Noted
<1> QED BY <1>3, <1>4, <1>5, <1>6, <1>7 DEF Sound

(* Noting a completion where none is known.                                  *)
LEMMA NoteCompletion ==
    ASSUME Types, NEW b \in Ids, Sound(b), toDo[b] = None, done[b] = None,
           toDo'[b] \in Completion,
           UNCHANGED <<row, done, reviews, toReview, toRevoke, dropped, asked, acked, stored>>
    PROVE  Sound(b)'
<1>0. ~Stored(b, toDo[b]) /\ ~Stored(b, toDo'[b])
    BY Different DEF Sound, Named, Stored
<1>1. Reviewed(b)' = Reviewed(b) /\ Superseded(b)' = Superseded(b)
    BY DEF Reviewed, Superseded
<1>2. Objects(b)' = Objects(b) /\ Manifested(b)' = Manifested(b) /\ Pending(b)' = Pending(b)
    BY <1>0 DEF Objects, Manifested, Pending, Stored
<1>3. Named(b)'
    BY <1>0, Different DEF Sound, Named, Stored
<1>4. Counted(b)'
    BY <1>2 DEF Sound, Counted
<1>5. Intended(b)'
    BY <1>1 DEF Sound, Intended, HasSlot
<1>6. History(b)'
    BY <1>1 DEF Sound, History, Stored
<1>7. Noted(b)'
    BY <1>1 DEF Sound, Noted
<1> QED BY <1>3, <1>4, <1>5, <1>6, <1>7 DEF Sound

(* Entering a completion that was noted and stored.                          *)
LEMMA EnterCompletion ==
    ASSUME Types, NEW b \in Ids, Sound(b), toDo[b] \in Completion, Stored(b, toDo[b]), done[b] = None,
           toDo'[b] = None, done'[b] = toDo[b],
           UNCHANGED <<row, reviews, toReview, toRevoke, dropped, asked, acked, stored>>
    PROVE  Sound(b)'
<1>1. Reviewed(b)' = Reviewed(b) /\ Superseded(b)' = Superseded(b)
    BY DEF Reviewed, Superseded
<1>2. Objects(b)' = Objects(b) /\ Manifested(b)' = Manifested(b)
    BY DEF Objects, Manifested, Stored
<1>a. Pending(b) = 1 + One(Stored(b, toReview[b])) /\ Pending(b)' = One(Stored(b, toReview[b]))
    BY DEF Pending, One, Stored
<1>b. One(done[b] # None) = 0 /\ One(done'[b] # None) = 1
    BY Different DEF One
<1>c. One(Stored(b, toReview[b])) \in Nat
    BY DEF One
<1>3. Named(b)'
    BY DEF Sound, Named, Stored
<1>4. Counted(b)'
    BY <1>2, <1>a, <1>b, <1>c, Numbers DEF Sound, Counted
<1>5. Intended(b)'
    BY <1>1 DEF Sound, Intended, HasSlot
<1>6. History(b)'
    BY <1>1 DEF Sound, History, Stored
<1>7. Noted(b)'
    BY <1>1 DEF Sound, Noted
<1> QED BY <1>3, <1>4, <1>5, <1>6, <1>7 DEF Sound

(* Noting a revocation.                                                      *)
LEMMA NoteRevocation ==
    ASSUME NEW b \in Ids, Sound(b), NEW r, toRevoke[b] \in {None, r}, toRevoke'[b] = r,
           asked'[b] = asked[b] \cup {r}, None \notin asked[b],
           UNCHANGED <<row, done, reviews, toDo, toReview, dropped, acked, stored>>
    PROVE  Sound(b)'
<1>1. Reviewed(b)' = Reviewed(b) /\ Superseded(b)' = Superseded(b)
    BY DEF Reviewed, Superseded
<1>2. Objects(b)' = Objects(b) /\ Manifested(b)' = Manifested(b) /\ Pending(b)' = Pending(b)
    BY DEF Objects, Manifested, Pending, Stored
<1>3. Named(b)'
    BY DEF Sound, Named, Stored
<1>4. Counted(b)'
    BY <1>2 DEF Sound, Counted
<1>5. Intended(b)'
    BY <1>1 DEF Sound, Intended, HasSlot
<1>6. History(b)'
    BY <1>1 DEF Sound, History, Stored
<1>7. Noted(b)'
    BY <1>1 DEF Sound, Noted
<1> QED BY <1>3, <1>4, <1>5, <1>6, <1>7 DEF Sound

(* Noting a review where none is noted: the next one of the history.         *)
LEMMA NoteReview ==
    ASSUME Types, NEW b \in Ids, Sound(b), toReview[b] = None,
           NEW e \in Event, toReview'[b] = e,
           e.seq = Len(reviews[b]) + 1, e.req \notin Reviewed(b) \cup Superseded(b), HasSlot(b, e.req),
           UNCHANGED <<row, done, reviews, toDo, toRevoke, dropped, asked, acked, stored>>
    PROVE  Sound(b)'
<1>0. ~Stored(b, None) /\ ~Stored(b, e)
    <2>1. ~Stored(b, None)
        BY DEF Stored
    <2>2. ASSUME NEW i \in 1 .. Len(reviews[b]) PROVE e # reviews[b][i]
        <3>1. reviews[b][i].seq = i
            BY DEF Sound, History
        <3>2. Len(reviews[b]) \in Nat
            BY Numbers
        <3> QED BY <3>1, <3>2
    <2> QED BY <2>1, <2>2, Different DEF Sound, Named
<1>1. Reviewed(b)' = Reviewed(b) /\ Superseded(b)' = Superseded(b)
    BY DEF Reviewed, Superseded
<1>2. Objects(b)' = Objects(b) /\ Manifested(b)' = Manifested(b)
    BY DEF Objects, Manifested, Stored
<1>a. Pending(b)' = Pending(b)
    <2>1. ~Stored(b, toReview[b]) /\ ~Stored(b, toReview[b])' /\ (Stored(b, toDo[b])' <=> Stored(b, toDo[b]))
        BY <1>0 DEF Stored
    <2> QED BY <2>1 DEF Pending, One
<1>3. Named(b)'
    BY <1>0, Different DEF Sound, Named, Stored
<1>4. Counted(b)'
    BY <1>2, <1>a DEF Sound, Counted
<1>5. Intended(b)'
    BY <1>1 DEF Sound, Intended, HasSlot
<1>6. History(b)'
    BY <1>1 DEF Sound, History, Stored
<1>7. Noted(b)'
    BY <1>1 DEF Sound, Noted
<1> QED BY <1>3, <1>4, <1>5, <1>6, <1>7 DEF Sound

(* Putting aside a noted review that was not stored.                         *)
LEMMA DropReview ==
    ASSUME Types, NEW b \in Ids, Sound(b), NEW e \in Event, toReview[b] = e, ~Stored(b, e),
           toReview'[b] = None, dropped'[b] = dropped[b] \cup {e},
           UNCHANGED <<row, done, reviews, toDo, toRevoke, asked, acked, stored>>
    PROVE  Sound(b)'
<1>0. ~Stored(b, toReview[b]) /\ ~Stored(b, toReview[b])' /\ (Stored(b, toDo[b])' <=> Stored(b, toDo[b]))
    BY DEF Stored
<1>1. Reviewed(b)' = Reviewed(b)
    BY DEF Reviewed
<1>2. Objects(b)' = Objects(b) /\ Manifested(b)' = Manifested(b)
    BY DEF Objects, Manifested, Stored
<1>a. Pending(b)' = Pending(b)
    BY <1>0 DEF Pending, One
<1>3. Named(b)'
    BY <1>0 DEF Sound, Named, Stored
<1>4. Counted(b)'
    BY <1>2, <1>a DEF Sound, Counted
<1>5. Intended(b)'
    BY DEF Sound, Intended
<1>6. History(b)'
    <2>1. e.req \notin Reviewed(b)
        BY Different DEF Sound, Intended
    <2> QED BY <1>1, <2>1 DEF Sound, History, Stored
<1>7. Noted(b)'
    BY <1>1 DEF Sound, Noted
<1> QED BY <1>3, <1>4, <1>5, <1>6, <1>7 DEF Sound

(* Entering a review that was noted and stored: the history grows by one      *)
(* request it did not have, and its last slot goes to a revocation.           *)
LEMMA EnterReview ==
    ASSUME Types, NEW b \in Ids, Sound(b), NEW e \in Event, toReview[b] = e, Stored(b, e),
           toReview'[b] = None, reviews'[b] = Append(reviews[b], e),
           acked'[b] \subseteq acked[b] \cup {e.req},
           toRevoke'[b] = toRevoke[b] \/ toRevoke[b] = e.req,
           UNCHANGED <<row, done, toDo, dropped, asked, stored>>
    PROVE  Sound(b)' /\ Reviewed(b)' = Reviewed(b) \cup {e.req}
<1> DEFINE n == Len(reviews[b])
<1>0. reviews[b] \in Seq(Event) /\ n \in Nat
    BY DEF Types
<1>a. /\ Len(reviews'[b]) = n + 1 /\ reviews'[b][n + 1] = e
      /\ \A i \in 1 .. n : reviews'[b][i] = reviews[b][i]
    BY <1>0
<1>b. e # None /\ e.seq = n + 1 /\ e.req \notin Reviewed(b) /\ HasSlot(b, e.req) /\ e.req \in Requests
    BY Different DEF Sound, Intended, Event
<1> HIDE DEF n
<1>c. \A i \in 1 .. n + 1 : i \in 1 .. n \/ i = n + 1
    BY <1>0
<1>d. n + 1 \in 1 .. n + 1 /\ 1 .. n \subseteq 1 .. n + 1
    BY <1>0
<1>1. Reviewed(b)' = Reviewed(b) \cup {e.req}
    <2>1. Reviewed(b) = {reviews[b][i].req : i \in 1 .. n} /\ Reviewed(b)' = {reviews'[b][i].req : i \in 1 .. n + 1}
        BY <1>a DEF Reviewed, n
    <2>2. ASSUME NEW x \in Reviewed(b)' PROVE x \in Reviewed(b) \cup {e.req}
        BY <1>a, <1>c, <2>1, <2>2
    <2>3. ASSUME NEW x \in Reviewed(b) \cup {e.req} PROVE x \in Reviewed(b)'
        BY <1>a, <1>d, <2>1, <2>3
    <2> QED BY <2>2, <2>3
<1>2. Objects(b)' = Objects(b) /\ Manifested(b)' = Manifested(b)
    BY DEF Objects, Manifested, Stored
<1>e. Pending(b) = One(Stored(b, toDo[b])) + 1 /\ Pending(b)' = One(Stored(b, toDo[b]))
    <2>1. Stored(b, toReview[b]) /\ ~Stored(b, toReview[b])' /\ (Stored(b, toDo[b])' <=> Stored(b, toDo[b]))
        BY DEF Stored
    <2> QED BY <2>1 DEF Pending, One
<1>f. One(Stored(b, toDo[b])) \in Nat /\ One(done[b] # None) \in Nat /\ One(done[b] # None)' = One(done[b] # None)
    BY DEF One
<1>3. Named(b)'
    <2>1. ASSUME NEW x \in Event, Stored(b, x)'
          PROVE  \E i \in 1 .. Len(reviews'[b]) : x = reviews'[b][i]
        <3>1. x = e \/ \E i \in 1 .. n : x = reviews[b][i]
            BY <2>1 DEF Sound, Named, Stored, n
        <3> QED BY <1>a, <1>d, <3>1
    <2> QED BY <2>1 DEF Sound, Named, Stored
<1>4. Counted(b)'
    <2>1. Cardinality(Manifested(b)) \in Nat
        BY Numbers
    <2>2. Cardinality(Objects(b)) = Cardinality(Manifested(b)) + One(done[b] # None) + n + (One(Stored(b, toDo[b])) + 1)
        BY <1>e DEF Sound, Counted, n
    <2>3. Cardinality(Objects(b)) = Cardinality(Manifested(b)) + One(done[b] # None) + (n + 1) + One(Stored(b, toDo[b]))
        BY <1>0, <1>f, <2>1, <2>2
    <2> QED BY <1>2, <1>a, <1>e, <1>f, <2>3 DEF Sound, Counted
<1>5. Intended(b)'
    BY DEF Sound, Intended
<1>6. History(b)'
    <2>1. n + One(e.req \in Good) < MaxReviews
        BY <1>b DEF HasSlot, n
    <2>2. n + 1 <= MaxReviews
        BY <1>0, <2>1, CatalogAssumption DEF One
    <2>3. n + 1 = MaxReviews => reviews'[b][MaxReviews].req \in Revoked
        BY <1>0, <1>a, <1>b, <2>1 DEF One, Requests
    <2>4. ASSUME NEW i \in 1 .. n + 1
          PROVE  reviews'[b][i].seq = i /\ Stored(b, reviews'[b][i])
        <3>1. CASE i = n + 1
            BY <1>a, <1>b, <3>1
        <3>2. CASE i \in 1 .. n
            BY <1>a, <3>2 DEF Sound, History, n
        <3> QED BY <1>c, <3>1, <3>2
    <2>5. IsFiniteSet(Reviewed(b)') /\ Cardinality(Reviewed(b)') = n + 1
        <3>1. IsFiniteSet(Reviewed(b)) /\ Cardinality(Reviewed(b)) = n
            BY DEF Sound, History, n
        <3>2. IsFiniteSet(Reviewed(b) \cup {e.req}) /\ Cardinality(Reviewed(b) \cup {e.req}) = n + 1
            BY <1>b, <3>1, FS_AddElement
        <3> QED BY <1>1, <3>2
    <2>6. acked'[b] \subseteq Reviewed(b)'
        BY <1>1 DEF Sound, History
    <2>7. \A x \in dropped'[b] : x.req \notin Reviewed(b)'
        <3>1. \A x \in dropped[b] : x.req # e.req
            BY <1>b DEF Sound, Intended, Superseded
        <3> QED BY <1>1, <3>1 DEF Sound, History
    <2>8. \A i \in 1 .. n + 1 : (reviews[b][i].seq = i /\ Stored(b, reviews[b][i]))'
        BY <2>4 DEF Stored
    <2> QED BY <1>a, <2>2, <2>3, <2>5, <2>6, <2>7, <2>8 DEF History
<1>7. Noted(b)'
    BY <1>1 DEF Sound, Noted
<1> QED BY <1>1, <1>3, <1>4, <1>5, <1>6, <1>7 DEF Sound

(* Storing a new control object: every count of its bundle grows with it, and *)
(* no other bundle's objects change.                                          *)
LEMMA PutObject ==
    ASSUME Types, NEW b \in Ids, NEW d \in Ids, Sound(d), NEW x \in Body, ~Stored(b, x),
           x \in Completion => x = toDo[b], x \in Event => x = toReview[b],
           stored' = stored \cup {Obj(b, x)}, UNCHANGED <<rows, ghosts>>
    PROVE  /\ Sound(d)'
           /\ Cardinality(Objects(d)') = Cardinality(Objects(d)) + (IF d = b THEN 1 ELSE 0)
<1>0. UNCHANGED <<row, done, reviews, toDo, toReview, toRevoke, dropped, asked, acked>>
    BY DEF rows, ghosts
<1>a. x # None /\ Obj(b, x) \notin stored
    BY Different DEF Stored
<1>b. \A y : Obj(d, y) = Obj(b, x) <=> d = b /\ y = x
    BY ObjIs DEF Obj
<1>c. \A y : Stored(d, y)' <=> Stored(d, y) \/ (d = b /\ y = x)
    BY <1>a, <1>b DEF Stored
<1>1. Reviewed(d)' = Reviewed(d) /\ Superseded(d)' = Superseded(d)
    BY <1>0 DEF Reviewed, Superseded
<1>2. Objects(d)' = IF d = b THEN Objects(d) \cup {Obj(b, x)} ELSE Objects(d)
    BY ObjIs DEF Objects
<1>3. Obj(b, x) \notin Objects(d)
    BY <1>a DEF Objects
<1>4. Cardinality(Objects(d)') = Cardinality(Objects(d)) + (IF d = b THEN 1 ELSE 0)
    <2>1. IsFiniteSet(Objects(d)) /\ Cardinality(Objects(d)) \in Nat
        BY Numbers
    <2>2. Cardinality(Objects(d) \cup {Obj(b, x)}) = Cardinality(Objects(d)) + 1
        BY <1>3, <2>1, FS_AddElement
    <2> QED BY <1>2, <2>1, <2>2
<1>5. Named(d)'
    BY <1>0, <1>c DEF Sound, Named
<1>6. Intended(d)'
    BY <1>0, <1>1 DEF Sound, Intended, HasSlot
<1>7. History(d)'
    BY <1>0, <1>1, <1>c DEF Sound, History
<1>8. Noted(d)'
    BY <1>0, <1>1 DEF Sound, Noted
<1>9. Counted(d)'
    <2> DEFINE td == Stored(d, toDo[d])
               tr == Stored(d, toReview[d])
    <2>1. Cardinality(Manifested(d)) \in Nat /\ IsFiniteSet(Manifested(d)) /\ Len(reviews[d]) \in Nat
        BY Numbers
    <2>2. Cardinality(Objects(d)) = Cardinality(Manifested(d)) + One(done[d] # None) + Len(reviews[d]) + (One(td) + One(tr))
        BY DEF Sound, Counted, Pending
    <2>3. /\ One(done[d] # None) \in Nat /\ One(td) \in Nat /\ One(tr) \in Nat
          /\ One(done[d] # None)' = One(done[d] # None)
        BY <1>0 DEF One
    <2>4. Pending(d)' = One(td') + One(tr')
        BY <1>0 DEF Pending
    <2>5. CASE d # b
        <3>1. (td' <=> td) /\ (tr' <=> tr) /\ Manifested(d)' = Manifested(d)
            BY <1>0, <1>c, <2>5 DEF Manifested
        <3>2. One(td') = One(td) /\ One(tr') = One(tr)
            BY <3>1 DEF One
        <3> QED BY <1>0, <1>4, <2>1, <2>2, <2>3, <2>4, <2>5, <3>1, <3>2 DEF Counted
    <2>6. CASE d = b /\ x \in Manifests
        <3>1. Manifested(d)' = Manifested(d) \cup {x} /\ x \notin Manifested(d)
            BY <1>c, <2>6 DEF Manifested
        <3>2. IsFiniteSet(Manifested(d)') /\ Cardinality(Manifested(d)') = Cardinality(Manifested(d)) + 1
            BY <2>1, <3>1, FS_AddElement
        <3>3. (td' <=> td) /\ (tr' <=> tr)
            <4>1. toDo[d] # x /\ toReview[d] # x
                BY <2>6, Different DEF Types
            <4> QED BY <1>0, <1>c, <4>1
        <3>4. One(td') = One(td) /\ One(tr') = One(tr)
            BY <3>3 DEF One
        <3> QED BY <1>0, <1>4, <2>1, <2>2, <2>3, <2>4, <2>6, <3>2, <3>4 DEF Counted
    <2>7. CASE d = b /\ x \in Completion
        <3>1. Manifested(d)' = Manifested(d)
            BY <1>c, <2>7, Different DEF Manifested
        <3>2. td' /\ ~td /\ (tr' <=> tr)
            <4>1. toReview[d] # x
                BY <2>7, Different DEF Types
            <4> QED BY <1>0, <1>c, <2>7, <4>1
        <3>3. One(td') = 1 /\ One(td) = 0 /\ One(tr') = One(tr)
            BY <3>2 DEF One
        <3>4. Cardinality(Objects(d)') = Cardinality(Objects(d)) + 1
            BY <1>4, <2>7
        <3>5. Cardinality(Objects(d)') =
                Cardinality(Manifested(d)) + One(done[d] # None) + Len(reviews[d]) + (One(td') + One(tr'))
            BY <2>1, <2>2, <2>3, <3>3, <3>4
        <3> QED BY <1>0, <2>1, <2>3, <2>4, <3>1, <3>5 DEF Counted
    <2>8. CASE d = b /\ x \in Event
        <3>1. Manifested(d)' = Manifested(d)
            BY <1>c, <2>8, Different DEF Manifested
        <3>2. tr' /\ ~tr /\ (td' <=> td)
            <4>1. toDo[d] # x
                BY <2>8, Different DEF Types
            <4> QED BY <1>0, <1>c, <2>8, <4>1
        <3>3. One(tr') = 1 /\ One(tr) = 0 /\ One(td') = One(td)
            BY <3>2 DEF One
        <3>4. Cardinality(Objects(d)') = Cardinality(Objects(d)) + 1
            BY <1>4, <2>8
        <3>5. Cardinality(Objects(d)') =
                Cardinality(Manifested(d)) + One(done[d] # None) + Len(reviews[d]) + (One(td') + One(tr'))
            BY <2>1, <2>2, <2>3, <3>3, <3>4
        <3> QED BY <1>0, <2>1, <2>3, <2>4, <3>1, <3>5 DEF Counted
    <2> QED BY <2>5, <2>6, <2>7, <2>8 DEF Body
<1> QED BY <1>4, <1>5, <1>6, <1>7, <1>8, <1>9 DEF Sound

-----------------------------------------------------------------------------
(* A request under the mutex is what it was made of.                         *)
LEMMA RequestIs ==
    ASSUME NEW b \in Ids, NEW s \in {"put", "row", "settle", "event"},
           NEW x \in Body \cup {None}, NEW r \in Requests \cup {None}
    PROVE  LET q == Request(b, s, x, r) IN
           /\ q \in ActType /\ q # None
           /\ q.id = b /\ q.step = s /\ q.body = x /\ q.req = r
<1>1. Request(b, s, x, r) \in ActType
    BY Zenon DEF Request, ActType
<1>2. Request(b, s, x, r) # None
    BY <1>1, Different
<1> QED BY <1>1, <1>2 DEF Request

(* A request that is under way is a record.                                  *)
LEMMA AtIs ==
    ASSUME Types, NEW s, At(s)
    PROVE  /\ up /\ act # None /\ act \in ActType /\ act.step = s /\ act.id \in Ids
           /\ act.body \in Body \cup {None} /\ act.req \in Requests \cup {None}
BY DEF Types, At, ActType

(* The ways in which the storage answers a request.                          *)
LEMMA PutCases ==
    ASSUME Inv, Put
    PROVE  /\ UNCHANGED <<rows, up, comp, chunk, ghosts>>
           /\ act.id \in Ids /\ act.body \in Body /\ act # None /\ act.step = "put"
           /\ \/ /\ Stored(act.id, act.body)
                 /\ act' = [act EXCEPT !.step = "row"]
                 /\ UNCHANGED <<stored, ok, owners, faults>>
              \/ /\ ok /\ ~Stored(act.id, act.body)
                 /\ act' = [act EXCEPT !.step = "row"]
                 /\ stored' = stored \cup {Obj(act.id, act.body)}
                 /\ owners' = [owners EXCEPT ![act.id] = owners[act.id] + 1]
                 /\ UNCHANGED <<ok, faults>>
              \/ /\ act' = None /\ owners' = owners /\ (faults' = faults \/ Fault)
                 /\ \/ stored' = stored /\ (ok' = ok \/ ok' = FALSE)
                    \/ /\ ok' = FALSE /\ ~Stored(act.id, act.body)
                       /\ stored' = stored \cup {Obj(act.id, act.body)}
<1>0. Types /\ At("put")
    BY DEF Inv, Put
<1>1. act.id \in Ids /\ act # None /\ act.step = "put" /\ act.body \in Body \cup {None}
    BY <1>0, AtIs
<1>2. act.body # None
    BY <1>1 DEF Inv, ActSound
<1>3. UNCHANGED <<rows, up, comp, chunk, ghosts>>
    BY Zenon DEF Put
<1> QED BY <1>1, <1>2, <1>3, Zenon DEF Put

(* The ways in which an unfinished good review is settled.                   *)
LEMMA SettleCases ==
    ASSUME Types, Settle
    PROVE  /\ UNCHANGED <<row, done, toDo, toRevoke, store, comp, chunk, ghosts, faults>>
           /\ act.id \in Ids /\ act # None /\ act.step = "settle"
           /\ \/ /\ UNCHANGED <<reviews, toReview, dropped>>
                 /\ act' = None \/ act' = [act EXCEPT !.step = "event"]
              \/ /\ toReview[act.id] # None /\ toReview[act.id].req \in Good
                 /\ toReview' = [toReview EXCEPT ![act.id] = None]
                 /\ act' = [act EXCEPT !.step = "event"]
                 /\ \/ /\ Stored(act.id, toReview[act.id]) /\ dropped' = dropped
                       /\ reviews' = [reviews EXCEPT ![act.id] = Append(reviews[act.id], toReview[act.id])]
                    \/ /\ ~Stored(act.id, toReview[act.id]) /\ reviews' = reviews
                       /\ dropped' = [dropped EXCEPT ![act.id] = dropped[act.id] \cup {toReview[act.id]}]
<1>1. act.id \in Ids /\ act # None /\ act.step = "settle"
    BY AtIs DEF Settle
<1>2. UNCHANGED <<row, done, toDo, toRevoke, store, comp, chunk, ghosts, faults>>
    BY Zenon DEF Settle
<1>3. CASE Stored(act.id, toReview[act.id])
    BY <1>1, <1>2, <1>3, Zenon DEF Settle
<1>4. CASE ~Stored(act.id, toReview[act.id])
    BY <1>1, <1>2, <1>4, Zenon DEF Settle
<1> QED BY <1>3, <1>4

(* Noting a review leaves the note as it is, or makes the next one.          *)
LEMMA NoteCases ==
    ASSUME Inv, NoteEvent
    PROVE  /\ UNCHANGED <<row, done, reviews, toDo, toRevoke, dropped, store, comp, chunk, ghosts, faults>>
           /\ act.id \in Ids /\ act # None /\ act.step = "event"
           /\ \/ /\ toReview' = toReview /\ act' = None
              \/ \E e \in Event :
                    /\ toReview' = [toReview EXCEPT ![act.id] = e]
                    /\ \/ toReview[act.id] = e
                       \/ /\ toReview[act.id] = None /\ e.req = act.req
                          /\ e.seq = Len(reviews[act.id]) + 1 /\ HasSlot(act.id, act.req)
                    /\ act' = None \/ (e.req = act.req /\ act' = Request(act.id, "put", e, act.req))
<1> DEFINE b == act.id
           new == [req |-> act.req, seq |-> Len(reviews[b]) + 1, at |-> faults]
           e == IF toReview[b] = None THEN new ELSE toReview[b]
<1>0. Types /\ At("event")
    BY DEF Inv, NoteEvent
<1>1. b \in Ids /\ act # None /\ act.step = "event" /\ act.req \in Requests \cup {None}
    BY <1>0, AtIs
<1>2. act.req \in Requests
    BY <1>1 DEF Inv, ActSound
<1>3. UNCHANGED <<row, done, reviews, toDo, toRevoke, dropped, store, comp, chunk, ghosts, faults>>
    BY Zenon DEF NoteEvent
<1>4. \/ toReview' = toReview /\ act' = None
      \/ /\ HasSlot(b, act.req) /\ toReview' = [toReview EXCEPT ![b] = e]
         /\ act' = IF e.req = act.req THEN Request(b, "put", e, act.req) ELSE None
    BY Zenon DEF NoteEvent
<1>5. ASSUME HasSlot(b, act.req), toReview' = [toReview EXCEPT ![b] = e],
             act' = IF e.req = act.req THEN Request(b, "put", e, act.req) ELSE None
      PROVE  /\ e \in Event
             /\ \/ toReview[b] = e
                \/ /\ toReview[b] = None /\ e.req = act.req
                   /\ e.seq = Len(reviews[b]) + 1
    <2>1. CASE toReview[b] = None
        <3>1. Len(reviews[b]) \in Nat /\ faults \in 0 .. MaxFaults
            BY <1>0, <1>1 DEF Types
        <3>2. Len(reviews[b]) + 1 \in 1 .. MaxReviews
            <4>1. One(act.req \in Good) \in {0, 1} /\ Len(reviews[b]) + One(act.req \in Good) < MaxReviews
                BY <1>5, Zenon DEF HasSlot, One
            <4>2. PICK k \in {0, 1} : Len(reviews[b]) + k < MaxReviews
                BY <4>1
            <4> QED BY <3>1, <4>2, CatalogAssumption
        <3>3. new \in Event
            BY <1>2, <3>1, <3>2, Zenon DEF Event
        <3>4. new.req = act.req /\ new.seq = Len(reviews[b]) + 1
            OBVIOUS
        <3>5. e = new
            BY <2>1, Zenon
        <3> QED BY <2>1, <3>3, <3>4, <3>5, Zenon
    <2>2. CASE toReview[b] # None
        <3>1. toReview[b] \in Event
            BY <1>0, <1>1, <2>2 DEF Types
        <3>2. e = toReview[b]
            BY <2>2, Zenon
        <3> QED BY <3>1, <3>2, Zenon
    <2> QED BY <2>1, <2>2
<1> HIDE DEF e
<1>6. ASSUME HasSlot(b, act.req), toReview' = [toReview EXCEPT ![b] = e],
             act' = IF e.req = act.req THEN Request(b, "put", e, act.req) ELSE None
      PROVE  act' = None \/ (e.req = act.req /\ act' = Request(b, "put", e, act.req))
    BY <1>6, Zenon
<1> QED BY <1>1, <1>3, <1>4, <1>5, <1>6, Zenon

(* A completion that is resumed under the mutex notes a completion of what is *)
(* registered, keeps the one that is noted, or gives up.                      *)
LEMMA CommitCases ==
    ASSUME Types, Registered, NEW p \in Completers, CompleteCommit(p)
    PROVE  \/ UNCHANGED <<toDo, act>>
           \/ \E b \in Ids, c \in Completion :
                /\ toDo' = [toDo EXCEPT ![b] = c] /\ act' = Request(b, "put", c, None)
                /\ done[b] = None /\ (toDo[b] = None \/ toDo[b] = c)
                /\ \A x \in Chunks : chunk[x] = "good"
<1> DEFINE b == comp[p].id
           c == IF toDo[b] = None THEN [man |-> row[b], at |-> faults] ELSE toDo[b]
<1>1. CASE UNCHANGED <<toDo, act>>
    BY <1>1
<1>2. CASE /\ done[b] = None /\ Unchanged(p) /\ comp[p].read = Chunks
           /\ toDo' = [toDo EXCEPT ![b] = IF @ = None THEN [man |-> row[b], at |-> faults] ELSE @]
           /\ act' = Request(b, "put", toDo'[b], None)
    <2>1. b # None
        BY Zenon DEF CompleteCommit
    <2>2. b \in Ids
        BY <2>1 DEF Types
    <2>3. row[b] \in Manifests /\ faults \in 0 .. MaxFaults
        BY <2>1, <2>2 DEF Registered, Types
    <2>4. [man |-> row[b], at |-> faults] \in Completion
        BY <2>3, Zenon DEF Completion
    <2>5. toDo[b] \in Completion \cup {None}
        BY <2>2 DEF Types
    <2>6. c \in Completion
        BY <2>4, <2>5, Zenon
    <2>7. toDo' = [toDo EXCEPT ![b] = c]
        BY <1>2, Zenon
    <2>8. toDo[b] = None \/ toDo[b] = c
        BY Zenon
    <2> HIDE DEF c
    <2>9. toDo'[b] = c
        BY <2>2, <2>7 DEF Types
    <2>10. \A x \in Chunks : chunk[x] = "good"
        BY <1>2, Zenon DEF Unchanged
    <2> QED BY <1>2, <2>2, <2>6, <2>7, <2>8, <2>9, <2>10, Zenon
<1> QED BY <1>1, <1>2, Zenon DEF CompleteCommit

-----------------------------------------------------------------------------
(* An empty catalogue is sound.                                              *)
LEMMA InitInv == Init => Inv
<1> SUFFICES ASSUME Init PROVE Inv
    OBVIOUS
<1>1. Types
    <2>1. \A b \in Ids : reviews[b] = <<>> /\ row[b] = None
        BY DEF Init
    <2>2. reviews \in [Ids -> Seq(Event)]
        BY DEF Init
    <2>3. comp \in [Completers -> [id : Ids \cup {None}, read : SUBSET Chunks]]
        <3>1. [id |-> None, read |-> {}] \in [id : Ids \cup {None}, read : SUBSET Chunks]
            BY Zenon
        <3> QED BY <3>1 DEF Init
    <2>4. IsFiniteSet(stored) /\ stored \subseteq Object
        BY FS_EmptySet DEF Init
    <2>5. faults \in 0 .. MaxFaults /\ owners \in [Ids -> Nat]
        BY CatalogAssumption DEF Init
    <2>6. /\ row \in [Ids -> Manifests \cup {None}] /\ done \in [Ids -> Completion \cup {None}]
          /\ dropped \in [Ids -> SUBSET Event]
          /\ toDo \in [Ids -> Completion \cup {None}] /\ toReview \in [Ids -> Event \cup {None}]
          /\ toRevoke \in [Ids -> Revoked \cup {None}]
          /\ asked \in [Ids -> SUBSET Revoked] /\ acked \in [Ids -> SUBSET Requests]
          /\ chunk \in [Chunks -> {"good", "bad"}]
        BY DEF Init
    <2>7. up \in BOOLEAN /\ ok \in BOOLEAN /\ act \in ActType \cup {None}
        BY Zenon DEF Init
    <2> QED BY <2>2, <2>3, <2>4, <2>5, <2>6, <2>7 DEF Types
<1>2. ActSound
    BY DEF Init, ActSound
<1>3. ASSUME NEW b \in Ids
      PROVE  Objects(b) = {} /\ Manifested(b) = {} /\ Reviewed(b) = {} /\ Len(reviews[b]) = 0
             /\ \A x : ~Stored(b, x)
    BY DEF Init, Objects, Manifested, Reviewed, Stored
<1>4. CountsKept
    BY <1>3, FS_EmptySet DEF Init, CountsKept
<1>5. ASSUME NEW b \in Ids PROVE Sound(b)
    <2>1. Named(b)
        BY <1>3 DEF Named, Init
    <2>2. Counted(b)
        <3>1. done[b] = None /\ Pending(b) = 0
            <4>1. ~Stored(b, toDo[b]) /\ ~Stored(b, toReview[b])
                BY <1>3
            <4>2. One(Stored(b, toDo[b])) = 0 /\ One(Stored(b, toReview[b])) = 0
                BY <4>1 DEF One
            <4> QED BY <4>2 DEF Pending, Init
        <3>2. One(done[b] # None) = 0
            BY <3>1 DEF One
        <3>3. /\ IsFiniteSet(Manifested(b)) /\ Cardinality(Manifested(b)) = 0
              /\ Cardinality(Objects(b)) = 0 /\ Len(reviews[b]) = 0
            BY <1>3, FS_EmptySet
        <3> QED BY <3>1, <3>2, <3>3 DEF Counted
    <2>3. Intended(b)
        BY DEF Intended, Init
    <2>4. History(b)
        <3>1. acked[b] = {} /\ dropped[b] = {} /\ 1 .. Len(reviews[b]) = {}
            BY <1>3 DEF Init
        <3>2. IsFiniteSet(Reviewed(b)) /\ Cardinality(Reviewed(b)) = 0
            BY <1>3, FS_EmptySet
        <3> QED BY <1>3, <3>1, <3>2, CatalogAssumption DEF History
    <2>5. Noted(b)
        BY DEF Noted, Init
    <2> QED BY <2>1, <2>2, <2>3, <2>4, <2>5 DEF Sound
<1>6. Registered
    BY DEF Init, Registered
<1> QED BY <1>1, <1>2, <1>4, <1>5, <1>6 DEF Inv

(* Every step keeps the types.                                               *)
LEMMA TypesStep == Inv /\ [Next]_vars => Types'
<1> SUFFICES ASSUME Inv, [Next]_vars PROVE Types'
    OBVIOUS
<1>0. Types
    BY DEF Inv
<1>a. Fault => faults' \in 0 .. MaxFaults
    BY <1>0, CatalogAssumption DEF Fault, Types
<1>b. [id |-> None, read |-> {}] \in [id : Ids \cup {None}, read : SUBSET Chunks]
    BY Zenon
<1>c. [p \in Completers |-> [id |-> None, read |-> {}]] \in [Completers -> [id : Ids \cup {None}, read : SUBSET Chunks]]
    BY <1>b
<1>1. CASE UNCHANGED vars
    BY <1>0, <1>1 DEF vars, rows, store, ghosts, Types
<1>2. ASSUME NEW m \in Manifests, Register(m) PROVE Types'
    <2>1. act' = Request(IdOf[m], "put", m, None)
        BY <1>2, Zenon DEF Register
    <2>2. act' \in ActType
        BY <2>1, RequestIs, CatalogAssumption, Different
    <2>3. UNCHANGED <<rows, store, comp, chunk, ghosts, faults>>
        BY <1>2, Zenon DEF Register
    <2> QED BY <1>0, <2>2, <2>3 DEF rows, store, ghosts, Types
<1>3. ASSUME NEW p \in Completers, NEW b \in Ids, CompleteBegin(p, b) PROVE Types'
    <2>1. [id |-> b, read |-> {}] \in [id : Ids \cup {None}, read : SUBSET Chunks]
        BY Zenon
    <2>2. comp' = [comp EXCEPT ![p] = [id |-> b, read |-> {}]]
        BY <1>3, Zenon DEF CompleteBegin
    <2>3. comp' \in [Completers -> [id : Ids \cup {None}, read : SUBSET Chunks]]
        BY <1>0, <2>1, <2>2 DEF Types
    <2>4. UNCHANGED <<rows, store, act, chunk, ghosts, faults>>
        BY <1>3, Zenon DEF CompleteBegin
    <2> QED BY <1>0, <2>3, <2>4 DEF rows, store, ghosts, Types
<1>4. ASSUME NEW p \in Completers, NEW c \in Chunks, ReadChunk(p, c) PROVE Types'
    <2>1. comp[p] \in [id : Ids \cup {None}, read : SUBSET Chunks]
        BY <1>0 DEF Types
    <2>2. [id |-> comp[p].id, read |-> comp[p].read \cup {c}] \in [id : Ids \cup {None}, read : SUBSET Chunks]
        BY <2>1
    <2>3. \/ comp' = [comp EXCEPT ![p] = [id |-> comp[p].id, read |-> comp[p].read \cup {c}]]
          \/ comp' = [comp EXCEPT ![p] = [id |-> None, read |-> {}]]
        BY <1>4, Zenon DEF ReadChunk
    <2>4. comp' \in [Completers -> [id : Ids \cup {None}, read : SUBSET Chunks]]
        BY <1>0, <1>b, <2>2, <2>3 DEF Types
    <2>5. UNCHANGED <<rows, store, act, chunk, ghosts, faults>>
        BY <1>4, Zenon DEF ReadChunk
    <2> QED BY <1>0, <2>4, <2>5 DEF rows, store, ghosts, Types
<1>5. ASSUME NEW p \in Completers, CompleteCommit(p) PROVE Types'
    <2>1. comp' = [comp EXCEPT ![p] = [id |-> None, read |-> {}]]
        BY <1>5, Zenon DEF CompleteCommit
    <2>2. comp' \in [Completers -> [id : Ids \cup {None}, read : SUBSET Chunks]]
        BY <1>0, <1>b, <2>1 DEF Types
    <2>3. UNCHANGED <<row, done, reviews, toReview, toRevoke, dropped, store, chunk, ghosts, faults>>
        BY <1>5, Zenon DEF CompleteCommit
    <2>4. CASE UNCHANGED <<toDo, act>>
        BY <1>0, <2>2, <2>3, <2>4 DEF store, ghosts, Types
    <2>5. ASSUME NEW b \in Ids, NEW c \in Completion, toDo' = [toDo EXCEPT ![b] = c],
                 act' = Request(b, "put", c, None)
          PROVE  Types'
        <3>1. toDo' \in [Ids -> Completion \cup {None}]
            BY <1>0, <2>5 DEF Types
        <3>2. act' \in ActType
            BY <2>5, RequestIs, Different
        <3> QED BY <1>0, <2>2, <2>3, <3>1, <3>2 DEF store, ghosts, Types
    <2> QED BY <1>0, <1>5, <2>4, <2>5, CommitCases DEF Inv
<1>6. ASSUME NEW b \in Ids, NEW r \in Requests, Revoke(b, r) PROVE Types'
    <2>1. r \in Revoked /\ toRevoke' = [toRevoke EXCEPT ![b] = r] /\ asked' = [asked EXCEPT ![b] = asked[b] \cup {r}]
        BY <1>6, Zenon DEF Revoke
    <2>2. act' = Request(b, "settle", None, r)
        BY <1>6, Zenon DEF Revoke
    <2>3. UNCHANGED <<row, done, reviews, toDo, toReview, dropped, store, comp, chunk, acked, faults>>
        BY <1>6, Zenon DEF Revoke
    <2>4. act' \in ActType
        BY <2>2, RequestIs
    <2>5. toRevoke' \in [Ids -> Revoked \cup {None}] /\ asked' \in [Ids -> SUBSET Revoked]
        BY <1>0, <2>1 DEF Types
    <2> QED BY <1>0, <2>3, <2>4, <2>5 DEF store, Types
<1>7. ASSUME NEW b \in Ids, NEW r \in Requests, Approve(b, r) PROVE Types'
    <2>1. act' = Request(b, "event", None, r)
        BY <1>7, Zenon DEF Approve
    <2>2. act' \in ActType
        BY <2>1, RequestIs
    <2>3. UNCHANGED <<rows, store, comp, chunk, ghosts, faults>>
        BY <1>7, Zenon DEF Approve
    <2> QED BY <1>0, <2>2, <2>3 DEF rows, store, ghosts, Types
<1>8. CASE Put
    <2>0. UNCHANGED <<rows, up, comp, chunk, ghosts>> /\ act.id \in Ids /\ act.body \in Body
        BY <1>8, PutCases, Zenon
    <2>1. act' \in ActType \cup {None}
        <3>1. act \in ActType
            BY <1>0, <1>8, AtIs DEF Put
        <3>2. act' = None \/ act' = [act EXCEPT !.step = "row"]
            BY <1>8, PutCases, Zenon
        <3>3. act' = [act EXCEPT !.step = "row"] => act' \in ActType
            BY <3>1, ActSteps, Zenon
        <3> QED BY <3>2, <3>3, Zenon
    <2>2. stored' = stored \/ stored' = stored \cup {Obj(act.id, act.body)}
        BY <1>8, PutCases, Zenon
    <2>3. stored' \subseteq Object /\ IsFiniteSet(stored')
        <3>1. Obj(act.id, act.body) \in Object
            BY <2>0, Zenon DEF Obj, Object
        <3>2. IsFiniteSet(stored) /\ IsFiniteSet(stored \cup {Obj(act.id, act.body)})
            BY <1>0, FS_AddElement DEF Types
        <3>3. stored \subseteq Object
            BY <1>0 DEF Types
        <3> QED BY <2>2, <3>1, <3>2, <3>3, Zenon
    <2>4. owners' = owners \/ owners' = [owners EXCEPT ![act.id] = owners[act.id] + 1]
        BY <1>8, PutCases, Zenon
    <2>5. owners' \in [Ids -> Nat]
        <3>1. owners \in [Ids -> Nat] /\ owners[act.id] + 1 \in Nat
            BY <1>0, <2>0 DEF Types
        <3> QED BY <2>4, <3>1
    <2>6. faults' = faults \/ Fault
        BY <1>8, PutCases, Zenon
    <2>7. faults' \in 0 .. MaxFaults
        BY <1>0, <1>a, <2>6 DEF Types
    <2>8. ok' \in BOOLEAN
        BY <1>0, <1>8, PutCases, Zenon DEF Types
    <2> QED BY <1>0, <2>0, <2>1, <2>3, <2>5, <2>7, <2>8 DEF rows, ghosts, Types
<1>9. CASE RowManifest
    <2>1. /\ act.id \in Ids /\ act.body \in Manifests /\ row' = [row EXCEPT ![act.id] = act.body] /\ act' = None
          /\ UNCHANGED <<done, reviews, toDo, toReview, toRevoke, dropped, store, comp, chunk, ghosts, faults>>
        BY <1>0, <1>9, AtIs DEF RowManifest
    <2>2. row' \in [Ids -> Manifests \cup {None}]
        BY <1>0, <2>1 DEF Types
    <2> QED BY <1>0, <2>1, <2>2 DEF store, ghosts, Types
<1>10. CASE RowCompletion
    <2>1. /\ act.id \in Ids /\ act.body \in Completion /\ act' = None
          /\ done' = [done EXCEPT ![act.id] = act.body] /\ toDo' = [toDo EXCEPT ![act.id] = None]
          /\ UNCHANGED <<row, reviews, toReview, toRevoke, dropped, store, comp, chunk, ghosts, faults>>
        BY <1>0, <1>10, AtIs DEF RowCompletion
    <2>2. done' \in [Ids -> Completion \cup {None}] /\ toDo' \in [Ids -> Completion \cup {None}]
        BY <1>0, <2>1 DEF Types
    <2> QED BY <1>0, <2>1, <2>2 DEF store, ghosts, Types
<1>11. CASE Settle
    <2>0. UNCHANGED <<row, done, toDo, toRevoke, store, comp, chunk, ghosts, faults>> /\ act.id \in Ids
        BY <1>0, <1>11, SettleCases, Zenon
    <2>1. act' \in ActType \cup {None}
        <3>1. act \in ActType
            BY <1>0, <1>11, AtIs DEF Settle
        <3>2. act' = None \/ act' = [act EXCEPT !.step = "event"]
            BY <1>0, <1>11, SettleCases, Zenon
        <3>3. act' = [act EXCEPT !.step = "event"] => act' \in ActType
            BY <3>1, ActSteps, Zenon
        <3> QED BY <3>2, <3>3, Zenon
    <2>2. \/ UNCHANGED <<reviews, toReview, dropped>>
          \/ /\ toReview[act.id] # None /\ toReview' = [toReview EXCEPT ![act.id] = None]
             /\ \/ /\ dropped' = dropped
                   /\ reviews' = [reviews EXCEPT ![act.id] = Append(reviews[act.id], toReview[act.id])]
                \/ /\ reviews' = reviews
                   /\ dropped' = [dropped EXCEPT ![act.id] = dropped[act.id] \cup {toReview[act.id]}]
        BY <1>0, <1>11, SettleCases, Zenon
    <2>3. /\ toReview' \in [Ids -> Event \cup {None}] /\ reviews' \in [Ids -> Seq(Event)]
          /\ dropped' \in [Ids -> SUBSET Event]
        <3>1. CASE UNCHANGED <<reviews, toReview, dropped>>
            BY <1>0, <3>1 DEF Types
        <3>2. CASE toReview[act.id] # None
            <4>1. toReview[act.id] \in Event
                BY <1>0, <2>0, <3>2 DEF Types
            <4>2. Append(reviews[act.id], toReview[act.id]) \in Seq(Event)
                BY <1>0, <2>0, <4>1 DEF Types
            <4>3. /\ reviews \in [Ids -> Seq(Event)] /\ dropped \in [Ids -> SUBSET Event]
                  /\ toReview \in [Ids -> Event \cup {None}]
                BY <1>0 DEF Types
            <4>4. dropped[act.id] \cup {toReview[act.id]} \in SUBSET Event
                BY <2>0, <4>1, <4>3
            <4>5. toReview' \in [Ids -> Event \cup {None}]
                BY <2>2, <4>3
            <4>6. reviews' \in [Ids -> Seq(Event)]
                BY <2>2, <4>2, <4>3
            <4>7. dropped' \in [Ids -> SUBSET Event]
                BY <2>2, <4>3, <4>4
            <4> QED BY <4>5, <4>6, <4>7
        <3> QED BY <2>2, <3>1, <3>2
    <2> QED BY <1>0, <2>0, <2>1, <2>3 DEF store, ghosts, Types
<1>12. CASE NoteEvent
    <2>0. UNCHANGED <<row, done, reviews, toDo, toRevoke, dropped, store, comp, chunk, ghosts, faults>> /\ act.id \in Ids
        BY <1>12, NoteCases, Zenon
    <2>1. CASE toReview' = toReview /\ act' = None
        BY <1>0, <2>0, <2>1 DEF store, ghosts, Types
    <2>2. ASSUME NEW e \in Event, toReview' = [toReview EXCEPT ![act.id] = e],
                 act' = None \/ act' = Request(act.id, "put", e, act.req)
          PROVE  Types'
        <3>1. act.req \in Requests \cup {None} /\ e \in Body
            BY <1>0, <1>12, AtIs, Different DEF NoteEvent
        <3>2. act' \in ActType \cup {None}
            BY <2>0, <2>2, <3>1, RequestIs
        <3>3. toReview' \in [Ids -> Event \cup {None}]
            BY <1>0, <2>2 DEF Types
        <3> QED BY <1>0, <2>0, <3>2, <3>3 DEF store, ghosts, Types
    <2> QED BY <1>12, <2>1, <2>2, NoteCases, Zenon
<1>13. CASE RowReview
    <2>0. /\ act.id \in Ids /\ act.body \in Event /\ act' = None
          /\ reviews' = [reviews EXCEPT ![act.id] = Append(reviews[act.id], act.body)]
          /\ toReview' = [toReview EXCEPT ![act.id] = None]
          /\ toRevoke' = toRevoke \/ toRevoke' = [toRevoke EXCEPT ![act.id] = None]
          /\ acked' = [acked EXCEPT ![act.id] = acked[act.id] \cup {act.req}]
          /\ UNCHANGED <<row, done, toDo, dropped, store, comp, chunk, asked, faults>>
        BY <1>0, <1>13, AtIs DEF RowReview
    <2>1. act.req \in Requests
        <3>1. act.body.req = act.req
            BY <1>0, <1>13, <2>0, AtIs DEF Inv, ActSound, RowReview
        <3> QED BY <2>0, <3>1 DEF Event
    <2>2. Append(reviews[act.id], act.body) \in Seq(Event)
        BY <1>0, <2>0 DEF Types
    <2>3. reviews' \in [Ids -> Seq(Event)]
        BY <1>0, <2>0, <2>2 DEF Types
    <2>4. /\ toReview' \in [Ids -> Event \cup {None}] /\ toRevoke' \in [Ids -> Revoked \cup {None}]
          /\ acked' \in [Ids -> SUBSET Requests]
        BY <1>0, <2>0, <2>1 DEF Types
    <2> QED BY <1>0, <2>0, <2>3, <2>4 DEF store, Types
<1>14. CASE SqlError
    BY <1>0, <1>a, <1>14 DEF SqlError, rows, store, ghosts, Types
<1>15. CASE Kill
    <2>1. up' \in BOOLEAN /\ act' = None /\ UNCHANGED <<rows, stored, ok, owners, chunk, ghosts>> /\ Fault
        BY <1>15, Zenon DEF Kill
    <2>2. comp' \in [Completers -> [id : Ids \cup {None}, read : SUBSET Chunks]]
        BY <1>c, <1>15, Zenon DEF Kill
    <2> QED BY <1>0, <1>a, <2>1, <2>2 DEF rows, ghosts, Types
<1>16. CASE Restart
    <2>1. /\ up' \in BOOLEAN /\ ok' \in BOOLEAN /\ act' = None /\ owners' = Owned
          /\ UNCHANGED <<rows, stored, chunk, ghosts, faults>>
        BY <1>16, Zenon DEF Restart
    <2>2. comp' \in [Completers -> [id : Ids \cup {None}, read : SUBSET Chunks]]
        BY <1>c, <1>16, Zenon DEF Restart
    <2>3. \A b \in Ids : Cardinality({o \in stored : o.id = b}) \in Nat
        <3> SUFFICES ASSUME NEW b \in Ids PROVE Cardinality({o \in stored : o.id = b}) \in Nat
            OBVIOUS
        <3>1. IsFiniteSet({o \in stored : o.id = b})
            BY <1>0, FS_Subset DEF Types
        <3> QED BY <3>1, FS_CardinalityType
    <2>4. owners' \in [Ids -> Nat]
        BY <2>1, <2>3 DEF Owned
    <2> QED BY <1>0, <2>1, <2>2, <2>4 DEF rows, ghosts, Types
<1>17. ASSUME NEW c \in Chunks, Damage(c) PROVE Types'
    <2>1. chunk' \in [Chunks -> {"good", "bad"}]
        BY <1>0, <1>17 DEF Damage, Types
    <2>2. UNCHANGED <<rows, store, act, comp, ghosts>> /\ Fault
        BY <1>17, Zenon DEF Damage
    <2> QED BY <1>0, <1>a, <2>1, <2>2 DEF rows, store, ghosts, Types
<1> QED BY <1>1, <1>2, <1>3, <1>4, <1>5, <1>6, <1>7, <1>8, <1>9, <1>10, <1>11, <1>12,
           <1>13, <1>14, <1>15, <1>16, <1>17, Zenon DEF Next, Step

(* What is being completed stays registered: rows are never taken back.      *)
LEMMA RegisteredStep == Inv /\ [Next]_vars => Registered'
<1> SUFFICES ASSUME Inv, [Next]_vars, NEW p \in Completers, comp'[p].id # None
             PROVE  row'[comp'[p].id] # None
    BY DEF Registered
<1>0. /\ comp \in [Completers -> [id : Ids \cup {None}, read : SUBSET Chunks]]
      /\ row \in [Ids -> Manifests \cup {None}] /\ Types /\ Registered
    BY DEF Inv, Types
<1>a. \A b \in Ids : row[b] # None => row'[b] # None
    <2>1. CASE RowManifest
        <3>1. act.id \in Ids /\ act.body \in Manifests /\ row' = [row EXCEPT ![act.id] = act.body]
            BY <1>0, <2>1, AtIs DEF RowManifest
        <3> QED BY <1>0, <3>1, Different
    <2>2. CASE ~RowManifest
        <3>1. row' = row
            BY <2>2, Zenon DEF Next, Step, vars, rows, Register, CompleteBegin, ReadChunk, CompleteCommit,
                Revoke, Approve, Put, RowCompletion, Settle, NoteEvent, RowReview, SqlError, Kill, Restart, Damage
        <3> QED BY <3>1
    <2> QED BY <2>1, <2>2
<1>b. CASE comp'[p].id = comp[p].id
    <2>1. comp[p].id \in Ids /\ row[comp[p].id] # None
        BY <1>0, <1>b DEF Registered
    <2> QED BY <1>a, <1>b, <2>1
<1>1. ASSUME NEW q \in Completers, NEW b \in Ids, CompleteBegin(q, b) PROVE row'[comp'[p].id] # None
    <2>1. comp' = [comp EXCEPT ![q] = [id |-> b, read |-> {}]] /\ row[b] # None
        BY <1>1, Zenon DEF CompleteBegin
    <2>2. comp'[p].id = comp[p].id \/ comp'[p].id = b
        BY <1>0, <2>1
    <2> QED BY <1>a, <1>b, <2>1, <2>2
<1>2. ASSUME NEW q \in Completers, NEW c \in Chunks, ReadChunk(q, c) PROVE comp'[p].id = comp[p].id
    <2>1. \/ comp' = [comp EXCEPT ![q] = [id |-> comp[q].id, read |-> comp[q].read \cup {c}]]
          \/ comp' = [comp EXCEPT ![q] = [id |-> None, read |-> {}]]
        BY <1>2, Zenon DEF ReadChunk
    <2> QED BY <1>0, <2>1
<1>3. ASSUME NEW q \in Completers, CompleteCommit(q) PROVE comp'[p].id = comp[p].id
    <2>1. comp' = [comp EXCEPT ![q] = [id |-> None, read |-> {}]]
        BY <1>3, Zenon DEF CompleteCommit
    <2> QED BY <1>0, <2>1
<1>4. CASE Kill \/ Restart
    <2>1. comp' = [q \in Completers |-> [id |-> None, read |-> {}]]
        BY <1>4, Zenon DEF Kill, Restart
    <2> QED BY <2>1
<1>5. ASSUME \/ UNCHANGED vars
             \/ \E m \in Manifests : Register(m)
             \/ \E b \in Ids, r \in Requests : Revoke(b, r) \/ Approve(b, r)
             \/ Step \/ SqlError
             \/ \E c \in Chunks : Damage(c)
      PROVE  comp' = comp
    BY <1>5, Zenon DEF vars, Register, Revoke, Approve, Step, Put, RowManifest, RowCompletion, Settle,
        NoteEvent, RowReview, SqlError, Damage
<1> QED BY <1>b, <1>1, <1>2, <1>3, <1>4, <1>5, Zenon DEF Next

(* Every step keeps every bundle sound and the counts those of the objects.  *)
LEMMA SoundStep == Inv /\ [Next]_vars => (CountsKept /\ \A b \in Ids : Sound(b))'
<1> DEFINE J == CountsKept /\ \A b \in Ids : Sound(b)
<1> SUFFICES ASSUME Inv, [Next]_vars PROVE J'
    OBVIOUS
<1>0. Types /\ ActSound /\ CountsKept /\ (\A b \in Ids : Sound(b))
    BY DEF Inv
<1>a. ASSUME UNCHANGED <<rows, ghosts, stored>> PROVE \A b \in Ids : Sound(b)'
    BY <1>0, <1>a, Frame DEF rows, ghosts
<1>b. ASSUME UNCHANGED <<stored, owners, ok>> PROVE CountsKept'
    BY <1>0, <1>b DEF CountsKept, Objects
<1>1. ASSUME \/ UNCHANGED vars
             \/ \E m \in Manifests : Register(m)
             \/ \E p \in Completers, b \in Ids : CompleteBegin(p, b)
             \/ \E p \in Completers, c \in Chunks : ReadChunk(p, c)
             \/ \E b \in Ids, r \in Requests : Approve(b, r)
             \/ SqlError \/ Kill
             \/ \E c \in Chunks : Damage(c)
      PROVE  J'
    <2>1. UNCHANGED <<rows, ghosts, stored, owners, ok>>
        BY <1>1, Zenon DEF vars, store, Register, CompleteBegin, ReadChunk, Approve, SqlError, Kill, Damage
    <2> QED BY <1>a, <1>b, <2>1
<1>2. CASE Restart
    <2>1. UNCHANGED <<rows, ghosts, stored>> /\ owners' = Owned
        BY <1>2, Zenon DEF Restart
    <2>2. CountsKept'
        BY <2>1 DEF CountsKept, Owned, Objects
    <2> QED BY <1>a, <2>1, <2>2
<1>3. ASSUME NEW p \in Completers, CompleteCommit(p) PROVE J'
    <2>1. UNCHANGED <<row, done, reviews, toReview, toRevoke, dropped, store, asked, acked>>
        BY <1>3, Zenon DEF CompleteCommit, ghosts
    <2>2. CASE UNCHANGED <<toDo, act>>
        BY <1>a, <1>b, <2>1, <2>2 DEF rows, ghosts, store
    <2>3. ASSUME NEW d \in Ids, NEW c \in Completion, toDo' = [toDo EXCEPT ![d] = c],
                 done[d] = None, toDo[d] = None \/ toDo[d] = c
          PROVE  J'
        <3>1. ASSUME NEW b \in Ids PROVE Sound(b)'
            <4>1. toDo'[b] = IF b = d THEN c ELSE toDo[b]
                BY <1>0, <2>3 DEF Types
            <4>2. CASE toDo'[b] = toDo[b]
                BY <1>0, <2>1, <4>2, Frame DEF store
            <4>3. CASE b = d /\ toDo[b] = None
                BY <1>0, <2>1, <2>3, <4>1, <4>3, NoteCompletion DEF store
            <4> QED BY <2>3, <4>1, <4>2, <4>3
        <3> QED BY <1>b, <2>1, <3>1 DEF store
    <2> QED BY <1>0, <1>3, <2>2, <2>3, CommitCases DEF Inv
<1>4. ASSUME NEW d \in Ids, NEW r \in Requests, Revoke(d, r) PROVE J'
    <2>1. /\ toRevoke[d] \in {None, r}
          /\ toRevoke' = [toRevoke EXCEPT ![d] = r] /\ asked' = [asked EXCEPT ![d] = asked[d] \cup {r}]
          /\ UNCHANGED <<row, done, reviews, toDo, toReview, dropped, store, acked>>
        BY <1>4, Zenon DEF Revoke
    <2>2. ASSUME NEW b \in Ids PROVE Sound(b)'
        <3>1. CASE b # d
            BY <1>0, <2>1, <3>1, Frame DEF store, Types
        <3>2. CASE b = d
            <4>1. toRevoke'[b] = r /\ asked'[b] = asked[b] \cup {r} /\ toRevoke[b] \in {None, r}
                BY <1>0, <2>1, <3>2 DEF Types
            <4>2. None \notin asked[b]
                BY <1>0, Different DEF Types, Requests
            <4> QED BY <1>0, <2>1, <4>1, <4>2, NoteRevocation DEF store
        <3> QED BY <3>1, <3>2
    <2> QED BY <1>b, <2>1, <2>2 DEF store
<1>5. CASE Put
    <2>0. UNCHANGED <<rows, ghosts>> /\ act.id \in Ids /\ act.body \in Body /\ act # None /\ act.step = "put"
        BY <1>5, PutCases, Zenon
    <2>1. PICK d \in Ids, x \in Body : d = act.id /\ x = act.body
        BY <2>0
    <2>2. (x \in Completion => x = toDo[d]) /\ (x \in Event => x = toReview[d])
        BY <1>0, <2>0, <2>1 DEF ActSound
    <2>3. CASE UNCHANGED stored /\ (ok' = FALSE \/ UNCHANGED <<owners, ok>>)
        <3>1. CountsKept'
            BY <1>b, <2>3 DEF CountsKept
        <3> QED BY <1>a, <2>0, <2>3, <3>1
    <2>4. ASSUME ~Stored(d, x), stored' = stored \cup {Obj(d, x)},
                 ok' = FALSE \/ (ok /\ owners' = [owners EXCEPT ![d] = owners[d] + 1])
          PROVE  J'
        <3>1. ASSUME NEW b \in Ids
              PROVE  /\ Sound(b)'
                     /\ Cardinality(Objects(b)') = Cardinality(Objects(b)) + (IF b = d THEN 1 ELSE 0)
            <4>1. Sound(b)
                BY <1>0
            <4> QED BY <1>0, <2>0, <2>2, <2>4, <4>1, PutObject
        <3>2. CountsKept'
            <4> SUFFICES ASSUME ok', NEW b \in Ids PROVE owners'[b] = Cardinality(Objects(b)')
                BY DEF CountsKept
            <4>1. ok /\ owners' = [owners EXCEPT ![d] = owners[d] + 1] /\ owners \in [Ids -> Nat]
                BY <1>0, <2>4 DEF Types
            <4>2. owners[b] = Cardinality(Objects(b)) /\ owners[b] \in Nat
                BY <1>0, <4>1 DEF CountsKept
            <4>3. owners'[b] = owners[b] + (IF b = d THEN 1 ELSE 0)
                BY <4>1, <4>2
            <4> QED BY <3>1, <4>2, <4>3
        <3> QED BY <3>1, <3>2
    <2>5. \/ UNCHANGED stored /\ (ok' = FALSE \/ UNCHANGED <<owners, ok>>)
          \/ /\ ~Stored(d, x) /\ stored' = stored \cup {Obj(d, x)}
             /\ ok' = FALSE \/ (ok /\ owners' = [owners EXCEPT ![d] = owners[d] + 1])
        BY <1>5, <2>1, PutCases, Zenon
    <2> QED BY <2>3, <2>4, <2>5
<1>6. CASE RowManifest
    <2>1. /\ act.id \in Ids /\ act.body \in Manifests /\ row' = [row EXCEPT ![act.id] = act.body] /\ act # None
          /\ act.step = "row"
          /\ UNCHANGED <<done, reviews, toDo, toReview, toRevoke, dropped, store, ghosts>>
        BY <1>0, <1>6, AtIs DEF RowManifest
    <2>2. Stored(act.id, act.body)
        BY <1>0, <2>1 DEF ActSound
    <2>3. PICK d \in Ids, m \in Manifests : d = act.id /\ m = act.body
        BY <2>1
    <2>4. ASSUME NEW b \in Ids PROVE Sound(b)'
        <3>1. CASE b # d
            BY <1>0, <2>1, <2>3, <3>1, Frame DEF store, ghosts, Types
        <3>2. CASE b = d
            <4>1. row'[b] = m /\ Stored(b, m)
                BY <1>0, <2>1, <2>2, <2>3, <3>2 DEF Types
            <4> QED BY <1>0, <2>1, <4>1, EnterManifest DEF store, ghosts
        <3> QED BY <3>1, <3>2
    <2> QED BY <1>b, <2>1, <2>4 DEF store
<1>7. CASE RowCompletion
    <2>1. /\ act.id \in Ids /\ act.body \in Completion /\ act # None /\ act.step = "row"
          /\ done' = [done EXCEPT ![act.id] = act.body] /\ toDo' = [toDo EXCEPT ![act.id] = None]
          /\ UNCHANGED <<row, reviews, toReview, toRevoke, dropped, store, ghosts>>
        BY <1>0, <1>7, AtIs DEF RowCompletion
    <2>2. Stored(act.id, act.body) /\ act.body = toDo[act.id] /\ done[act.id] = None
        BY <1>0, <2>1 DEF ActSound
    <2>3. PICK d \in Ids, c \in Completion : d = act.id /\ c = act.body
        BY <2>1
    <2>4. ASSUME NEW b \in Ids PROVE Sound(b)'
        <3>1. CASE b # d
            BY <1>0, <2>1, <2>3, <3>1, Frame DEF store, ghosts, Types
        <3>2. CASE b = d
            <4>1. toDo[b] \in Completion /\ Stored(b, toDo[b]) /\ done[b] = None
                BY <2>2, <2>3, <3>2
            <4>2. toDo'[b] = None /\ done'[b] = toDo[b]
                BY <1>0, <2>1, <2>2, <2>3, <3>2 DEF Types
            <4> QED BY <1>0, <2>1, <4>1, <4>2, EnterCompletion DEF store, ghosts
        <3> QED BY <3>1, <3>2
    <2> QED BY <1>b, <2>1, <2>4 DEF store
<1>8. CASE Settle
    <2>1. UNCHANGED <<row, done, toDo, toRevoke, store, ghosts>> /\ act.id \in Ids
        BY <1>0, <1>8, SettleCases, Zenon
    <2>2. PICK d \in Ids : d = act.id
        BY <2>1
    <2>3. CASE UNCHANGED <<reviews, toReview, dropped>>
        BY <1>a, <1>b, <2>1, <2>3 DEF store, rows
    <2>4. ASSUME NEW e \in Event, toReview[d] = e, toReview' = [toReview EXCEPT ![d] = None],
                 \/ /\ Stored(d, e) /\ dropped' = dropped
                    /\ reviews' = [reviews EXCEPT ![d] = Append(reviews[d], e)]
                 \/ /\ ~Stored(d, e) /\ reviews' = reviews
                    /\ dropped' = [dropped EXCEPT ![d] = dropped[d] \cup {e}]
          PROVE  J'
        <3>1. ASSUME NEW b \in Ids PROVE Sound(b)'
            <4>1. CASE b # d
                BY <1>0, <2>1, <2>4, <4>1, Frame DEF store, ghosts, Types
            <4>2. CASE b = d /\ Stored(d, e)
                <5>1. toReview'[b] = None /\ reviews'[b] = Append(reviews[b], e) /\ dropped' = dropped
                    BY <1>0, <2>4, <4>2 DEF Types
                <5>2. toRevoke'[b] = toRevoke[b] /\ acked'[b] \subseteq acked[b] \cup {e.req}
                    BY <2>1 DEF ghosts
                <5> QED BY <1>0, <2>1, <2>4, <4>2, <5>1, <5>2, EnterReview DEF store, ghosts
            <4>3. CASE b = d /\ ~Stored(d, e)
                <5>1. toReview'[b] = None /\ dropped'[b] = dropped[b] \cup {e} /\ reviews' = reviews
                    BY <1>0, <2>4, <4>3 DEF Types
                <5> QED BY <1>0, <2>1, <2>4, <4>3, <5>1, DropReview DEF store, ghosts
            <4> QED BY <4>1, <4>2, <4>3
        <3> QED BY <1>b, <2>1, <3>1 DEF store
    <2>5. toReview[d] # None => toReview[d] \in Event
        BY <1>0 DEF Types
    <2>6. \/ UNCHANGED <<reviews, toReview, dropped>>
          \/ /\ toReview[d] # None /\ toReview' = [toReview EXCEPT ![d] = None]
             /\ \/ /\ Stored(d, toReview[d]) /\ dropped' = dropped
                   /\ reviews' = [reviews EXCEPT ![d] = Append(reviews[d], toReview[d])]
                \/ /\ ~Stored(d, toReview[d]) /\ reviews' = reviews
                   /\ dropped' = [dropped EXCEPT ![d] = dropped[d] \cup {toReview[d]}]
        BY <1>0, <1>8, <2>2, SettleCases, Zenon
    <2> QED BY <2>3, <2>4, <2>5, <2>6, Zenon
<1>9. CASE NoteEvent
    <2>1. /\ UNCHANGED <<row, done, reviews, toDo, toRevoke, dropped, store, ghosts>>
          /\ act.id \in Ids /\ act # None /\ act.step = "event"
        BY <1>9, NoteCases, Zenon
    <2>2. PICK d \in Ids : d = act.id
        BY <2>1
    <2>3. CASE toReview' = toReview
        BY <1>a, <1>b, <2>1, <2>3 DEF store, rows
    <2>4. ASSUME NEW e \in Event, toReview' = [toReview EXCEPT ![d] = e],
                 \/ toReview[d] = e
                 \/ /\ toReview[d] = None /\ e.req = act.req
                    /\ e.seq = Len(reviews[d]) + 1 /\ HasSlot(d, act.req)
          PROVE  J'
        <3>0. act.req \notin Reviewed(d) \cup Superseded(d)
            BY <1>0, <2>1, <2>2 DEF ActSound
        <3>1. ASSUME NEW b \in Ids PROVE Sound(b)'
            <4>1. toReview'[b] = IF b = d THEN e ELSE toReview[b]
                BY <1>0, <2>4 DEF Types
            <4>2. CASE toReview'[b] = toReview[b]
                BY <1>0, <2>1, <4>2, Frame DEF store, ghosts
            <4>3. CASE b = d /\ toReview[d] # e
                <5>1. /\ toReview[b] = None /\ toReview'[b] = e /\ e.seq = Len(reviews[b]) + 1
                      /\ e.req \notin Reviewed(b) \cup Superseded(b) /\ HasSlot(b, e.req)
                    BY <2>4, <3>0, <4>1, <4>3
                <5> QED BY <1>0, <2>1, <5>1, NoteReview DEF store, ghosts
            <4> QED BY <4>1, <4>2, <4>3
        <3> QED BY <1>b, <2>1, <3>1 DEF store
    <2>5. \/ toReview' = toReview
          \/ \E e \in Event :
                /\ toReview' = [toReview EXCEPT ![d] = e]
                /\ \/ toReview[d] = e
                   \/ /\ toReview[d] = None /\ e.req = act.req
                      /\ e.seq = Len(reviews[d]) + 1 /\ HasSlot(d, act.req)
        BY <1>9, <2>2, NoteCases, Zenon
    <2> QED BY <2>3, <2>4, <2>5, Zenon
<1>10. CASE RowReview
    <2>1. /\ act.id \in Ids /\ act.body \in Event /\ act # None /\ act.step = "row"
          /\ reviews' = [reviews EXCEPT ![act.id] = Append(reviews[act.id], act.body)]
          /\ toReview' = [toReview EXCEPT ![act.id] = None]
          /\ toRevoke' = IF act.req \in Revoked THEN [toRevoke EXCEPT ![act.id] = None] ELSE toRevoke
          /\ acked' = [acked EXCEPT ![act.id] = acked[act.id] \cup {act.req}]
          /\ UNCHANGED <<row, done, toDo, dropped, store, asked>>
        BY <1>0, <1>10, AtIs DEF RowReview
    <2>2. /\ Stored(act.id, act.body) /\ act.body = toReview[act.id] /\ act.body.req = act.req
          /\ act.req \in Revoked => toRevoke[act.id] = act.req
        BY <1>0, <2>1 DEF ActSound
    <2>3. PICK d \in Ids, e \in Event : d = act.id /\ e = act.body
        BY <2>1
    <2>4. ASSUME NEW b \in Ids PROVE Sound(b)'
        <3>1. CASE b # d
            BY <1>0, <2>1, <2>3, <3>1, Frame DEF store, Types
        <3>2. CASE b = d
            <4>1. toReview[b] = e /\ Stored(b, e) /\ e.req = act.req
                BY <2>2, <2>3, <3>2
            <4>2. toReview'[b] = None /\ reviews'[b] = Append(reviews[b], e)
                BY <1>0, <2>1, <2>3, <3>2 DEF Types
            <4>3. acked'[b] \subseteq acked[b] \cup {e.req}
                BY <1>0, <2>1, <2>3, <3>2, <4>1 DEF Types
            <4>4. toRevoke'[b] = toRevoke[b] \/ toRevoke[b] = e.req
                BY <1>0, <2>1, <2>2, <2>3, <3>2, <4>1 DEF Types
            <4> QED BY <1>0, <2>1, <4>1, <4>2, <4>3, <4>4, EnterReview DEF store
        <3> QED BY <3>1, <3>2
    <2> QED BY <1>b, <2>1, <2>4 DEF store
<1> QED BY <1>1, <1>2, <1>3, <1>4, <1>5, <1>6, <1>7, <1>8, <1>9, <1>10, Zenon DEF Next, Step

(* The request under the mutex stays what is noted for it.                   *)
LEMMA ActStep == Inv /\ [Next]_vars => ActSound'
<1> SUFFICES ASSUME Inv, [Next]_vars PROVE ActSound'
    OBVIOUS
<1>0. Types /\ ActSound /\ (\A b \in Ids : Sound(b))
    BY DEF Inv
<1>a. CASE act' = None
    BY <1>a DEF ActSound
<1>b. CASE UNCHANGED <<rows, stored, act>>
    BY <1>0, <1>b DEF ActSound, rows, Stored, Reviewed, Superseded
<1>1. ASSUME NEW m \in Manifests, Register(m) PROVE ActSound'
    <2>1. act' = Request(IdOf[m], "put", m, None)
        BY <1>1, Zenon DEF Register
    <2>2. act'.step = "put" /\ act'.body = m /\ act'.req = None
        BY <2>1, RequestIs, CatalogAssumption, Different
    <2>3. m # None /\ m \notin Completion /\ m \notin Event /\ None \notin Revoked
        BY Different DEF Requests
    <2> QED BY <2>2, <2>3 DEF ActSound
<1>2. ASSUME NEW p \in Completers, CompleteCommit(p) PROVE ActSound'
    <2>1. UNCHANGED <<row, done, reviews, toReview, toRevoke, dropped, stored>>
        BY <1>2, Zenon DEF CompleteCommit, store
    <2>2. CASE UNCHANGED <<toDo, act>>
        BY <1>b, <2>1, <2>2 DEF rows
    <2>3. ASSUME NEW b \in Ids, NEW c \in Completion, toDo' = [toDo EXCEPT ![b] = c],
                 act' = Request(b, "put", c, None), done[b] = None
          PROVE  ActSound'
        <3>1. act'.id = b /\ act'.step = "put" /\ act'.body = c /\ act'.req = None
            BY <2>3, RequestIs, Different
        <3>2. c # None /\ c \notin Event /\ None \notin Revoked
            BY Different DEF Requests
        <3>3. toDo'[b] = c /\ done'[b] = None
            BY <1>0, <2>1, <2>3 DEF Types
        <3> QED BY <3>1, <3>2, <3>3 DEF ActSound
    <2> QED BY <1>0, <1>2, <2>2, <2>3, CommitCases DEF Inv
<1>3. ASSUME NEW b \in Ids, NEW r \in Requests, Revoke(b, r) PROVE ActSound'
    <2>1. /\ r \in Revoked /\ r \notin Reviewed(b) \cup Superseded(b)
          /\ toRevoke' = [toRevoke EXCEPT ![b] = r] /\ act' = Request(b, "settle", None, r)
          /\ UNCHANGED <<reviews, dropped>>
        BY <1>3, Zenon DEF Revoke, Reviewable
    <2>2. act'.id = b /\ act'.step = "settle" /\ act'.req = r
        BY <2>1, RequestIs
    <2>3. r \notin Reviewed(b)' \cup Superseded(b)'
        BY <2>1 DEF Reviewed, Superseded
    <2>4. toRevoke'[b] = r /\ r # None
        BY <1>0, <2>1, Different DEF Types
    <2>5. Reviewed(act.id)' = Reviewed(b)' /\ Superseded(act.id)' = Superseded(b)'
        BY <2>2 DEF Reviewed, Superseded
    <2> QED BY <2>1, <2>2, <2>3, <2>4, <2>5 DEF ActSound
<1>4. ASSUME NEW b \in Ids, NEW r \in Requests, Approve(b, r) PROVE ActSound'
    <2>1. /\ r \in Good /\ r \notin Reviewed(b) \cup Superseded(b)
          /\ act' = Request(b, "event", None, r) /\ UNCHANGED rows
        BY <1>4, Zenon DEF Approve, Reviewable
    <2>2. act'.id = b /\ act'.step = "event" /\ act'.req = r
        BY <2>1, RequestIs
    <2>3. r \notin Revoked /\ r # None
        BY <2>1, CatalogAssumption, Different
    <2>4. Reviewed(act.id)' = Reviewed(b) /\ Superseded(act.id)' = Superseded(b)
        BY <2>1, <2>2 DEF Reviewed, Superseded, rows
    <2> QED BY <2>1, <2>2, <2>3, <2>4 DEF ActSound
<1>5. CASE Put
    <2>0. UNCHANGED rows /\ act.id \in Ids /\ act.body \in Body /\ act # None /\ act.step = "put"
        BY <1>5, PutCases, Zenon
    <2>1. CASE act' = [act EXCEPT !.step = "row"]
        <3>1. act \in ActType
            BY <1>0, <1>5, AtIs DEF Put
        <3>2. act'.id = act.id /\ act'.step = "row" /\ act'.body = act.body /\ act'.req = act.req
            BY <2>1, <3>1, ActSteps, Zenon
        <3>3. \/ Stored(act.id, act.body) /\ stored' = stored
              \/ stored' = stored \cup {Obj(act.id, act.body)}
              \/ act' = None
            BY <1>5, PutCases, Zenon
        <3>4. act.body # None
            BY <2>0, Different
        <3>5. act' = None \/ Stored(act.id, act.body)'
            BY <3>2, <3>3, <3>4 DEF Stored
        <3>6. /\ act.body \in Completion => act.body = toDo[act.id] /\ done[act.id] = None
              /\ act.body \in Event => act.body = toReview[act.id] /\ act.body.req = act.req
              /\ act.req \in Revoked => toRevoke[act.id] = act.req
            BY <1>0, <2>0 DEF ActSound
        <3> QED BY <1>a, <2>0, <3>2, <3>4, <3>5, <3>6 DEF ActSound, rows
    <2> QED BY <1>5, <1>a, <2>1, PutCases, Zenon
<1>6. CASE Settle
    <2>0. UNCHANGED toRevoke /\ act.id \in Ids /\ act # None /\ act.step = "settle"
        BY <1>0, <1>6, SettleCases, Zenon
    <2>1. CASE act' = [act EXCEPT !.step = "event"]
        <3>1. act \in ActType
            BY <1>0, <1>6, AtIs DEF Settle
        <3>2. act'.id = act.id /\ act'.step = "event" /\ act'.body = act.body /\ act'.req = act.req
            BY <2>1, <3>1, ActSteps, Zenon
        <3>3. /\ act.req \in Revoked /\ act.req # None /\ toRevoke[act.id] = act.req
              /\ act.req \notin Reviewed(act.id) \cup Superseded(act.id)
            BY <1>0, <2>0 DEF ActSound
        <3>4. act.req \notin Good
            BY <3>3, CatalogAssumption
        <3>5. PICK d \in Ids : d = act.id
            BY <2>0
        <3>6. \/ UNCHANGED <<reviews, dropped>>
              \/ /\ toReview[d] # None /\ toReview[d].req \in Good
                 /\ \/ /\ dropped' = dropped
                       /\ reviews' = [reviews EXCEPT ![d] = Append(reviews[d], toReview[d])]
                    \/ /\ reviews' = reviews
                       /\ dropped' = [dropped EXCEPT ![d] = dropped[d] \cup {toReview[d]}]
            BY <1>0, <1>6, <3>5, SettleCases, Zenon
        <3>7. act.req \notin Reviewed(d)'
            <4>1. CASE reviews' = reviews
                BY <3>3, <3>5, <4>1 DEF Reviewed
            <4>2. CASE /\ toReview[d] # None /\ toReview[d].req \in Good
                       /\ reviews' = [reviews EXCEPT ![d] = Append(reviews[d], toReview[d])]
                <5>1. toReview[d] \in Event /\ reviews[d] \in Seq(Event) /\ Len(reviews[d]) \in Nat
                    BY <1>0, <4>2 DEF Types
                <5>2. reviews'[d] = Append(reviews[d], toReview[d])
                    BY <1>0, <4>2 DEF Types
                <5>3. ASSUME NEW i \in 1 .. Len(reviews'[d]) PROVE reviews'[d][i].req # act.req
                    <6>1. CASE i = Len(reviews[d]) + 1
                        BY <3>4, <4>2, <5>1, <5>2, <6>1
                    <6>2. CASE i \in 1 .. Len(reviews[d])
                        <7>1. reviews'[d][i] = reviews[d][i]
                            BY <5>1, <5>2, <6>2
                        <7> QED BY <3>3, <3>5, <6>2, <7>1 DEF Reviewed
                    <6> QED BY <5>1, <5>2, <6>1, <6>2
                <5> QED BY <5>3 DEF Reviewed
            <4> QED BY <3>6, <4>1, <4>2
        <3>8. act.req \notin Superseded(d)'
            <4>1. CASE dropped' = dropped
                BY <3>3, <3>5, <4>1 DEF Superseded
            <4>2. CASE /\ toReview[d].req \in Good
                       /\ dropped' = [dropped EXCEPT ![d] = dropped[d] \cup {toReview[d]}]
                <5>1. dropped'[d] = dropped[d] \cup {toReview[d]}
                    BY <1>0, <4>2 DEF Types
                <5> QED BY <3>3, <3>4, <3>5, <4>2, <5>1 DEF Superseded
            <4> QED BY <3>6, <4>1, <4>2
        <3>9. Reviewed(act.id)' = Reviewed(d)' /\ Superseded(act.id)' = Superseded(d)'
            BY <3>2, <3>5 DEF Reviewed, Superseded
        <3> QED BY <2>0, <3>2, <3>3, <3>7, <3>8, <3>9 DEF ActSound
    <2> QED BY <1>0, <1>6, <1>a, <2>1, SettleCases, Zenon
<1>7. CASE NoteEvent
    <2>0. UNCHANGED <<done, toRevoke>> /\ act.id \in Ids /\ act # None /\ act.step = "event"
        BY <1>7, NoteCases, Zenon
    <2>1. ASSUME NEW e \in Event, toReview' = [toReview EXCEPT ![act.id] = e],
                 e.req = act.req, act' = Request(act.id, "put", e, act.req)
          PROVE  ActSound'
        <3>0. act.req \in Requests \cup {None} /\ e \in Body
            BY <1>0, <1>7, AtIs, Different DEF NoteEvent
        <3>1. act'.id = act.id /\ act'.step = "put" /\ act'.body = e /\ act'.req = act.req
            BY <2>0, <2>1, <3>0, RequestIs
        <3>2. toReview'[act.id] = e
            BY <1>0, <2>0, <2>1 DEF Types
        <3>3. e # None /\ e \notin Completion
            BY Different
        <3>4. act.req \in Revoked => toRevoke[act.id] = act.req
            BY <1>0, <2>0 DEF ActSound
        <3> QED BY <2>0, <2>1, <3>1, <3>2, <3>3, <3>4 DEF ActSound
    <2> QED BY <1>7, <1>a, <2>1, NoteCases, Zenon
<1>8. CASE RowManifest \/ RowCompletion \/ RowReview \/ SqlError \/ Kill \/ Restart
    BY <1>8, <1>a, Zenon DEF RowManifest, RowCompletion, RowReview, SqlError, Kill, Restart
<1>9. ASSUME \/ UNCHANGED vars
             \/ \E p \in Completers, b \in Ids : CompleteBegin(p, b)
             \/ \E p \in Completers, c \in Chunks : ReadChunk(p, c)
             \/ \E c \in Chunks : Damage(c)
      PROVE  ActSound'
    <2>1. UNCHANGED <<rows, stored, act>>
        BY <1>9, Zenon DEF vars, store, CompleteBegin, ReadChunk, Damage
    <2> QED BY <1>b, <2>1
<1> QED BY <1>1, <1>2, <1>3, <1>4, <1>5, <1>6, <1>7, <1>8, <1>9, Zenon DEF Next, Step

-----------------------------------------------------------------------------
(* The invariant is kept by every request, completion, fault and restart.    *)
THEOREM CatalogInvariant == Spec => []Inv
<1>1. Inv /\ [Next]_vars => Inv'
    BY TypesStep, ActStep, RegisteredStep, SoundStep DEF Inv
<1> QED BY InitInv, <1>1, PTL DEF Spec

(* Whatever failed before, the catalogue is typed, repairable by repeating    *)
(* the request, and its history is gapless, complete and bounded.             *)
THEOREM CatalogStaysSound == Spec => []CatalogIsSound
<1>1. Inv => CatalogIsSound
    <2> SUFFICES ASSUME Inv PROVE CatalogIsSound
        OBVIOUS
    <2>0. Types /\ \A b \in Ids : Sound(b)
        BY DEF Inv
    <2>1. TypeOK
        <3>1. ASSUME NEW b \in Ids
              PROVE  /\ Len(reviews[b]) <= MaxReviews
                     /\ \A i \in 1 .. Len(reviews[b]) : reviews[b][i] \in Event
                     /\ dropped[b] \subseteq Event
            BY <2>0 DEF Types, Sound, History
        <3>2. act # None => act.id \in Ids /\ act.step \in {"put", "row", "settle", "event"}
            BY <2>0 DEF Types, ActType
        <3> QED BY <2>0, <3>1, <3>2 DEF TypeOK, Types
    <2>2. AlwaysRepairable
        <3> SUFFICES ASSUME NEW b \in Ids, ok, row[b] # None, ~\E m \in Manifests : m # row[b] /\ Stored(b, m)
                     PROVE  Repairable(b)
            BY DEF AlwaysRepairable
        <3>0. Sound(b) /\ Len(reviews[b]) \in Nat
            BY <2>0 DEF Types
        <3>1. Manifested(b) = {row[b]}
            <4>1. row[b] \in Manifests /\ Stored(b, row[b])
                BY <2>0, <3>0 DEF Types, Sound, Named
            <4> QED BY <4>1 DEF Manifested
        <3>2. Cardinality(Manifested(b)) = 1
            BY <3>1, FS_Singleton
        <3>3. owners[b] = Cardinality(Objects(b))
            BY DEF Inv, CountsKept
        <3>4. One(done[b] # None) \in Nat /\ One(Stored(b, toDo[b])) \in Nat /\ One(Stored(b, toReview[b])) \in Nat
            BY DEF One
        <3>5. owners[b] = Expected(b) + Pending(b)
            BY <3>0, <3>2, <3>3, <3>4 DEF Sound, Counted, Expected, Pending
        <3> QED BY <3>0, <3>5 DEF Repairable, Sound, Intended
    <2>3. HistoryIsSound
        BY <2>0 DEF HistoryIsSound, Sound, History
    <2> QED BY <2>1, <2>2, <2>3 DEF CatalogIsSound
<1> QED BY <1>1, CatalogInvariant, PTL

(* A noted revocation ends every recommendation until a good review is        *)
(* entered after it, and what it replaced never comes back.                   *)
THEOREM RevocationsAreFinal == Spec => []RevocationIsFinal
<1>1. ASSUME Inv PROVE RevocationIsFinal
    <2>1. ASSUME NEW b \in Ids, Recommended(b), NEW r \in asked[b] PROVE r \in Reviewed(b)
        <3>1. toRevoke[b] = None
            BY <2>1 DEF Recommended, Shown
        <3>2. r # None
            BY <1>1, <2>1, Different DEF Inv, Types, Requests
        <3>3. r \in Reviewed(b) \/ toRevoke[b] = r
            BY <1>1, <2>1 DEF Inv, Sound, Noted
        <3> QED BY <3>1, <3>2, <3>3
    <2>2. SupersededStaysOut
        BY <1>1 DEF Inv, Sound, History, SupersededStaysOut
    <2> QED BY <2>1, <2>2 DEF RevocationIsFinal, RevocationHolds
<1> QED BY <1>1, CatalogInvariant, PTL

(* A completion is noted only while every chunk is as its receipt says.       *)
THEOREM CompletedWasWhole == Spec => CompletedIsWhole
<1> DEFINE Whole == \A b \in Ids : (toDo[b] = None /\ toDo'[b] # None) => \A c \in Chunks : chunk[c] = "good"
<1>1. Inv /\ [Next]_vars => [Whole]_vars
    <2> SUFFICES ASSUME Inv, [Next]_vars, NEW b \in Ids, toDo[b] = None, toDo'[b] # None,
                        NEW c \in Chunks
                 PROVE  chunk[c] = "good"
        BY Zenon
    <2>0. Types /\ Registered
        BY DEF Inv
    <2>1. CASE \E p \in Completers : CompleteCommit(p)
        <3>1. UNCHANGED <<toDo, act>> \/ \A x \in Chunks : chunk[x] = "good"
            BY <2>0, <2>1, CommitCases, Zenon
        <3> QED BY <3>1
    <2>2. CASE RowCompletion
        <3>1. toDo' = [toDo EXCEPT ![act.id] = None]
            BY <2>2, Zenon DEF RowCompletion
        <3> QED BY <2>0, <3>1 DEF Types
    <2>3. CASE ~RowCompletion /\ ~\E p \in Completers : CompleteCommit(p)
        <3>1. toDo' = toDo
            BY <2>3, Zenon DEF Next, Step, vars, rows, Register, CompleteBegin, ReadChunk,
                Revoke, Approve, Put, RowManifest, Settle, NoteEvent, RowReview, SqlError, Kill, Restart, Damage
        <3> QED BY <3>1
    <2> QED BY <2>1, <2>2, <2>3
<1> QED BY <1>1, CatalogInvariant, PTL DEF Spec, CompletedIsWhole
=============================================================================
