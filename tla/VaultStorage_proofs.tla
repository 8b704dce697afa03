------------------------ MODULE VaultStorage_proofs ------------------------
(***************************************************************************)
(* Proofs about the storage of the vault server, for any finite sets of    *)
(* agents and contents, any configurations and any number of processes,    *)
(* crashes and other faults.                                               *)
(***************************************************************************)
EXTENDS VaultStorage, FiniteSetTheorems, FunctionTheorems, TLAPS

-----------------------------------------------------------------------------
(* The inductive invariant *)

\* The writer lock: at most one process runs.
OneServer == \A s, t \in up : s = t

\* A file is in a directory that is there.
InDirectory == \A k \in Keys : blob[k] # "absent" => dir[k[1]] # "absent"

\* Where the put of a running server is says what its two files are.
AtStep(s) ==
    LET o == op[s]
        k == Key(s)
    IN /\ dir[o.a] = "absent" => o.step = "dir"
       /\ blob[k] # "absent" => kind[k] = o.kind
       /\ o.file = "blob" =>
             /\ o.step # "finish" /\ rcpt[k] = "absent"
             /\ o.step \in {"dir", "root", "temp", "link"} => blob[k] = "absent"
             /\ o.step = "unlink" => blob[k] = "twin"
             /\ o.step = "sync" => blob[k] = "new"
       /\ o.file = "rcpt" =>
             /\ o.step \notin {"dir", "root"} /\ blob[k] = "kept"
             /\ KeepsParents => dir[o.a] = "kept"
             /\ o.step \in {"temp", "link"} => rcpt[k] = "absent"
             /\ o.step = "unlink" => rcpt[k] = "twin"
             /\ o.step = "sync" => rcpt[k] = "new"
             /\ o.step = "finish" => rcpt[k] = "kept"

Publishing == \A s \in Servers : op[s] # None => s \in ok /\ AtStep(s)

Stored == {k \in Keys : blob[k] # "absent"}
Pending(s) == IF op[s] = None THEN {} ELSE {Key(s)}
Taken(s) == Stored \cup Pending(s)
KindOf(s, k) == IF k \in Pending(s) THEN op[s].kind ELSE kind[k]
Revoking(s) == IF Enabled(cfg[s]) THEN {k \in Taken(s) : KindOf(s, k) = "revoke"} ELSE {}

\* A server that vouches for its storage has nothing half published but the
\* object it is writing, and counts every object including that one.
Clean == \A s \in ok : \A k \in Stored \ Pending(s) : Readable(blob[k]) /\ Readable(rcpt[k])

Counted ==
    \A s \in ok : \A a \in Agents :
        /\ use[s][a] = CountOf(Of(a, Taken(s)), Stored \ Pending(s))
        /\ rev[s][a] = CountOf(Of(a, Revoking(s)), Stored \ Pending(s))

\* What is charged to the same budget as the object being written, which was
\* admitted before anything of it was.
AsRevocation(s) == op[s].kind = "revoke" /\ Enabled(cfg[s])
Mine(s) == IF AsRevocation(s) THEN Revoking(s) ELSE Taken(s) \ Revoking(s)

Within(S, lim) == Cardinality(S) <= lim.objs /\ Bytes(S) <= lim.bytes

Admitted ==
    \A s \in Servers : op[s] # None =>
        LET budget == IF AsRevocation(s) THEN cfg[s].revoke ELSE cfg[s].normal
        IN /\ Within(Mine(s), budget.all)
           /\ Within(Of(op[s].a, Mine(s)), budget.agent[op[s].a])

\* Where syncing a directory keeps its own entry, the directory of an answered
\* object is as safe as its files.
AnswerInDirectory == \A r \in answered : dir[r[1][1]] = "kept"

Inv ==
    /\ TypeOK /\ OneServer /\ InDirectory /\ ReceiptHasBody /\ Publishing
    /\ Clean /\ Counted /\ Admitted
    /\ KeepsParents => AnsweredIsKept /\ AnswerInDirectory

-----------------------------------------------------------------------------
(* Sums *)

Cells(f) == UNION {{x} \X (1 .. f[x]) : x \in DOMAIN f}

(* The sizes of two finite sets without a common element add up.           *)
LEMMA DisjointUnion ==
    ASSUME NEW S, IsFiniteSet(S), NEW T, IsFiniteSet(T), S \cap T = {}
    PROVE  IsFiniteSet(S \cup T) /\ Cardinality(S \cup T) = Cardinality(S) + Cardinality(T)
<1>1. Cardinality(S \cup T) = Cardinality(S) + Cardinality(T) - Cardinality(S \cap T)
    BY FS_Union
<1>2. Cardinality(S \cap T) = 0 /\ Cardinality(S) \in Nat /\ Cardinality(T) \in Nat
    BY FS_EmptySet, FS_CardinalityType
<1>3. IsFiniteSet(S \cup T)
    BY FS_Union
<1> QED BY <1>1, <1>2, <1>3

(* The sum over a finite set is the size of a finite set.                  *)
LEMMA CellsFinite ==
    ASSUME NEW S, IsFiniteSet(S), NEW f \in [S -> Nat]
    PROVE  IsFiniteSet(Cells(f)) /\ SumOf(f) \in Nat
<1> DEFINE All == {{x} \X (1 .. f[x]) : x \in S}
<1> DEFINE g == [x \in S |-> {x} \X (1 .. f[x])]
<1>1. g \in Surjection(S, All)
    BY DEF Surjection
<1>2. IsFiniteSet(All)
    BY <1>1, FS_Surjection
<1>3. ASSUME NEW T \in All PROVE IsFiniteSet(T)
    <2>1. PICK x \in S : T = {x} \X (1 .. f[x])
        OBVIOUS
    <2>2. f[x] \in Int
        OBVIOUS
    <2>3. IsFiniteSet({x})
        BY FS_Singleton
    <2>4. IsFiniteSet(1 .. f[x])
        BY <2>2, FS_Interval
    <2> QED BY <2>1, <2>3, <2>4, FS_Product
<1> HIDE DEF All
<1>4. IsFiniteSet(UNION All)
    BY <1>2, <1>3, FS_UNION
<1>5. Cells(f) = UNION All
    BY DEF Cells, All
<1> QED BY <1>4, <1>5, FS_CardinalityType DEF SumOf, Cells

(* The sizes of the parts of a finite set add up to its size.              *)
LEMMA SumOfSizes ==
    ASSUME NEW A, IsFiniteSet(A), NEW T, IsFiniteSet(T), NEW F \in [A -> SUBSET T],
           \A x \in T : \E a \in A : x \in F[a],
           \A a, b \in A : a # b => F[a] \cap F[b] = {},
           NEW n \in [A -> Nat], \A a \in A : n[a] = Cardinality(F[a])
    PROVE  SumOf(n) = Cardinality(T)
<1> DEFINE g == [a \in A |-> CHOOSE h : h \in Bijection(1 .. n[a], F[a])]
<1>1. ASSUME NEW a \in A PROVE g[a] \in Bijection(1 .. n[a], F[a])
    <2>1. IsFiniteSet(F[a])
        BY FS_Subset
    <2>2. ExistsBijection(1 .. n[a], F[a])
        BY <2>1, FS_CardinalityType
    <2> QED BY <2>2 DEF ExistsBijection
<1> HIDE DEF g
<1>2. ASSUME NEW a \in A
      PROVE  /\ g[a] \in [1 .. n[a] -> F[a]]
             /\ \A i, j \in 1 .. n[a] : g[a][i] = g[a][j] => i = j
             /\ \A x \in F[a] : \E i \in 1 .. n[a] : g[a][i] = x
    <2>1. PICK h : h = g[a]
        OBVIOUS
    <2>2. h \in Injection(1 .. n[a], F[a]) /\ h \in Surjection(1 .. n[a], F[a])
        BY <1>1, <2>1 DEF Bijection
    <2>3. /\ h \in [1 .. n[a] -> F[a]]
          /\ \A i, j \in 1 .. n[a] : h[i] = h[j] => i = j
        BY <2>2 DEF Injection, IsInjective
    <2>4. \A x \in F[a] : \E i \in 1 .. n[a] : h[i] = x
        BY <2>2 DEF Surjection
    <2> QED BY <2>1, <2>3, <2>4
<1>3. /\ \A c \in Cells(n) : c[1] \in A /\ c[2] \in 1 .. n[c[1]] /\ c = <<c[1], c[2]>>
      /\ \A a \in A : \A i \in 1 .. n[a] : <<a, i>> \in Cells(n)
    <2>1. DOMAIN n = A
        OBVIOUS
    <2>2. ASSUME NEW c \in Cells(n)
          PROVE  c[1] \in A /\ c[2] \in 1 .. n[c[1]] /\ c = <<c[1], c[2]>>
        <3>1. PICK a \in A : c \in {a} \X (1 .. n[a])
            BY <2>1 DEF Cells
        <3> QED BY <3>1
    <2>3. ASSUME NEW a \in A, NEW i \in 1 .. n[a] PROVE <<a, i>> \in Cells(n)
        <3>1. <<a, i>> \in {a} \X (1 .. n[a])
            OBVIOUS
        <3> QED BY <2>1, <3>1 DEF Cells
    <2> QED BY <2>2, <2>3
<1> DEFINE phi == [c \in Cells(n) |-> g[c[1]][c[2]]]
<1>4. phi \in [Cells(n) -> T]
    BY <1>2, <1>3
<1>5. ASSUME NEW c \in Cells(n), NEW d \in Cells(n), phi[c] = phi[d] PROVE c = d
    <2>1. g[c[1]][c[2]] \in F[c[1]] /\ g[d[1]][d[2]] \in F[d[1]] /\ g[c[1]][c[2]] = g[d[1]][d[2]]
        BY <1>2, <1>3, <1>5
    <2>2. c[1] = d[1]
        <3>1. c[1] \in A /\ d[1] \in A
            BY <1>3
        <3> QED BY <2>1, <3>1
    <2>3. c[2] = d[2]
        <3>1. PICK a \in A : a = c[1] /\ a = d[1]
            BY <1>3, <2>2
        <3>2. c[2] \in 1 .. n[a] /\ d[2] \in 1 .. n[a] /\ g[a][c[2]] = g[a][d[2]]
            BY <1>3, <2>1, <3>1
        <3> QED BY <1>2, <3>2
    <2> QED BY <1>3, <2>2, <2>3
<1>6. ASSUME NEW x \in T PROVE \E c \in Cells(n) : phi[c] = x
    <2>1. PICK a \in A : x \in F[a]
        OBVIOUS
    <2>2. PICK i \in 1 .. n[a] : g[a][i] = x
        BY <1>2, <2>1
    <2>3. <<a, i>> \in Cells(n) /\ phi[<<a, i>>] = x
        BY <1>3, <2>2
    <2> QED BY <2>3
<1> HIDE DEF phi
<1>7. phi \in Bijection(Cells(n), T)
    <2>1. phi \in Injection(Cells(n), T)
        BY <1>4, <1>5 DEF Injection, IsInjective
    <2>2. phi \in Surjection(Cells(n), T)
        BY <1>4, <1>6 DEF Surjection
    <2> QED BY <2>1, <2>2 DEF Bijection
<1>8. ExistsBijection(Cells(n), T)
    BY <1>7 DEF ExistsBijection
<1>9. IsFiniteSet(Cells(n))
    BY CellsFinite
<1> QED BY <1>8, <1>9, FS_Bijection DEF SumOf, Cells

Places(S) == UNION {{k} \X (1 .. Size[k[2]]) : k \in S}

(* The objects that can be stored are finitely many, each with its size.   *)
LEMMA KeysFinite ==
    /\ IsFiniteSet(Keys)
    /\ \A S : S \subseteq Keys => IsFiniteSet(S) /\ Cardinality(S) \in Nat
    /\ \A k \in Keys : Size[k[2]] \in Nat /\ k[1] \in Agents /\ k[2] \in Hashes /\ k = <<k[1], k[2]>>
<1>1. IsFiniteSet(Keys)
    BY StorageAssumption, FS_Product DEF Keys
<1>2. ASSUME NEW S, S \subseteq Keys PROVE IsFiniteSet(S) /\ Cardinality(S) \in Nat
    BY <1>1, <1>2, FS_Subset, FS_CardinalityType
<1>3. \A k \in Keys : Size[k[2]] \in Nat /\ k[1] \in Agents /\ k[2] \in Hashes /\ k = <<k[1], k[2]>>
    BY StorageAssumption DEF Keys
<1> QED BY <1>1, <1>2, <1>3

(* The bytes of a set of objects, as the size of a set.                    *)
LEMMA BytesIsSize ==
    ASSUME NEW S, S \subseteq Keys
    PROVE  /\ Bytes(S) = Cardinality(Places(S)) /\ Bytes(S) \in Nat
           /\ IsFiniteSet(Places(S))
<1> DEFINE f == [k \in S |-> Size[k[2]]]
<1>1. f \in [S -> Nat] /\ IsFiniteSet(S)
    BY KeysFinite
<1>2. Cells(f) = Places(S)
    BY DEF Cells, Places
<1>3. IsFiniteSet(Cells(f)) /\ SumOf(f) \in Nat
    BY <1>1, CellsFinite
<1>4. SumOf(f) = Cardinality(Cells(f))
    BY DEF SumOf, Cells
<1> HIDE DEF f
<1>5. Bytes(S) = SumOf(f)
    BY DEF Bytes, f
<1> QED BY <1>2, <1>3, <1>4, <1>5

(* Bytes add up over disjoint sets.                                        *)
LEMMA BytesAdd ==
    ASSUME NEW S, S \subseteq Keys, NEW T, T \subseteq Keys, S \cap T = {}
    PROVE  Bytes(S \cup T) = Bytes(S) + Bytes(T)
<1>1. Places(S \cup T) = Places(S) \cup Places(T) /\ Places(S) \cap Places(T) = {}
    BY DEF Places
<1>2. Cardinality(Places(S) \cup Places(T)) = Cardinality(Places(S)) + Cardinality(Places(T))
    BY <1>1, BytesIsSize, DisjointUnion
<1>3. S \cup T \subseteq Keys
    OBVIOUS
<1>4. Bytes(S \cup T) = Cardinality(Places(S \cup T))
    BY <1>3, BytesIsSize
<1>5. Bytes(S) = Cardinality(Places(S)) /\ Bytes(T) = Cardinality(Places(T))
    BY BytesIsSize
<1> QED BY <1>1, <1>2, <1>4, <1>5

(* The bytes of one object are its size.                                   *)
LEMMA BytesOne == ASSUME NEW k \in Keys PROVE Bytes({k}) = Size[k[2]]
<1>1. PICK n \in Nat : n = Size[k[2]]
    BY KeysFinite
<1>2. Places({k}) = {k} \X (1 .. n)
    BY <1>1 DEF Places
<1>3. IsFiniteSet(1 .. n)
    BY <1>1, FS_Interval
<1>4. Cardinality(1 .. n) = n
    <2>1. 1 \in Int /\ n \in Int
        BY <1>1
    <2>2. Cardinality(1 .. n) = IF 1 > n THEN 0 ELSE n - 1 + 1
        BY <2>1, FS_Interval
    <2> QED BY <1>1, <2>2
<1>5. IsFiniteSet({k}) /\ Cardinality({k}) = 1
    BY FS_Singleton
<1>6. Cardinality({k} \X (1 .. n)) = Cardinality({k}) * Cardinality(1 .. n)
    BY <1>3, <1>5, FS_Product
<1>7. Cardinality({k}) * Cardinality(1 .. n) = n
    BY <1>1, <1>4, <1>5
<1>8. Cardinality(Places({k})) = n
    BY <1>2, <1>6, <1>7
<1> QED BY <1>1, <1>8, BytesIsSize

-----------------------------------------------------------------------------
(* Counts *)

(* A count grows by one object when it is reserved, ...                    *)
LEMMA CountAdd ==
    ASSUME NEW S, S \subseteq Keys, NEW k \in Keys, k \notin S, NEW V, k \notin V
    PROVE  CountOf(S \cup {k}, V) = Plus(CountOf(S, V), Size[k[2]])
<1>1. Cardinality(S \cup {k}) = Cardinality(S) + 1
    BY KeysFinite, FS_AddElement
<1>2. Bytes(S \cup {k}) = Bytes(S) + Size[k[2]]
    <2>1. {k} \subseteq Keys /\ S \cap {k} = {}
        OBVIOUS
    <2> QED BY <2>1, BytesAdd, BytesOne
<1>3. (S \cup {k}) \cap V = S \cap V
    OBVIOUS
<1> QED BY <1>1, <1>2, <1>3 DEF CountOf, Plus

(* ... and it is done when the object has its receipt.                     *)
LEMMA CountDone ==
    ASSUME NEW S, S \subseteq Keys, NEW k \in S, NEW V, k \notin V
    PROVE  CountOf(S, V \cup {k}) = Done(CountOf(S, V))
<1>1. S \cap (V \cup {k}) = (S \cap V) \cup {k} /\ k \notin S \cap V /\ S \cap V \subseteq Keys
    OBVIOUS
<1>2. Cardinality((S \cap V) \cup {k}) = Cardinality(S \cap V) + 1
    BY <1>1, KeysFinite, FS_AddElement
<1> QED BY <1>1, <1>2 DEF CountOf, Done

(* A count of other objects is not touched by either.                      *)
LEMMA CountElsewhere ==
    ASSUME NEW S, NEW k, k \notin S, NEW V
    PROVE  CountOf(S, V \cup {k}) = CountOf(S, V)
<1>1. S \cap (V \cup {k}) = S \cap V
    OBVIOUS
<1> QED BY <1>1 DEF CountOf

(* What is not a revocation is what is left when those are taken away.     *)
LEMMA CountMinus ==
    ASSUME NEW S, S \subseteq Keys, NEW R, R \subseteq S, NEW V, NEW W
    PROVE  /\ Minus(CountOf(S, V), CountOf(R, W)).objs = Cardinality(S \ R)
           /\ Minus(CountOf(S, V), CountOf(R, W)).bytes = Bytes(S \ R)
<1>1. R \subseteq Keys /\ S \ R \subseteq Keys /\ R \cap (S \ R) = {} /\ R \cup (S \ R) = S
    OBVIOUS
<1>2. Cardinality(R \cup (S \ R)) = Cardinality(R) + Cardinality(S \ R)
    BY <1>1, KeysFinite, DisjointUnion
<1>3. Bytes(R \cup (S \ R)) = Bytes(R) + Bytes(S \ R)
    BY <1>1, BytesAdd
<1>4. /\ Cardinality(R) \in Nat /\ Cardinality(S \ R) \in Nat
      /\ Bytes(R) \in Nat /\ Bytes(S \ R) \in Nat
    BY <1>1, KeysFinite, BytesIsSize
<1>5. ASSUME NEW x \in Nat, NEW y \in Nat, NEW z, z = x + y PROVE z - x = y
    BY <1>5
<1>6. Cardinality(S) = Cardinality(R) + Cardinality(S \ R) /\ Bytes(S) = Bytes(R) + Bytes(S \ R)
    BY <1>1, <1>2, <1>3
<1>7. Cardinality(S) - Cardinality(R) = Cardinality(S \ R)
    BY <1>4, <1>5, <1>6
<1>8. Bytes(S) - Bytes(R) = Bytes(S \ R)
    BY <1>4, <1>5, <1>6
<1> QED BY <1>7, <1>8 DEF Minus, CountOf

(* The agents' counts add up to the count of all their objects.            *)
LEMMA TotalIsAll ==
    ASSUME NEW S, S \subseteq Keys, NEW f,
           \A a \in Agents : f[a].objs = Cardinality(Of(a, S)) /\ f[a].bytes = Bytes(Of(a, S))
    PROVE  Total(f).objs = Cardinality(S) /\ Total(f).bytes = Bytes(S)
<1>1. \A a \in Agents : Of(a, S) \subseteq S /\ Of(a, S) \subseteq Keys
    BY DEF Of
<1>2. SumOf([a \in Agents |-> f[a].objs]) = Cardinality(S)
    <2> DEFINE n == [a \in Agents |-> f[a].objs]
               F == [a \in Agents |-> Of(a, S)]
    <2>1. F \in [Agents -> SUBSET S] /\ \A a, b \in Agents : a # b => F[a] \cap F[b] = {}
        BY DEF Of
    <2>2. \A x \in S : \E a \in Agents : x \in F[a]
        BY KeysFinite DEF Of
    <2>3. n \in [Agents -> Nat] /\ \A a \in Agents : n[a] = Cardinality(F[a])
        BY <1>1, KeysFinite
    <2> HIDE DEF n, F
    <2>4. SumOf(n) = Cardinality(S)
        BY <2>1, <2>2, <2>3, KeysFinite, StorageAssumption, SumOfSizes
    <2> QED BY <2>4 DEF n
<1>3. SumOf([a \in Agents |-> f[a].bytes]) = Bytes(S)
    <2> DEFINE n == [a \in Agents |-> f[a].bytes]
               F == [a \in Agents |-> Places(Of(a, S))]
    <2>1. F \in [Agents -> SUBSET Places(S)]
        BY DEF Of, Places
    <2>2. \A a, b \in Agents : a # b => F[a] \cap F[b] = {}
        BY DEF Of, Places
    <2>3. ASSUME NEW x \in Places(S) PROVE \E a \in Agents : x \in F[a]
        <3>1. PICK k \in S : x \in {k} \X (1 .. Size[k[2]])
            BY DEF Places
        <3>2. k[1] \in Agents /\ k \in Of(k[1], S)
            BY KeysFinite DEF Of
        <3>3. x \in Places(Of(k[1], S))
            BY <3>1, <3>2 DEF Places
        <3> QED BY <3>2, <3>3
    <2>4. n \in [Agents -> Nat] /\ \A a \in Agents : n[a] = Cardinality(F[a])
        BY <1>1, BytesIsSize
    <2> HIDE DEF n, F
    <2>5. IsFiniteSet(Places(S)) /\ Bytes(S) = Cardinality(Places(S))
        BY BytesIsSize
    <2>6. SumOf(n) = Cardinality(Places(S))
        BY <2>1, <2>2, <2>3, <2>4, <2>5, StorageAssumption, SumOfSizes
    <2> QED BY <2>5, <2>6 DEF n
<1> QED BY <1>2, <1>3 DEF Total

-----------------------------------------------------------------------------
(* Types *)

(* Counts are counts.                                                      *)
LEMMA CountTyped ==
    /\ \A S, V : S \subseteq Keys => CountOf(S, V) \in Count
    /\ \A c \in Count, n \in Nat : Plus(c, n) \in Count
    /\ \A c \in Count : Done(c) \in Count
    /\ Zero \in Count
<1>1. ASSUME NEW S, NEW V, S \subseteq Keys PROVE CountOf(S, V) \in Count
    <2>1. S \cap V \subseteq Keys
        BY <1>1
    <2>2. Cardinality(S) \in Nat /\ Cardinality(S \cap V) \in Nat /\ Bytes(S) \in Nat
        BY <1>1, <2>1, KeysFinite, BytesIsSize
    <2> QED BY <2>2 DEF CountOf, Count
<1>2. /\ \A c \in Count, n \in Nat : Plus(c, n) \in Count
      /\ \A c \in Count : Done(c) \in Count
      /\ Zero \in Count
    BY DEF Count, Plus, Done, Zero
<1> QED BY <1>1, <1>2

(* Changing the count of one agent at one server.                          *)
LEMMA OneCountChanged ==
    ASSUME NEW f \in [Servers -> [Agents -> Count]], NEW s \in Servers, NEW a \in Agents, NEW c \in Count,
           NEW g, g = [f EXCEPT ![s][a] = c]
    PROVE  /\ g \in [Servers -> [Agents -> Count]]
           /\ g[s][a] = c
           /\ \A b \in Agents : b # a => g[s][b] = f[s][b]
           /\ \A t \in Servers : t # s => g[t] = f[t]
<1>1. PICK h : h = [f[s] EXCEPT ![a] = c]
    OBVIOUS
<1>2. h \in [Agents -> Count] /\ h[a] = c /\ \A b \in Agents : b # a => h[b] = f[s][b]
    BY <1>1
<1>3. g = [f EXCEPT ![s] = h]
    BY <1>1
<1>4. g \in [Servers -> [Agents -> Count]] /\ g[s] = h /\ \A t \in Servers : t # s => g[t] = f[t]
    BY <1>2, <1>3
<1> QED BY <1>2, <1>4

(* Going to another step, the put stays the same.                          *)
LEMMA GotoTyped ==
    ASSUME TypeOK, NEW s \in Servers, op[s] # None, NEW file \in {"blob", "rcpt"},
           NEW step \in Steps, Goto(s, file, step)
    PROVE  /\ op' \in [Servers -> Op \cup {None}]
           /\ op'[s] \in Op /\ op'[s] # None /\ op[s] \in Op
           /\ op'[s].a = op[s].a /\ op'[s].h = op[s].h /\ op'[s].kind = op[s].kind
           /\ op'[s].file = file /\ op'[s].step = step
           /\ Key(s)' = Key(s) /\ Key(s) \in Keys
           /\ \A t \in Servers : t # s => op'[t] = op[t]
<1>1. op \in [Servers -> Op \cup {None}] /\ op[s] \in Op
    BY DEF TypeOK
<1>2. PICK o : o = [a |-> op[s].a, h |-> op[s].h, kind |-> op[s].kind, file |-> file, step |-> step]
    OBVIOUS
<1>3. o \in Op
    BY <1>1, <1>2 DEF Op
<1>4. op' = [op EXCEPT ![s] = o]
    BY <1>2 DEF Goto
<1>5. o # None
    BY <1>3, StorageAssumption
<1>6. op'[s] = o /\ \A t \in Servers : t # s => op'[t] = op[t]
    BY <1>1, <1>4
<1>7. op' \in [Servers -> Op \cup {None}]
    BY <1>1, <1>3, <1>4
<1>8. o.a = op[s].a /\ o.h = op[s].h /\ o.kind = op[s].kind /\ o.file = file /\ o.step = step
    BY <1>2
<1>9. Key(s) \in Keys
    BY <1>1 DEF Key, Keys, Op
<1> QED BY <1>1, <1>3, <1>5, <1>6, <1>7, <1>8, <1>9 DEF Key

(* Syncing the files of an agent.                                          *)
LEMMA SyncTyped ==
    ASSUME TypeOK, NEW a \in Agents, SyncFiles(a)
    PROVE  /\ dir' \in [Agents -> DirStates] /\ temp' \in [Agents -> TempStates]
           /\ blob' \in [Keys -> FileStates] /\ rcpt' \in [Keys -> FileStates]
<1>1. blob' \in [Keys -> FileStates] /\ rcpt' \in [Keys -> FileStates]
    BY DEF TypeOK, SyncFiles, Kept, FileStates
<1>2. temp' \in [Agents -> TempStates]
    BY DEF TypeOK, SyncFiles, TempStates
<1>3. dir' \in [Agents -> DirStates]
    BY DEF TypeOK, SyncFiles, Kept, DirStates
<1> QED BY <1>1, <1>2, <1>3

(* A server that starts counts what is stored.                             *)
LEMMA StartTyped ==
    ASSUME TypeOK, NEW s \in Servers, NEW c \in Configs, Start(s, c)
    PROVE  TypeOK'
<1>1. PICK S \in SUBSET Seen :
          /\ use' = [use EXCEPT ![s] = [a \in Agents |-> CountOf(Of(a, S), Verified)]]
          /\ rev' = [rev EXCEPT ![s] = [a \in Agents |-> CountOf(Of(a, S \cap Revocations(c)), Verified)]]
    BY DEF Start
<1>2. \A a \in Agents : Of(a, S) \subseteq Keys /\ Of(a, S \cap Revocations(c)) \subseteq Keys
    BY DEF Of, Seen
<1>3. /\ [a \in Agents |-> CountOf(Of(a, S), Verified)] \in [Agents -> Count]
      /\ [a \in Agents |-> CountOf(Of(a, S \cap Revocations(c)), Verified)] \in [Agents -> Count]
    BY <1>2, CountTyped
<1>4. use' \in [Servers -> [Agents -> Count]] /\ rev' \in [Servers -> [Agents -> Count]]
    BY <1>1, <1>3 DEF TypeOK
<1>5. /\ up' = up \cup {s} /\ cfg' = [cfg EXCEPT ![s] = c]
      /\ whole' \subseteq whole \cup {s} /\ ok' \subseteq ok \cup {s}
      /\ UNCHANGED <<dir, temp, blob, rcpt, kind, bad, op, answered, faults>>
    BY DEF Start, disk
<1> QED BY <1>4, <1>5 DEF TypeOK

(* A new put counts its object.                                            *)
LEMMA PutNewTyped ==
    ASSUME TypeOK, NEW s \in Servers, NEW k \in Keys, NEW d \in Kinds, PutNew(s, k, d)
    PROVE  TypeOK'
<1>1. k[1] \in Agents /\ k[2] \in Hashes /\ Size[k[2]] \in Nat
    BY KeysFinite
<1>2. PICK u, r : u = Plus(use[s][k[1]], Size[k[2]]) /\ r = Plus(rev[s][k[1]], Size[k[2]])
    OBVIOUS
<1>3. u \in Count /\ r \in Count
    BY <1>1, <1>2, CountTyped DEF TypeOK
<1>4. /\ use' = [use EXCEPT ![s][k[1]] = u]
      /\ rev' = [rev EXCEPT ![s][k[1]] = r] \/ rev' = rev
    BY <1>2 DEF PutNew
<1>5. use' \in [Servers -> [Agents -> Count]] /\ rev' \in [Servers -> [Agents -> Count]]
    <2>1. use \in [Servers -> [Agents -> Count]] /\ rev \in [Servers -> [Agents -> Count]]
        BY DEF TypeOK
    <2>2. use' \in [Servers -> [Agents -> Count]]
        BY <1>1, <1>3, <1>4, <2>1, OneCountChanged
    <2>3. rev' = [rev EXCEPT ![s][k[1]] = r] => rev' \in [Servers -> [Agents -> Count]]
        BY <1>1, <1>3, <2>1, OneCountChanged
    <2> QED BY <1>4, <2>1, <2>2, <2>3
<1>6. PICK o : o = [a |-> k[1], h |-> k[2], kind |-> d, file |-> "blob", step |-> "dir"]
    OBVIOUS
<1>7. o \in Op
    BY <1>1, <1>6 DEF Op, Steps
<1>8. op' = [op EXCEPT ![s] = o]
    BY <1>6 DEF PutNew
<1>9. op' \in [Servers -> Op \cup {None}]
    BY <1>7, <1>8 DEF TypeOK
<1>10. UNCHANGED <<dir, temp, blob, rcpt, kind, bad, up, ok, whole, cfg, answered, faults>>
    BY DEF PutNew, disk
<1> QED BY <1>5, <1>9, <1>10 DEF TypeOK

(* The steps of a put, ...                                                 *)
LEMMA PutStepTyped ==
    ASSUME TypeOK, NEW s \in Servers, PutStep(s)
    PROVE  TypeOK'
<1>1. s \in up /\ op[s] # None /\ op[s] \in Op
    BY DEF TypeOK, PutStep, MakeDir, SyncRoot, WriteTemp, Link, Unlink, SyncDir, Finish, At
<1>2. Key(s) \in Keys /\ op[s].a \in Agents /\ op[s].kind \in Kinds /\ op[s].file \in {"blob", "rcpt"}
    BY <1>1 DEF Key, Keys, Op
<1>3. CASE MakeDir(s)
    <2>1. op' \in [Servers -> Op \cup {None}]
        BY <1>1, <1>3, GotoTyped DEF MakeDir, Steps
    <2>2. dir' \in [Agents -> DirStates]
        BY <1>2, <1>3 DEF MakeDir, TypeOK, DirStates
    <2> QED BY <1>3, <2>1, <2>2 DEF MakeDir, mem, TypeOK
<1>4. CASE SyncRoot(s)
    <2>1. op' \in [Servers -> Op \cup {None}]
        BY <1>1, <1>4, GotoTyped DEF SyncRoot, Steps
    <2>2. dir' \in [Agents -> DirStates]
        BY <1>2, <1>4 DEF SyncRoot, TypeOK, DirStates, Kept
    <2> QED BY <1>4, <2>1, <2>2 DEF SyncRoot, mem, TypeOK
<1>5. CASE WriteTemp(s)
    <2>1. op' \in [Servers -> Op \cup {None}]
        BY <1>1, <1>2, <1>5, GotoTyped DEF WriteTemp, Steps
    <2>2. temp' \in [Agents -> TempStates]
        BY <1>2, <1>5 DEF WriteTemp, TypeOK, TempStates
    <2> QED BY <1>5, <2>1, <2>2 DEF WriteTemp, mem, TypeOK
<1>6. CASE Link(s)
    <2>1. op' \in [Servers -> Op \cup {None}]
        BY <1>1, <1>2, <1>6, GotoTyped DEF Link, Steps
    <2>2. /\ blob' \in [Keys -> FileStates] /\ rcpt' \in [Keys -> FileStates]
          /\ kind' \in [Keys -> Kinds \cup {None}] /\ bad' \subseteq Keys
        BY <1>2, <1>6 DEF Link, TypeOK, FileStates
    <2> QED BY <1>6, <2>1, <2>2 DEF Link, mem, TypeOK
<1>7. CASE Unlink(s)
    <2>1. op' \in [Servers -> Op \cup {None}]
        BY <1>1, <1>2, <1>7, GotoTyped DEF Unlink, Steps
    <2>2. temp' \in [Agents -> TempStates]
        BY <1>2, <1>7 DEF Unlink, TypeOK, TempStates
    <2>3. blob' \in [Keys -> FileStates] /\ rcpt' \in [Keys -> FileStates]
        BY <1>2, <1>7 DEF Unlink, TypeOK, FileStates, Single
    <2> QED BY <1>7, <2>1, <2>2, <2>3 DEF Unlink, mem, TypeOK
<1>8. CASE SyncDir(s)
    <2>1. op' \in [Servers -> Op \cup {None}]
        BY <1>1, <1>2, <1>8, GotoTyped DEF SyncDir, Steps
    <2>2. /\ dir' \in [Agents -> DirStates] /\ temp' \in [Agents -> TempStates]
          /\ blob' \in [Keys -> FileStates] /\ rcpt' \in [Keys -> FileStates]
        BY <1>2, <1>8, SyncTyped DEF SyncDir
    <2> QED BY <1>8, <2>1, <2>2 DEF SyncDir, mem, TypeOK
<1>9. CASE Finish(s)
    <2>1. PICK u, r : u = Done(use[s][op[s].a]) /\ r = Done(rev[s][op[s].a])
        OBVIOUS
    <2>2. u \in Count /\ r \in Count
        BY <1>2, <2>1, CountTyped DEF TypeOK
    <2>3. use' = [use EXCEPT ![s][op[s].a] = u] /\ (rev' = [rev EXCEPT ![s][op[s].a] = r] \/ rev' = rev)
        BY <1>9, <2>1 DEF Finish
    <2>4. use' \in [Servers -> [Agents -> Count]] /\ rev' \in [Servers -> [Agents -> Count]]
        <3>1. use \in [Servers -> [Agents -> Count]] /\ rev \in [Servers -> [Agents -> Count]]
            BY DEF TypeOK
        <3>2. use' \in [Servers -> [Agents -> Count]]
            BY <1>2, <2>2, <2>3, <3>1, OneCountChanged
        <3>3. rev' = [rev EXCEPT ![s][op[s].a] = r] => rev' \in [Servers -> [Agents -> Count]]
            BY <1>2, <2>2, <3>1, OneCountChanged
        <3> QED BY <2>3, <3>1, <3>2, <3>3
    <2>5. op' \in [Servers -> Op \cup {None}] /\ answered' \subseteq Keys \X Kinds
        BY <1>2, <1>9 DEF Finish, TypeOK
    <2>6. UNCHANGED <<dir, temp, blob, rcpt, kind, bad, up, ok, whole, cfg, faults>>
        BY <1>9 DEF Finish, disk
    <2> QED BY <2>4, <2>5, <2>6 DEF TypeOK
<1> QED BY <1>3, <1>4, <1>5, <1>6, <1>7, <1>8, <1>9 DEF PutStep

(* ... the other requests ...                                              *)
LEMMA RequestTyped ==
    ASSUME TypeOK, NEW s \in Servers, NEW k \in Keys, NEW d \in Kinds, PutAgain(s, k, d) \/ PutBroken(s, k)
    PROVE  TypeOK'
<1>1. CASE PutAgain(s, k, d)
    <2>1. k[1] \in Agents
        BY KeysFinite
    <2>2. /\ dir' \in [Agents -> DirStates] /\ temp' \in [Agents -> TempStates]
          /\ blob' \in [Keys -> FileStates] /\ rcpt' \in [Keys -> FileStates]
        BY <1>1, <2>1, SyncTyped DEF PutAgain, TypeOK
    <2>3. faults' \in 0 .. MaxFaults
        BY <1>1, StorageAssumption DEF PutAgain, TypeOK, Fault
    <2>4. answered' \subseteq Keys \X Kinds
        BY <1>1 DEF PutAgain, TypeOK
    <2>5. ok' \subseteq up /\ UNCHANGED <<kind, bad, up, whole, cfg, use, rev, op>>
        BY <1>1 DEF PutAgain, WriteFailed, TypeOK
    <2> QED BY <2>2, <2>3, <2>4, <2>5 DEF TypeOK
<1>2. CASE PutBroken(s, k)
    BY <1>2 DEF PutBroken, WriteFailed, TypeOK, disk
<1> QED BY <1>1, <1>2

(* ... and what goes wrong and is repaired.                                *)
LEMMA FailTyped == ASSUME TypeOK, NEW s \in Servers, Fail(s) PROVE TypeOK'
<1>1. op[s] \in Op /\ Key(s) \in Keys /\ op[s].a \in Agents
    BY DEF Fail, TypeOK, Key, Keys, Op
<1>2. temp' \in [Agents -> TempStates]
    BY <1>1 DEF Fail, AfterFailure, TypeOK, TempStates
<1>3. blob' \in [Keys -> FileStates] /\ rcpt' \in [Keys -> FileStates]
    BY <1>1 DEF Fail, AfterFailure, TypeOK, FileStates, Single
<1>4. faults' \in 0 .. MaxFaults
    BY StorageAssumption DEF Fail, TypeOK, Fault
<1>5. op' \in [Servers -> Op \cup {None}] /\ ok' \subseteq up
    BY DEF Fail, WriteFailed, TypeOK
<1> QED BY <1>2, <1>3, <1>4, <1>5 DEF Fail, TypeOK

(* What a server that stopped leaves of its memory.                        *)
LEMMA ForgetTyped ==
    ASSUME TypeOK, NEW S \in SUBSET Servers, Forget(S)
    PROVE  /\ up' \subseteq Servers /\ ok' \subseteq up' /\ whole' \subseteq up'
           /\ cfg' \in [Servers -> Configs]
           /\ use' \in [Servers -> [Agents -> Count]] /\ rev' \in [Servers -> [Agents -> Count]]
           /\ op' \in [Servers -> Op \cup {None}]
<1>1. [a \in Agents |-> Zero] \in [Agents -> Count]
    BY CountTyped
<1>2. use' \in [Servers -> [Agents -> Count]] /\ rev' \in [Servers -> [Agents -> Count]]
    BY <1>1 DEF Forget, TypeOK
<1>3. op' \in [Servers -> Op \cup {None}]
    BY DEF Forget, TypeOK
<1> QED BY <1>2, <1>3 DEF Forget, TypeOK

(* A crash leaves files in states that files can be in.                    *)
LEMMA CrashTyped == ASSUME TypeOK, SystemCrash PROVE TypeOK'
<1>1. /\ dir' \in [Agents -> DirStates] /\ temp' \in [Agents -> TempStates]
      /\ blob' \in [Keys -> FileStates] /\ rcpt' \in [Keys -> FileStates]
    <2>1. dir' \in [Agents -> DirStates]
        BY DEF SystemCrash, DirStates
    <2>2. temp' \in [Agents -> TempStates]
        BY DEF SystemCrash, TempStates
    <2>3. blob' \in [Keys -> FileStates]
        BY DEF SystemCrash, FileStates
    <2>4. rcpt' \in [Keys -> FileStates]
        BY DEF SystemCrash, FileStates
    <2> QED BY <2>1, <2>2, <2>3, <2>4
<1>2. /\ up' \subseteq Servers /\ ok' \subseteq up' /\ whole' \subseteq up'
      /\ cfg' \in [Servers -> Configs]
      /\ use' \in [Servers -> [Agents -> Count]] /\ rev' \in [Servers -> [Agents -> Count]]
      /\ op' \in [Servers -> Op \cup {None}]
    BY ForgetTyped DEF SystemCrash
<1>3. faults' \in 0 .. MaxFaults /\ UNCHANGED <<kind, bad, answered>>
    BY StorageAssumption DEF SystemCrash, TypeOK, Fault
<1> QED BY <1>1, <1>2, <1>3 DEF TypeOK

(* So do the end of a process, a damaged body and a repair.                *)
LEMMA OutsideTyped ==
    ASSUME TypeOK, (\E s \in Servers : Kill(s)) \/ (\E k \in Keys : Damage(k)) \/ (\E a \in Agents : Repair(a))
    PROVE  TypeOK'
<1>1. ASSUME NEW s \in Servers, Kill(s) PROVE TypeOK'
    <2>1. /\ up' \subseteq Servers /\ ok' \subseteq up' /\ whole' \subseteq up'
          /\ cfg' \in [Servers -> Configs]
          /\ use' \in [Servers -> [Agents -> Count]] /\ rev' \in [Servers -> [Agents -> Count]]
          /\ op' \in [Servers -> Op \cup {None}]
        BY <1>1, ForgetTyped DEF Kill
    <2>2. faults' \in 0 .. MaxFaults /\ UNCHANGED <<dir, temp, blob, rcpt, kind, bad, answered>>
        BY <1>1, StorageAssumption DEF Kill, TypeOK, Fault, disk
    <2> QED BY <2>1, <2>2 DEF TypeOK
<1>2. ASSUME NEW k \in Keys, Damage(k) PROVE TypeOK'
    <2>1. faults' \in 0 .. MaxFaults
        BY <1>2, StorageAssumption DEF Damage, TypeOK, Fault
    <2> QED BY <1>2, <2>1 DEF Damage, TypeOK, mem
<1>3. ASSUME NEW a \in Agents, Repair(a) PROVE TypeOK'
    <2>1. temp' \in [Agents -> TempStates]
        BY <1>3 DEF Repair, TypeOK, TempStates
    <2>2. blob' \in [Keys -> FileStates] /\ rcpt' \in [Keys -> FileStates]
        BY <1>3 DEF Repair, TypeOK, FileStates
    <2> QED BY <1>3, <2>1, <2>2 DEF Repair, TypeOK, mem
<1> QED BY <1>1, <1>2, <1>3

(* Every step keeps the types.                                             *)
LEMMA TypeStep == TypeOK /\ [Next]_vars => TypeOK'
<1>1. ASSUME TypeOK, UNCHANGED vars PROVE TypeOK'
    BY <1>1 DEF TypeOK, vars, disk, mem
<1>2. ASSUME TypeOK, Next PROVE TypeOK'
    <2>1. ASSUME NEW s \in Servers, NEW c \in Configs, Start(s, c) PROVE TypeOK'
        BY <1>2, <2>1, StartTyped
    <2>2. ASSUME NEW s \in Servers, NEW k \in Keys, NEW d \in Kinds, PutNew(s, k, d) PROVE TypeOK'
        BY <1>2, <2>2, PutNewTyped
    <2>3. ASSUME NEW s \in Servers, NEW k \in Keys, NEW d \in Kinds, PutAgain(s, k, d) PROVE TypeOK'
        BY <1>2, <2>3, RequestTyped
    <2>4. ASSUME NEW s \in Servers, NEW k \in Keys, PutBroken(s, k) PROVE TypeOK'
        <3>1. "plain" \in Kinds
            BY DEF Kinds
        <3> QED BY <1>2, <2>4, <3>1, RequestTyped
    <2>5. ASSUME NEW s \in Servers, PutStep(s) PROVE TypeOK'
        BY <1>2, <2>5, PutStepTyped
    <2>6. ASSUME NEW s \in Servers, Fail(s) PROVE TypeOK'
        BY <1>2, <2>6, FailTyped
    <2>7. CASE SystemCrash
        BY <1>2, <2>7, CrashTyped
    <2>8. CASE (\E s \in Servers : Kill(s)) \/ (\E k \in Keys : Damage(k)) \/ (\E a \in Agents : Repair(a))
        BY <1>2, <2>8, OutsideTyped
    <2> QED BY <1>2, <2>1, <2>2, <2>3, <2>4, <2>5, <2>6, <2>7, <2>8 DEF Next
<1> QED BY <1>1, <1>2

-----------------------------------------------------------------------------
(* The lock and the files *)

(* A second server never runs.                                             *)
LEMMA LockStep == OneServer /\ [Next]_vars => OneServer'
<1>1. ASSUME [Next]_vars PROVE up' \subseteq up \/ (up = {} /\ \E s : up' = {s})
    <2>1. ASSUME NEW s, NEW c, Start(s, c) PROVE up = {} /\ up' = {s}
        BY <2>1 DEF Start, Alone
    <2>2. ASSUME NEW s, NEW k, NEW d, PutNew(s, k, d) \/ PutAgain(s, k, d) \/ PutBroken(s, k) PROVE up' = up
        BY <2>2 DEF PutNew, PutAgain, PutBroken
    <2>3. ASSUME NEW s, PutStep(s) PROVE up' = up
        BY <2>3 DEF PutStep, MakeDir, SyncRoot, WriteTemp, Link, Unlink, SyncDir, Finish, mem
    <2>4. ASSUME NEW s, Fail(s) \/ Kill(s) PROVE up' \subseteq up
        BY <2>4 DEF Fail, Kill, Forget
    <2>5. CASE SystemCrash
        BY <2>5 DEF SystemCrash, Forget
    <2>6. ASSUME NEW x, Damage(x) \/ Repair(x) PROVE up' = up
        BY <2>6 DEF Damage, Repair, mem
    <2>7. CASE UNCHANGED vars
        BY <2>7 DEF vars, mem
    <2> QED BY <1>1, <2>1, <2>2, <2>3, <2>4, <2>5, <2>6, <2>7 DEF Next
<1> QED BY <1>1 DEF OneServer

Files == InDirectory /\ ReceiptHasBody /\ Publishing

(* Where one server runs, no other has a put or vouches for the storage.   *)
LEMMA OnlyOne ==
    ASSUME TypeOK, OneServer, Publishing, NEW s \in up
    PROVE  /\ s \in Servers /\ up = {s} /\ ok \subseteq {s}
           /\ \A t \in Servers : t # s => op[t] = None
<1>1. s \in Servers /\ up = {s} /\ ok \subseteq {s}
    BY DEF TypeOK, OneServer
<1>2. \A t \in Servers : op[t] # None => t \in ok
    BY DEF Publishing
<1> QED BY <1>1, <1>2

(* A step of a put keeps Publishing when it keeps its own server's part.   *)
LEMMA PublishingStep ==
    ASSUME TypeOK, OneServer, Publishing, NEW s \in up, op[s] # None,
           \A t \in Servers : t # s => op'[t] = op[t],
           ok' = ok, AtStep(s)'
    PROVE  Publishing'
<1>1. \A t \in Servers : t # s => op'[t] = None
    BY OnlyOne
<1>2. s \in ok
    BY OnlyOne DEF Publishing
<1> QED BY <1>1, <1>2 DEF Publishing

(* Without a put there is nothing to say about its files.                  *)
LEMMA PublishingNone == (\A s \in Servers : op'[s] = None) => Publishing'
BY DEF Publishing

(* What is known of the put of a server.                                   *)
LEMMA PutKnown ==
    ASSUME TypeOK, Files, NEW s \in Servers, op[s] # None
    PROVE  /\ op[s] \in Op /\ Key(s) \in Keys /\ Key(s)[1] = op[s].a /\ op[s].a \in Agents
           /\ op[s].kind \in Kinds /\ op[s].file \in {"blob", "rcpt"} /\ op[s].step \in Steps
           /\ s \in ok /\ s \in up /\ AtStep(s)
<1>1. op[s] \in Op
    BY DEF TypeOK
<1>2. /\ op[s].a \in Agents /\ op[s].h \in Hashes /\ op[s].kind \in Kinds
      /\ op[s].file \in {"blob", "rcpt"} /\ op[s].step \in Steps
    BY <1>1 DEF Op
<1>3. Key(s) \in Keys /\ Key(s)[1] = op[s].a
    BY <1>2 DEF Key, Keys
<1>4. s \in ok /\ s \in up /\ AtStep(s)
    BY DEF Files, Publishing, TypeOK
<1> QED BY <1>1, <1>2, <1>3, <1>4

(* The directory is made and synced.                                       *)
LEMMA DirFiles ==
    ASSUME TypeOK, OneServer, Files, NEW s \in Servers, MakeDir(s) \/ SyncRoot(s)
    PROVE  Files'
<1>1. s \in up /\ op[s] # None
    BY DEF MakeDir, SyncRoot, At
<1>2. /\ Key(s) \in Keys /\ Key(s)[1] = op[s].a /\ op[s].a \in Agents /\ AtStep(s)
      /\ op[s].file \in {"blob", "rcpt"}
    BY <1>1, PutKnown
<1>3. /\ UNCHANGED <<blob, rcpt, kind, ok>>
      /\ \E step \in {"root", "temp"} : Goto(s, "blob", step)
      /\ op[s].step \in {"dir", "root"}
    BY DEF MakeDir, SyncRoot, mem, At
<1>4. PICK step \in {"root", "temp"} : Goto(s, "blob", step)
    BY <1>3
<1>5. /\ op'[s].a = op[s].a /\ op'[s].kind = op[s].kind /\ op'[s].file = "blob" /\ op'[s].step = step
      /\ Key(s)' = Key(s)
      /\ \A t \in Servers : t # s => op'[t] = op[t]
    BY <1>1, <1>4, GotoTyped DEF Steps
<1>6. dir'[op[s].a] # "absent" /\ \A a \in Agents : dir[a] # "absent" => dir'[a] # "absent"
    <2>1. CASE MakeDir(s)
        BY <1>2, <2>1 DEF MakeDir, TypeOK
    <2>2. CASE SyncRoot(s)
        BY <1>2, <2>2 DEF SyncRoot, TypeOK, Kept, AtStep, At, DirStates
    <2> QED BY <2>1, <2>2
<1>7. AtStep(s)'
    <2>1. rcpt[Key(s)] = "absent" /\ blob[Key(s)] = "absent" /\ op[s].file = "blob"
        BY <1>2, <1>3 DEF AtStep
    <2> QED BY <1>3, <1>5, <1>6, <2>1 DEF AtStep
<1>8. InDirectory' /\ ReceiptHasBody'
    BY <1>3, <1>6, KeysFinite DEF Files, InDirectory, ReceiptHasBody
<1> QED BY <1>1, <1>3, <1>5, <1>7, <1>8, PublishingStep DEF Files

(* A file is written and linked to its name, ...                           *)
LEMMA WriteFiles ==
    ASSUME TypeOK, OneServer, Files, NEW s \in Servers, WriteTemp(s)
    PROVE  Files'
<1>1. s \in up /\ op[s] # None /\ op[s].step = "temp"
    BY DEF WriteTemp, At
<1>2. Key(s) \in Keys /\ AtStep(s) /\ op[s].file \in {"blob", "rcpt"}
    BY <1>1, PutKnown
<1>3. UNCHANGED <<dir, blob, rcpt, kind, ok>> /\ Goto(s, op[s].file, "link")
    BY DEF WriteTemp, mem
<1>4. /\ op'[s].a = op[s].a /\ op'[s].kind = op[s].kind /\ op'[s].file = op[s].file /\ op'[s].step = "link"
      /\ Key(s)' = Key(s)
      /\ \A t \in Servers : t # s => op'[t] = op[t]
    BY <1>1, <1>2, <1>3, GotoTyped DEF Steps
<1>5. AtStep(s)'
    BY <1>1, <1>2, <1>3, <1>4 DEF AtStep
<1>6. InDirectory' /\ ReceiptHasBody'
    BY <1>3 DEF Files, InDirectory, ReceiptHasBody
<1> QED BY <1>1, <1>3, <1>4, <1>5, <1>6, PublishingStep DEF Files

(* ... the body first, the receipt when the body is safe, ...              *)
LEMMA LinkFiles ==
    ASSUME TypeOK, OneServer, Files, NEW s \in Servers, Link(s)
    PROVE  Files'
<1>1. s \in up /\ op[s] # None /\ op[s].step = "link"
    BY DEF Link, At
<1>2. /\ Key(s) \in Keys /\ AtStep(s) /\ op[s].file \in {"blob", "rcpt"}
      /\ Key(s)[1] = op[s].a /\ op[s].a \in Agents
    BY <1>1, PutKnown
<1>3. UNCHANGED <<dir, ok>> /\ Goto(s, op[s].file, "unlink")
    BY DEF Link, mem
<1>4. /\ op'[s].a = op[s].a /\ op'[s].kind = op[s].kind /\ op'[s].file = op[s].file /\ op'[s].step = "unlink"
      /\ Key(s)' = Key(s)
      /\ \A t \in Servers : t # s => op'[t] = op[t]
    BY <1>1, <1>2, <1>3, GotoTyped DEF Steps
<1>5. dir[op[s].a] # "absent"
    BY <1>1, <1>2 DEF AtStep
<1>6. CASE op[s].file = "blob"
    <2>1. /\ blob[Key(s)] = "absent" /\ rcpt[Key(s)] = "absent" /\ rcpt' = rcpt
          /\ blob'[Key(s)] = "twin" /\ kind'[Key(s)] = op[s].kind
          /\ \A k \in Keys : k # Key(s) => blob'[k] = blob[k]
        BY <1>1, <1>2, <1>6 DEF Link, TypeOK, AtStep
    <2>2. AtStep(s)'
        BY <1>3, <1>4, <1>5, <1>6, <2>1 DEF AtStep
    <2>3. InDirectory' /\ ReceiptHasBody'
        BY <1>2, <1>3, <1>5, <2>1 DEF Files, InDirectory, ReceiptHasBody
    <2> QED BY <1>1, <1>3, <1>4, <2>2, <2>3, PublishingStep DEF Files
<1>7. CASE op[s].file = "rcpt"
    <2>1. /\ UNCHANGED <<blob, kind>> /\ rcpt'[Key(s)] = "twin" /\ blob[Key(s)] = "kept"
          /\ KeepsParents => dir[op[s].a] = "kept"
          /\ kind[Key(s)] = op[s].kind
          /\ \A k \in Keys : k # Key(s) => rcpt'[k] = rcpt[k]
        BY <1>1, <1>2, <1>7 DEF Link, TypeOK, AtStep
    <2>2. AtStep(s)'
        BY <1>3, <1>4, <1>5, <1>7, <2>1 DEF AtStep
    <2>3. InDirectory' /\ ReceiptHasBody'
        BY <1>2, <1>3, <2>1 DEF Files, InDirectory, ReceiptHasBody
    <2> QED BY <1>1, <1>3, <1>4, <2>2, <2>3, PublishingStep DEF Files
<1> QED BY <1>2, <1>6, <1>7

(* ... its other name is removed ...                                       *)
LEMMA UnlinkFiles ==
    ASSUME TypeOK, OneServer, Files, NEW s \in Servers, Unlink(s)
    PROVE  Files'
<1>1. s \in up /\ op[s] # None /\ op[s].step = "unlink"
    BY DEF Unlink, At
<1>2. Key(s) \in Keys /\ AtStep(s) /\ op[s].file \in {"blob", "rcpt"}
    BY <1>1, PutKnown
<1>3. UNCHANGED <<dir, kind, ok>> /\ Goto(s, op[s].file, "sync")
    BY DEF Unlink, mem
<1>4. /\ op'[s].a = op[s].a /\ op'[s].kind = op[s].kind /\ op'[s].file = op[s].file /\ op'[s].step = "sync"
      /\ Key(s)' = Key(s)
      /\ \A t \in Servers : t # s => op'[t] = op[t]
    BY <1>1, <1>2, <1>3, GotoTyped DEF Steps
<1>5. /\ blob'[Key(s)] = Single(blob[Key(s)]) /\ rcpt'[Key(s)] = Single(rcpt[Key(s)])
      /\ \A k \in Keys : k # Key(s) => blob'[k] = blob[k] /\ rcpt'[k] = rcpt[k]
    BY <1>2 DEF Unlink, TypeOK
<1>6. AtStep(s)'
    <2>1. dir[op[s].a] # "absent" /\ (blob'[Key(s)] # "absent" => kind[Key(s)] = op[s].kind)
        BY <1>1, <1>2, <1>5 DEF AtStep, Single
    <2>2. CASE op[s].file = "blob"
        <3>1. rcpt'[Key(s)] = "absent" /\ blob'[Key(s)] = "new"
            BY <1>1, <1>2, <1>5, <2>2 DEF AtStep, Single
        <3> QED BY <1>3, <1>4, <2>1, <2>2, <3>1 DEF AtStep
    <2>3. CASE op[s].file = "rcpt"
        <3>1. rcpt'[Key(s)] = "new" /\ blob'[Key(s)] = "kept" /\ (KeepsParents => dir[op[s].a] = "kept")
            BY <1>1, <1>2, <1>5, <2>3 DEF AtStep, Single
        <3> QED BY <1>3, <1>4, <2>1, <2>3, <3>1 DEF AtStep
    <2> QED BY <1>2, <2>2, <2>3
<1>7. InDirectory' /\ ReceiptHasBody'
    <2>1. \A k \in Keys : /\ blob'[k] # "absent" => blob[k] # "absent"
                          /\ rcpt'[k] # "absent" => rcpt[k] # "absent"
                          /\ blob[k] = "kept" => blob'[k] = "kept"
        BY <1>2, <1>5 DEF Single
    <2> QED BY <1>3, <2>1 DEF Files, InDirectory, ReceiptHasBody
<1> QED BY <1>1, <1>3, <1>4, <1>6, <1>7, PublishingStep DEF Files

(* What syncing the directory of an agent does to each file.               *)
LEMMA SyncEffect ==
    ASSUME TypeOK, NEW a \in Agents, SyncFiles(a)
    PROVE  /\ \A k \in Keys : blob'[k] = (IF k[1] = a THEN Kept(blob[k]) ELSE blob[k])
                             /\ rcpt'[k] = (IF k[1] = a THEN Kept(rcpt[k]) ELSE rcpt[k])
           /\ \A k \in Keys : /\ blob'[k] # "absent" <=> blob[k] # "absent"
                              /\ rcpt'[k] # "absent" <=> rcpt[k] # "absent"
                              /\ blob[k] = "kept" => blob'[k] = "kept"
                              /\ rcpt[k] = "kept" => rcpt'[k] = "kept"
                              /\ Readable(blob'[k]) <=> Readable(blob[k])
                              /\ Readable(rcpt'[k]) <=> Readable(rcpt[k])
           /\ \A b \in Agents : dir[b] = "kept" => dir'[b] = "kept"
           /\ \A b \in Agents : dir'[b] = "absent" <=> dir[b] = "absent"
           /\ KeepsParents /\ dir[a] # "absent" => dir'[a] = "kept"
<1>1. \A k \in Keys : blob'[k] = (IF k[1] = a THEN Kept(blob[k]) ELSE blob[k])
                    /\ rcpt'[k] = (IF k[1] = a THEN Kept(rcpt[k]) ELSE rcpt[k])
    BY DEF SyncFiles
<1>2. \A b \in Agents : dir'[b] = dir[b] \/ dir'[b] = Kept(dir[b])
    BY DEF SyncFiles, TypeOK
<1>3. KeepsParents => dir'[a] = Kept(dir[a])
    BY DEF SyncFiles, TypeOK
<1>4. dir[a] \in {"absent", "new", "kept"}
    BY DEF TypeOK, DirStates
<1>5. \A k \in Keys : /\ blob'[k] # "absent" <=> blob[k] # "absent"
                      /\ rcpt'[k] # "absent" <=> rcpt[k] # "absent"
                      /\ blob[k] = "kept" => blob'[k] = "kept"
                      /\ rcpt[k] = "kept" => rcpt'[k] = "kept"
                      /\ Readable(blob'[k]) <=> Readable(blob[k])
                      /\ Readable(rcpt'[k]) <=> Readable(rcpt[k])
    BY <1>1 DEF Kept, Readable
<1>6. /\ \A b \in Agents : dir[b] = "kept" => dir'[b] = "kept"
      /\ \A b \in Agents : dir'[b] = "absent" <=> dir[b] = "absent"
      /\ KeepsParents /\ dir[a] # "absent" => dir'[a] = "kept"
    BY <1>2, <1>3, <1>4 DEF Kept
<1> QED BY <1>1, <1>5, <1>6

(* ... and the directory is synced.                                        *)
LEMMA SyncDirFiles ==
    ASSUME TypeOK, OneServer, Files, NEW s \in Servers, SyncDir(s)
    PROVE  Files'
<1>1. s \in up /\ op[s] # None /\ op[s].step = "sync"
    BY DEF SyncDir, At
<1>2. /\ Key(s) \in Keys /\ AtStep(s) /\ op[s].file \in {"blob", "rcpt"}
      /\ Key(s)[1] = op[s].a /\ op[s].a \in Agents
    BY <1>1, PutKnown
<1>3. /\ UNCHANGED <<kind, ok>> /\ SyncFiles(op[s].a)
      /\ \E step \in {"temp", "finish"} : Goto(s, "rcpt", step) /\ (step = "temp" <=> op[s].file = "blob")
    BY DEF SyncDir, mem
<1>4. PICK step \in {"temp", "finish"} : Goto(s, "rcpt", step) /\ (step = "temp" <=> op[s].file = "blob")
    BY <1>3
<1>5. /\ op'[s].a = op[s].a /\ op'[s].kind = op[s].kind /\ op'[s].file = "rcpt" /\ op'[s].step = step
      /\ Key(s)' = Key(s)
      /\ \A t \in Servers : t # s => op'[t] = op[t]
    BY <1>1, <1>2, <1>4, GotoTyped DEF Steps
<1>6. /\ blob'[Key(s)] = Kept(blob[Key(s)]) /\ rcpt'[Key(s)] = Kept(rcpt[Key(s)])
      /\ blob'[Key(s)] # "absent" <=> blob[Key(s)] # "absent"
    BY <1>2, <1>3, SyncEffect
<1>7. dir[op[s].a] # "absent" /\ (blob[Key(s)] # "absent" => kind[Key(s)] = op[s].kind)
    BY <1>1, <1>2 DEF AtStep
<1>8. dir'[op[s].a] # "absent" /\ (KeepsParents => dir'[op[s].a] = "kept")
    BY <1>2, <1>3, <1>7, SyncEffect
<1>9. AtStep(s)'
    <2>1. CASE op[s].file = "blob"
        <3>1. blob'[Key(s)] = "kept" /\ rcpt'[Key(s)] = "absent"
            BY <1>1, <1>2, <1>6, <2>1 DEF AtStep, Kept
        <3>2. step = "temp"
            BY <1>4, <2>1
        <3> QED BY <1>3, <1>5, <1>6, <1>7, <1>8, <3>1, <3>2 DEF AtStep
    <2>2. CASE op[s].file = "rcpt"
        <3>1. blob'[Key(s)] = "kept" /\ rcpt'[Key(s)] = "kept"
            BY <1>1, <1>2, <1>6, <2>2 DEF AtStep, Kept
        <3>2. step = "finish"
            BY <1>4, <2>2
        <3> QED BY <1>3, <1>5, <1>6, <1>7, <1>8, <3>1, <3>2 DEF AtStep
    <2> QED BY <1>2, <2>1, <2>2
<1>10. InDirectory' /\ ReceiptHasBody'
    BY <1>2, <1>3, SyncEffect, KeysFinite DEF Files, InDirectory, ReceiptHasBody
<1> QED BY <1>1, <1>3, <1>5, <1>9, <1>10, PublishingStep DEF Files

(* The end of a put leaves no put.                                         *)
LEMMA NoPut ==
    ASSUME TypeOK, OneServer, Files, NEW s \in up, op'[s] = None,
           \A t \in Servers : t # s => op'[t] = op[t]
    PROVE  \A t \in Servers : op'[t] = None
BY OnlyOne DEF Files

(* Nothing is said of files that did not change.                           *)
LEMMA SameFiles ==
    ASSUME TypeOK, OneServer, Files, UNCHANGED <<dir, blob, rcpt>>, \A t \in Servers : op'[t] = None
    PROVE  Files'
BY PublishingNone DEF Files, InDirectory, ReceiptHasBody

(* A new put finds neither file.                                           *)
LEMMA PutNewFiles ==
    ASSUME TypeOK, OneServer, Files, NEW s \in Servers, NEW k \in Keys, NEW d \in Kinds, PutNew(s, k, d)
    PROVE  /\ Files'
           /\ op'[s] # None /\ op'[s].a = k[1] /\ op'[s].kind = d /\ Key(s)' = k
           /\ s \in ok /\ op[s] = None
<1>1. s \in up /\ op[s] = None /\ s \in ok
    BY DEF PutNew, Free, Admit
<1>2. PICK o : o = [a |-> k[1], h |-> k[2], kind |-> d, file |-> "blob", step |-> "dir"]
    OBVIOUS
<1>3. op' = [op EXCEPT ![s] = o]
    BY <1>2 DEF PutNew
<1>4. o \in Op
    BY <1>2, KeysFinite DEF Op, Steps
<1>5. op'[s] = o /\ o # None /\ \A t \in Servers : t # s => op'[t] = op[t]
    BY <1>3, <1>4, StorageAssumption DEF TypeOK
<1>6. o.a = k[1] /\ o.h = k[2] /\ o.kind = d /\ o.file = "blob" /\ o.step = "dir"
    BY <1>2
<1>7. Key(s)' = k
    BY <1>5, <1>6, KeysFinite DEF Key
<1>8. UNCHANGED <<dir, blob, rcpt, kind, ok>> /\ blob[k] = "absent" /\ rcpt[k] = "absent"
    BY DEF PutNew, disk
<1>9. AtStep(s)'
    BY <1>5, <1>6, <1>7, <1>8 DEF AtStep
<1>10. \A t \in Servers : t # s => op'[t] = None
    BY <1>1, <1>5, OnlyOne DEF Files
<1>11. Publishing'
    BY <1>1, <1>8, <1>9, <1>10 DEF Publishing
<1>12. InDirectory' /\ ReceiptHasBody'
    BY <1>8 DEF Files, InDirectory, ReceiptHasBody
<1> QED BY <1>1, <1>5, <1>6, <1>7, <1>11, <1>12 DEF Files

(* Requests for what is there, or half there.                              *)
LEMMA RequestFiles ==
    ASSUME TypeOK, OneServer, Files, NEW s \in Servers, NEW k \in Keys, NEW d \in Kinds,
           PutAgain(s, k, d) \/ PutBroken(s, k)
    PROVE  Files' /\ \A t \in Servers : op'[t] = None
<1>1. s \in up /\ op[s] = None /\ op' = op
    BY DEF PutAgain, PutBroken, Free
<1>2. \A t \in Servers : op'[t] = None
    BY <1>1, OnlyOne DEF Files
<1>3. CASE SyncFiles(k[1])
    <2>1. k[1] \in Agents
        BY KeysFinite
    <2>2. InDirectory' /\ ReceiptHasBody'
        BY <1>3, <2>1, SyncEffect, KeysFinite DEF Files, InDirectory, ReceiptHasBody
    <2> QED BY <1>2, <2>2, PublishingNone DEF Files
<1>4. CASE UNCHANGED <<dir, blob, rcpt>>
    BY <1>2, <1>4, SameFiles
<1> QED BY <1>2, <1>3, <1>4 DEF PutAgain, PutBroken, disk

(* A put that fails leaves its files, at most less their other name.       *)
LEMMA FailFiles ==
    ASSUME TypeOK, OneServer, Files, NEW s \in Servers, Fail(s)
    PROVE  /\ Files' /\ \A t \in Servers : op'[t] = None
           /\ \A k \in Keys : blob[k] = "kept" => blob'[k] = "kept"
           /\ \A k \in Keys : rcpt[k] = "kept" => rcpt'[k] = "kept"
<1>1. s \in up /\ op[s] # None /\ op'[s] = None /\ dir' = dir
      /\ \A t \in Servers : t # s => op'[t] = op[t]
    BY DEF Fail, TypeOK
<1>2. \A t \in Servers : op'[t] = None
    BY <1>1, NoPut
<1>3. Key(s) \in Keys
    BY <1>1, PutKnown
<1>4. \A k \in Keys : /\ blob'[k] = blob[k] \/ blob'[k] = Single(blob[k])
                      /\ rcpt'[k] = rcpt[k] \/ rcpt'[k] = Single(rcpt[k])
    BY <1>3 DEF Fail, AfterFailure, TypeOK
<1>5. \A k \in Keys : /\ blob'[k] # "absent" => blob[k] # "absent"
                      /\ rcpt'[k] # "absent" => rcpt[k] # "absent"
                      /\ blob[k] = "kept" => blob'[k] = "kept"
                      /\ rcpt[k] = "kept" => rcpt'[k] = "kept"
    BY <1>4 DEF Single
<1>6. InDirectory' /\ ReceiptHasBody'
    BY <1>1, <1>5 DEF Files, InDirectory, ReceiptHasBody
<1> QED BY <1>2, <1>5, <1>6, PublishingNone DEF Files

(* A crash takes a directory with its files, and no file that was synced   *)
(* in a directory that was.                                                *)
LEMMA CrashFiles ==
    ASSUME TypeOK, OneServer, Files, SystemCrash
    PROVE  /\ Files' /\ \A t \in Servers : op'[t] = None
           /\ \A a \in Agents : dir[a] = "kept" => dir'[a] = "kept"
           /\ \A k \in Keys : dir[k[1]] = "kept" /\ blob[k] = "kept" => blob'[k] = "kept"
           /\ \A k \in Keys : dir[k[1]] = "kept" /\ rcpt[k] = "kept" => rcpt'[k] = "kept"
<1>1. \A t \in Servers : op'[t] = None
    BY DEF SystemCrash, Forget
<1>2. PICK D \in SUBSET {a \in Agents : dir[a] = "new"},
           B \in SUBSET {k \in Keys : blob[k] \in {"new", "twin"}},
           R \in SUBSET {k \in Keys : rcpt[k] \in {"new", "twin"}} :
          /\ \A a \in Agents : dir'[a] = IF a \in D \/ dir[a] = "absent" THEN "absent" ELSE "kept"
          /\ \A k \in Keys : /\ k[1] \in D \/ k \in B \/ blob[k] = "absent" => blob'[k] = "absent"
                             /\ ~(k[1] \in D \/ k \in B \/ blob[k] = "absent") =>
                                   blob'[k] = "kept" \/ (blob[k] = "twin" /\ blob'[k] = "twin")
                             /\ k[1] \in D \/ k \in R \/ rcpt[k] = "absent" => rcpt'[k] = "absent"
                             /\ ~(k[1] \in D \/ k \in R \/ rcpt[k] = "absent") =>
                                   rcpt'[k] = "kept" \/ (rcpt[k] = "twin" /\ rcpt'[k] = "twin")
    <2>1. PICK D \in SUBSET {a \in Agents : dir[a] = "new"},
               T \in SUBSET {a \in Agents : temp[a] \in {"new", "gone"}},
               B \in SUBSET {k \in Keys : blob[k] \in {"new", "twin"}},
               R \in SUBSET {k \in Keys : rcpt[k] \in {"new", "twin"}} :
             LET t(a) == IF a \in D \/ a \in T \/ temp[a] = "absent" THEN "absent" ELSE "kept"
                 f(x, k, L) == IF k[1] \in D \/ k \in L \/ x = "absent" THEN "absent"
                               ELSE IF x = "twin" /\ t(k[1]) = "kept" THEN "twin" ELSE "kept"
             IN /\ dir' = [a \in Agents |-> IF a \in D \/ dir[a] = "absent" THEN "absent" ELSE "kept"]
                /\ temp' = [a \in Agents |-> t(a)]
                /\ blob' = [k \in Keys |-> f(blob[k], k, B)]
                /\ rcpt' = [k \in Keys |-> f(rcpt[k], k, R)]
        BY DEF SystemCrash
    <2>2. \A a \in Agents : dir'[a] = IF a \in D \/ dir[a] = "absent" THEN "absent" ELSE "kept"
        BY <2>1
    <2>3. \A k \in Keys :
             /\ k[1] \in D \/ k \in B \/ blob[k] = "absent" => blob'[k] = "absent"
             /\ ~(k[1] \in D \/ k \in B \/ blob[k] = "absent") =>
                   blob'[k] = "kept" \/ (blob[k] = "twin" /\ blob'[k] = "twin")
        BY <2>1
    <2>4. \A k \in Keys :
             /\ k[1] \in D \/ k \in R \/ rcpt[k] = "absent" => rcpt'[k] = "absent"
             /\ ~(k[1] \in D \/ k \in R \/ rcpt[k] = "absent") =>
                   rcpt'[k] = "kept" \/ (rcpt[k] = "twin" /\ rcpt'[k] = "twin")
        BY <2>1
    <2> QED BY <2>2, <2>3, <2>4
<1>3. \A a \in Agents : dir[a] = "kept" => dir'[a] = "kept"
    BY <1>2
<1>4. /\ \A k \in Keys : k[1] \notin D /\ blob[k] = "kept" => blob'[k] = "kept"
      /\ \A k \in Keys : k[1] \notin D /\ rcpt[k] = "kept" => rcpt'[k] = "kept"
    BY <1>2
<1>5. InDirectory'
    BY <1>2, KeysFinite DEF Files, InDirectory
<1>6. ReceiptHasBody'
    BY <1>2, <1>4 DEF Files, ReceiptHasBody
<1> QED BY <1>1, <1>2, <1>3, <1>4, <1>5, <1>6, PublishingNone DEF Files

(* The administrator keeps what has both its files.                        *)
LEMMA RepairFiles ==
    ASSUME TypeOK, OneServer, Files, NEW a \in Agents, Repair(a)
    PROVE  /\ Files' /\ \A t \in Servers : op'[t] = None
           /\ \A k \in Keys : blob[k] = "kept" /\ rcpt[k] = "kept" => blob'[k] = "kept" /\ rcpt'[k] = "kept"
<1>1. \A t \in Servers : op'[t] = None
    BY DEF Repair, Files, Publishing, TypeOK
<1>2. dir' = dir /\
      \A k \in Keys : /\ k[1] # a => blob'[k] = blob[k] /\ rcpt'[k] = rcpt[k]
                      /\ k[1] = a /\ (blob[k] = "absent" \/ rcpt[k] = "absent") =>
                           blob'[k] = "absent" /\ rcpt'[k] = "absent"
                      /\ k[1] = a /\ ~(blob[k] = "absent" \/ rcpt[k] = "absent") =>
                           blob'[k] = "kept" /\ rcpt'[k] = "kept"
    BY DEF Repair
<1>3. InDirectory' /\ ReceiptHasBody'
    BY <1>2 DEF Files, InDirectory, ReceiptHasBody
<1>4. \A k \in Keys : blob[k] = "kept" /\ rcpt[k] = "kept" => blob'[k] = "kept" /\ rcpt'[k] = "kept"
    BY <1>2
<1> QED BY <1>1, <1>3, <1>4, PublishingNone DEF Files

(* Steps that change no file and leave no put.                             *)
LEMMA QuietFiles ==
    ASSUME TypeOK, OneServer, Files,
           \/ \E s \in Servers, c \in Configs : Start(s, c)
           \/ \E s \in Servers : Finish(s) \/ Kill(s)
    PROVE  UNCHANGED <<dir, blob, rcpt, kind>> /\ \A t \in Servers : op'[t] = None
<1>1. ASSUME NEW s \in Servers, NEW c \in Configs, Start(s, c)
      PROVE  UNCHANGED <<dir, blob, rcpt, kind>> /\ \A t \in Servers : op'[t] = None
    BY <1>1 DEF Start, Alone, disk, TypeOK, Files, Publishing
<1>2. ASSUME NEW s \in Servers, Finish(s)
      PROVE  UNCHANGED <<dir, blob, rcpt, kind>> /\ \A t \in Servers : op'[t] = None
    <2>1. s \in up /\ op'[s] = None /\ \A t \in Servers : t # s => op'[t] = op[t]
        BY <1>2 DEF Finish, At, TypeOK
    <2> QED BY <1>2, <2>1, NoPut DEF Finish, disk
<1>3. ASSUME NEW s \in Servers, Kill(s)
      PROVE  UNCHANGED <<dir, blob, rcpt, kind>> /\ \A t \in Servers : op'[t] = None
    <2>1. s \in up /\ op'[s] = None /\ \A t \in Servers : t # s => op'[t] = op[t]
        BY <1>3 DEF Kill, Forget
    <2> QED BY <1>3, <2>1, NoPut DEF Kill, disk
<1> QED BY <1>1, <1>2, <1>3

(* Every step keeps what is known of the files.                            *)
LEMMA FilesStep == TypeOK /\ OneServer /\ Files /\ [Next]_vars => Files'
<1> SUFFICES ASSUME TypeOK, OneServer, Files, [Next]_vars PROVE Files'
    OBVIOUS
<1>1. CASE UNCHANGED vars
    BY <1>1 DEF vars, disk, mem, Files, InDirectory, ReceiptHasBody, Publishing, AtStep, Key
<1>2. CASE \/ \E s \in Servers, c \in Configs : Start(s, c)
           \/ \E s \in Servers : Finish(s) \/ Kill(s)
    <2>1. UNCHANGED <<dir, blob, rcpt, kind>> /\ \A t \in Servers : op'[t] = None
        BY <1>2, QuietFiles
    <2> QED BY <2>1, SameFiles
<1>3. ASSUME NEW s \in Servers, NEW k \in Keys, NEW d \in Kinds, PutNew(s, k, d) PROVE Files'
    BY <1>3, PutNewFiles
<1>4. ASSUME NEW s \in Servers, NEW k \in Keys, NEW d \in Kinds, PutAgain(s, k, d) PROVE Files'
    BY <1>4, RequestFiles
<1>5. ASSUME NEW s \in Servers, NEW k \in Keys, PutBroken(s, k) PROVE Files'
    <2>1. "plain" \in Kinds
        BY DEF Kinds
    <2> QED BY <1>5, <2>1, RequestFiles
<1>6. ASSUME NEW s \in Servers, PutStep(s), ~Finish(s) PROVE Files'
    BY <1>6, DirFiles, WriteFiles, LinkFiles, UnlinkFiles, SyncDirFiles DEF PutStep
<1>7. ASSUME NEW s \in Servers, Fail(s) PROVE Files'
    BY <1>7, FailFiles
<1>8. CASE SystemCrash
    BY <1>8, CrashFiles
<1>9. ASSUME NEW k \in Keys, Damage(k) PROVE Files'
    BY <1>9 DEF Damage, mem, Files, InDirectory, ReceiptHasBody, Publishing, AtStep, Key
<1>10. ASSUME NEW a \in Agents, Repair(a) PROVE Files'
    BY <1>10, RepairFiles
<1>11. ASSUME NEW s \in Servers, PutStep(s) \/ Fail(s) \/ Kill(s) PROVE Files'
    BY <1>2, <1>6, <1>7, <1>11
<1> QED BY <1>1, <1>2, <1>3, <1>4, <1>5, <1>8, <1>9, <1>10, <1>11 DEF Next

-----------------------------------------------------------------------------
(* Answers *)

Answers == KeepsParents => AnsweredIsKept /\ AnswerInDirectory

(* Answers stay true when no kept file or directory of theirs changes.     *)
LEMMA AnswersStay ==
    ASSUME TypeOK, Answers, answered' = answered,
           \A k \in Keys : dir[k[1]] = "kept" /\ blob[k] = "kept" /\ rcpt[k] = "kept" =>
               dir'[k[1]] = "kept" /\ blob'[k] = "kept" /\ rcpt'[k] = "kept" /\ kind'[k] = kind[k]
    PROVE  Answers'
<1> SUFFICES ASSUME KeepsParents PROVE AnsweredIsKept' /\ AnswerInDirectory'
    BY DEF Answers
<1>1. \A r \in answered : r[1] \in Keys
    BY DEF TypeOK
<1>2. \A r \in answered : /\ blob[r[1]] = "kept" /\ rcpt[r[1]] = "kept" /\ kind[r[1]] = r[2]
                         /\ dir[r[1][1]] = "kept"
    BY DEF Answers, AnsweredIsKept, AnswerInDirectory
<1>3. ASSUME NEW r \in answered
      PROVE  /\ blob'[r[1]] = "kept" /\ rcpt'[r[1]] = "kept" /\ kind'[r[1]] = r[2]
             /\ dir'[r[1][1]] = "kept"
    <2>1. PICK k \in Keys : k = r[1]
        BY <1>1
    <2> QED BY <1>2, <2>1
<1> QED BY <1>3 DEF AnsweredIsKept, AnswerInDirectory

(* An answer for an object whose files and directory are synced.           *)
LEMMA AnswerGiven ==
    ASSUME TypeOK, Answers, NEW k \in Keys, NEW d \in Kinds, answered' = answered \cup {<<k, d>>},
           KeepsParents => dir'[k[1]] = "kept" /\ blob'[k] = "kept" /\ rcpt'[k] = "kept" /\ kind'[k] = d,
           \A j \in Keys : dir[j[1]] = "kept" /\ blob[j] = "kept" /\ rcpt[j] = "kept" =>
               dir'[j[1]] = "kept" /\ blob'[j] = "kept" /\ rcpt'[j] = "kept" /\ kind'[j] = kind[j]
    PROVE  Answers'
<1> SUFFICES ASSUME KeepsParents PROVE AnsweredIsKept' /\ AnswerInDirectory'
    BY DEF Answers
<1>1. \A r \in answered : r[1] \in Keys
    BY DEF TypeOK
<1>2. \A r \in answered : /\ blob[r[1]] = "kept" /\ rcpt[r[1]] = "kept" /\ kind[r[1]] = r[2]
                         /\ dir[r[1][1]] = "kept"
    BY DEF Answers, AnsweredIsKept, AnswerInDirectory
<1>3. ASSUME NEW r \in answered'
      PROVE  /\ blob'[r[1]] = "kept" /\ rcpt'[r[1]] = "kept" /\ kind'[r[1]] = r[2]
             /\ dir'[r[1][1]] = "kept"
    <2>1. CASE r = <<k, d>>
        BY <2>1
    <2>2. CASE r \in answered
        <3>1. PICK j \in Keys : j = r[1]
            BY <1>1, <2>2
        <3> QED BY <1>2, <2>2, <3>1
    <2> QED BY <2>1, <2>2
<1> QED BY <1>3 DEF AnsweredIsKept, AnswerInDirectory

(* Every step keeps what was answered.                                     *)
LEMMA AnswersStep == TypeOK /\ OneServer /\ Files /\ Answers /\ [Next]_vars => Answers'
<1> SUFFICES ASSUME TypeOK, OneServer, Files, Answers, [Next]_vars PROVE Answers'
    OBVIOUS
<1> DEFINE Safe == \A k \in Keys : dir[k[1]] = "kept" /\ blob[k] = "kept" /\ rcpt[k] = "kept" =>
               dir'[k[1]] = "kept" /\ blob'[k] = "kept" /\ rcpt'[k] = "kept" /\ kind'[k] = kind[k]
<1>1. Safe /\ answered' = answered => Answers'
    BY AnswersStay
<1>2. CASE UNCHANGED vars
    BY <1>1, <1>2 DEF vars, disk
<1>3. CASE \/ \E s \in Servers, c \in Configs : Start(s, c)
           \/ \E s \in Servers : Kill(s)
    <2>1. UNCHANGED <<dir, blob, rcpt, kind>>
        BY <1>3, QuietFiles
    <2> QED BY <1>1, <1>3, <2>1 DEF Start, Kill
<1>4. ASSUME NEW s \in Servers, Finish(s) PROVE Answers'
    <2>1. UNCHANGED <<dir, blob, rcpt, kind>>
        BY <1>4, QuietFiles
    <2>2. op[s] # None /\ op[s].step = "finish" /\ answered' = answered \cup {<<Key(s), op[s].kind>>}
        BY <1>4 DEF Finish, At
    <2>3. Key(s) \in Keys /\ Key(s)[1] = op[s].a /\ op[s].kind \in Kinds /\ AtStep(s) /\ op[s].file \in {"blob", "rcpt"}
        BY <2>2, PutKnown
    <2>4. /\ KeepsParents => dir[op[s].a] = "kept"
          /\ blob[Key(s)] = "kept" /\ rcpt[Key(s)] = "kept" /\ kind[Key(s)] = op[s].kind
        BY <2>2, <2>3 DEF AtStep
    <2> QED BY <2>1, <2>2, <2>3, <2>4, AnswerGiven
<1>5. ASSUME NEW s \in Servers, NEW k \in Keys, NEW d \in Kinds, PutNew(s, k, d) PROVE Answers'
    BY <1>1, <1>5 DEF PutNew, disk
<1>6. ASSUME NEW s \in Servers, NEW k \in Keys, PutBroken(s, k) PROVE Answers'
    BY <1>1, <1>6 DEF PutBroken, disk
<1>7. ASSUME NEW s \in Servers, NEW k \in Keys, NEW d \in Kinds, PutAgain(s, k, d) PROVE Answers'
    <2>1. CASE SyncFiles(k[1]) /\ answered' = answered \cup {<<k, d>>}
        <3>1. k[1] \in Agents /\ kind' = kind /\ kind[k] = d /\ Readable(blob[k]) /\ Readable(rcpt[k])
            BY <1>7, KeysFinite DEF PutAgain, Get
        <3>2. blob'[k] = "kept" /\ rcpt'[k] = "kept"
            BY <2>1, <3>1, SyncEffect DEF Readable, Kept
        <3>3. dir[k[1]] # "absent"
            BY <3>1 DEF Files, InDirectory, Readable
        <3>4. KeepsParents => dir'[k[1]] = "kept"
            BY <2>1, <3>1, <3>3, SyncEffect
        <3>5. Safe
            BY <2>1, <3>1, SyncEffect, KeysFinite
        <3> QED BY <2>1, <3>1, <3>2, <3>4, <3>5, AnswerGiven
    <2>2. CASE UNCHANGED <<dir, temp, blob, rcpt, answered>>
        BY <1>1, <1>7, <2>2 DEF PutAgain
    <2> QED BY <1>7, <2>1, <2>2 DEF PutAgain
<1>8. ASSUME NEW s \in Servers, PutStep(s), ~Finish(s) PROVE Answers'
    <2>1. s \in up /\ op[s] # None /\ answered' = answered
        BY <1>8 DEF PutStep, MakeDir, SyncRoot, WriteTemp, Link, Unlink, SyncDir, At
    <2>2. Key(s) \in Keys /\ AtStep(s) /\ op[s].a \in Agents /\ op[s].file \in {"blob", "rcpt"}
        BY <2>1, PutKnown
    <2>3. Safe
        <3>1. CASE MakeDir(s) \/ SyncRoot(s)
            <4>1. \A a \in Agents : dir[a] = "kept" => dir'[a] = "kept"
                BY <2>2, <3>1 DEF MakeDir, SyncRoot, Kept, TypeOK
            <4> QED BY <3>1, <4>1, KeysFinite DEF MakeDir, SyncRoot
        <3>2. CASE WriteTemp(s)
            BY <3>2 DEF WriteTemp
        <3>3. CASE Link(s)
            BY <2>2, <3>3 DEF Link, TypeOK
        <3>4. CASE Unlink(s)
            BY <2>2, <3>4 DEF Unlink, TypeOK, Single
        <3>5. CASE SyncDir(s)
            BY <2>2, <3>5, SyncEffect, KeysFinite DEF SyncDir
        <3> QED BY <1>8, <3>1, <3>2, <3>3, <3>4, <3>5 DEF PutStep
    <2> QED BY <1>1, <2>1, <2>3
<1>9. ASSUME NEW s \in Servers, Fail(s) PROVE Answers'
    <2>1. Safe
        BY <1>9, FailFiles DEF Fail
    <2> QED BY <1>1, <1>9, <2>1 DEF Fail
<1>10. CASE SystemCrash
    <2>1. Safe
        BY <1>10, CrashFiles, KeysFinite DEF SystemCrash
    <2> QED BY <1>1, <1>10, <2>1 DEF SystemCrash
<1>11. ASSUME NEW k \in Keys, Damage(k) PROVE Answers'
    BY <1>1, <1>11 DEF Damage
<1>12. ASSUME NEW a \in Agents, Repair(a) PROVE Answers'
    <2>1. Safe
        BY <1>12, RepairFiles DEF Repair
    <2> QED BY <1>1, <1>12, <2>1 DEF Repair
<1>13. ASSUME NEW s \in Servers, PutStep(s) \/ Fail(s) \/ Kill(s) PROVE Answers'
    BY <1>3, <1>4, <1>8, <1>9, <1>13
<1> QED BY <1>2, <1>3, <1>5, <1>6, <1>7, <1>10, <1>11, <1>12, <1>13 DEF Next

-----------------------------------------------------------------------------
(* What a server counts *)

Counts == Clean /\ Counted /\ Admitted

(* A server that does not vouch for its storage promises nothing.          *)
LEMMA NoCounts ==
    ASSUME ok' = {}, \A t \in Servers : op'[t] = None
    PROVE  Counts'
BY DEF Counts, Clean, Counted, Admitted

(* The objects of a server are objects.                                    *)
LEMMA Subsets ==
    ASSUME TypeOK, NEW s \in Servers
    PROVE  /\ Stored \subseteq Keys /\ Pending(s) \subseteq Keys /\ Taken(s) \subseteq Keys
           /\ Revoking(s) \subseteq Taken(s) /\ Revoking(s) \subseteq Keys
<1>1. op[s] # None => Key(s) \in Keys
    BY DEF TypeOK, Key, Keys, Op
<1>2. Stored \subseteq Keys /\ Pending(s) \subseteq Keys
    BY <1>1 DEF Stored, Pending
<1>3. Revoking(s) \subseteq Taken(s)
    BY DEF Revoking
<1> QED BY <1>2, <1>3 DEF Taken

(* Steps that touch no other object than the one being written.            *)
LEMMA QuietCounts ==
    ASSUME TypeOK, Publishing, Counts, ok' = ok, UNCHANGED <<cfg, use, rev>>,
           \A s \in Servers : op'[s] = None <=> op[s] = None,
           \A s \in Servers : op[s] # None =>
               op'[s].a = op[s].a /\ op'[s].kind = op[s].kind /\ Key(s)' = Key(s),
           \A s \in ok, k \in Keys : k \notin Pending(s) =>
               /\ blob'[k] # "absent" <=> blob[k] # "absent"
               /\ kind'[k] = kind[k]
               /\ Readable(blob[k]) => Readable(blob'[k])
               /\ Readable(rcpt[k]) => Readable(rcpt'[k])
    PROVE  Counts'
<1>1. ASSUME NEW s \in ok
      PROVE  /\ Pending(s)' = Pending(s) /\ Taken(s)' = Taken(s)
             /\ (Stored \ Pending(s))' = Stored \ Pending(s)
             /\ Revoking(s)' = Revoking(s)
    <2>1. s \in Servers
        BY DEF TypeOK
    <2>2. Pending(s)' = Pending(s)
        BY <2>1 DEF Pending
    <2>3. \A k \in Keys : k \notin Pending(s) => (k \in Stored' <=> k \in Stored)
        BY DEF Stored
    <2>4. Stored \subseteq Keys /\ Stored' \subseteq Keys
        BY DEF Stored
    <2>5. Taken(s)' = Taken(s) /\ Stored' \ Pending(s)' = Stored \ Pending(s)
        BY <2>2, <2>3, <2>4 DEF Taken
    <2>6. \A k \in Taken(s) : KindOf(s, k)' = KindOf(s, k)
        <3>1. ASSUME NEW k \in Taken(s), k \in Pending(s) PROVE KindOf(s, k)' = KindOf(s, k)
            BY <2>1, <2>2, <3>1 DEF KindOf, Pending
        <3>2. ASSUME NEW k \in Taken(s), k \notin Pending(s) PROVE KindOf(s, k)' = KindOf(s, k)
            BY <2>1, <2>2, <2>4, <3>2 DEF KindOf, Taken
        <3> QED BY <3>1, <3>2
    <2>7. Revoking(s)' = Revoking(s)
        BY <2>5, <2>6 DEF Revoking
    <2> QED BY <2>2, <2>5, <2>7
<1>2. Clean'
    <2>1. ASSUME NEW s \in ok, NEW k \in Stored \ Pending(s)
          PROVE  Readable(blob'[k]) /\ Readable(rcpt'[k])
        <3>1. k \in Keys /\ k \notin Pending(s)
            BY DEF Stored
        <3>2. Readable(blob[k]) /\ Readable(rcpt[k])
            BY DEF Counts, Clean
        <3> QED BY <3>1, <3>2
    <2>2. \A s \in ok : Stored' \ Pending(s)' = Stored \ Pending(s)
        BY <1>1
    <2> QED BY <2>1, <2>2 DEF Clean
<1>3. Counted'
    <2>1. ASSUME NEW s \in ok, NEW a \in Agents
          PROVE  /\ use'[s][a] = CountOf(Of(a, Taken(s)'), (Stored \ Pending(s))')
                 /\ rev'[s][a] = CountOf(Of(a, Revoking(s)'), (Stored \ Pending(s))')
        BY <1>1 DEF Counts, Counted
    <2> QED BY <2>1 DEF Counted, CountOf, Of, Bytes, SumOf
<1>4. Admitted'
    <2>1. ASSUME NEW s \in Servers, op'[s] # None
          PROVE  LET budget == IF AsRevocation(s) THEN cfg[s].revoke ELSE cfg[s].normal
                 IN /\ Within(Mine(s), budget.all)
                    /\ Within(Of(op[s].a, Mine(s)), budget.agent[op[s].a])
        BY <2>1 DEF Counts, Admitted
    <2>2. ASSUME NEW s \in Servers, op'[s] # None
          PROVE  AsRevocation(s)' = AsRevocation(s) /\ Mine(s)' = Mine(s) /\ op'[s].a = op[s].a
        <3>1. op[s] # None /\ s \in ok
            BY <2>2 DEF Publishing
        <3>2. AsRevocation(s)' = AsRevocation(s)
            BY <3>1 DEF AsRevocation, Enabled
        <3> QED BY <1>1, <3>1, <3>2 DEF Mine
    <2>3. SUFFICES ASSUME NEW s \in Servers, op'[s] # None
                   PROVE  LET budget == IF AsRevocation(s)' THEN cfg'[s].revoke ELSE cfg'[s].normal
                          IN /\ Within(Mine(s)', budget.all)
                             /\ Within(Of(op'[s].a, Mine(s)'), budget.agent[op'[s].a])
        BY DEF Admitted, Within, Of, Bytes, SumOf
    <2> QED BY <2>1, <2>2, <2>3
<1> QED BY <1>2, <1>3, <1>4 DEF Counts

(* Admission: what fits before an object is added is within the limits     *)
(* after.                                                                  *)
LEMMA Room ==
    ASSUME NEW M, M \subseteq Keys, NEW k \in Keys, k \notin M, NEW used, NEW budget,
           \A a \in Agents : used[a].objs = Cardinality(Of(a, M)) /\ used[a].bytes = Bytes(Of(a, M)),
           Fits(Total(used), budget.all, Size[k[2]]),
           Fits(used[k[1]], budget.agent[k[1]], Size[k[2]])
    PROVE  /\ Within(M \cup {k}, budget.all)
           /\ Within(Of(k[1], M \cup {k}), budget.agent[k[1]])
<1>1. ASSUME NEW S, S \subseteq Keys, k \notin S, NEW c, c.objs = Cardinality(S), c.bytes = Bytes(S),
             NEW lim, Fits(c, lim, Size[k[2]])
      PROVE  Within(S \cup {k}, lim)
    <2>1. Cardinality(S \cup {k}) = Cardinality(S) + 1
        BY <1>1, KeysFinite, FS_AddElement
    <2>2. Bytes(S \cup {k}) = Bytes(S) + Size[k[2]]
        <3>1. {k} \subseteq Keys /\ S \cap {k} = {}
            BY <1>1
        <3>2. Bytes(S \cup {k}) = Bytes(S) + Bytes({k})
            BY <1>1, <3>1, BytesAdd
        <3> QED BY <3>2, BytesOne
    <2> QED BY <1>1, <2>1, <2>2 DEF Fits, Within
<1>2. Total(used).objs = Cardinality(M) /\ Total(used).bytes = Bytes(M)
    BY TotalIsAll
<1>3. Within(M \cup {k}, budget.all)
    BY <1>1, <1>2
<1>4. k[1] \in Agents /\ Of(k[1], M) \subseteq Keys /\ k \notin Of(k[1], M)
    BY KeysFinite DEF Of
<1>5. Of(k[1], M \cup {k}) = Of(k[1], M) \cup {k}
    BY DEF Of
<1>6. Within(Of(k[1], M) \cup {k}, budget.agent[k[1]])
    BY <1>1, <1>4
<1> QED BY <1>3, <1>5, <1>6

(* A new put is counted, within the limits, before anything is written.    *)
LEMMA PutNewCounts ==
    ASSUME TypeOK, OneServer, Files, Counts,
           NEW s \in Servers, NEW k \in Keys, NEW d \in Kinds, PutNew(s, k, d)
    PROVE  Counts'
<1>1. /\ op'[s] # None /\ op'[s].a = k[1] /\ op'[s].kind = d /\ Key(s)' = k
      /\ s \in ok /\ op[s] = None /\ Files'
    BY PutNewFiles
<1>2. UNCHANGED <<blob, rcpt, kind, ok, cfg>> /\ blob[k] = "absent" /\ s \in up
    BY DEF PutNew, disk, Free
<1>3. ok = {s} /\ \A t \in Servers : t # s => op'[t] = None
    <2>1. ok = {s}
        BY <1>1, <1>2, OnlyOne DEF Files
    <2> QED BY <1>2, <2>1, <1>1 DEF Files, Publishing
<1>4. /\ Pending(s) = {} /\ Taken(s) = Stored
      /\ Pending(s)' = {k} /\ Stored' = Stored /\ Taken(s)' = Stored \cup {k}
      /\ k \notin Stored /\ Stored \subseteq Keys /\ (Stored \ Pending(s))' = Stored
      /\ Stored \ Pending(s) = Stored
    BY <1>1, <1>2 DEF Pending, Taken, Stored
<1>5. PICK revoke \in BOOLEAN : revoke <=> (d = "revoke" /\ Enabled(cfg[s]))
    OBVIOUS
<1>6. Revoking(s)' = IF revoke THEN Revoking(s) \cup {k} ELSE Revoking(s)
    <2>1. \A j \in Stored : KindOf(s, j)' = kind[j] /\ KindOf(s, j) = kind[j]
        BY <1>2, <1>4 DEF KindOf
    <2>2. KindOf(s, k)' = d
        BY <1>1, <1>4 DEF KindOf
    <2>3. Enabled(cfg'[s]) <=> Enabled(cfg[s])
        BY <1>2
    <2>4. Revoking(s)' = IF Enabled(cfg[s]) THEN {j \in Stored \cup {k} : KindOf(s, j)' = "revoke"} ELSE {}
        BY <1>4, <2>3 DEF Revoking, Enabled
    <2>5. Revoking(s) = IF Enabled(cfg[s]) THEN {j \in Stored : KindOf(s, j) = "revoke"} ELSE {}
        BY <1>4 DEF Revoking
    <2> QED BY <1>5, <2>1, <2>2, <2>4, <2>5
<1>7. Revoking(s) \subseteq Stored /\ k \notin Revoking(s)
    BY <1>4 DEF Revoking
<1>8. \A a \in Agents : /\ use[s][a] = CountOf(Of(a, Stored), Stored)
                       /\ rev[s][a] = CountOf(Of(a, Revoking(s)), Stored)
    BY <1>1, <1>4 DEF Counts, Counted
<1>9. k[1] \in Agents /\ Size[k[2]] \in Nat
    BY KeysFinite
<1>10. Clean'
    BY <1>2, <1>3, <1>4 DEF Counts, Clean
<1>11. ASSUME NEW S, S \subseteq Stored, NEW a \in Agents
       PROVE  /\ a = k[1] => CountOf(Of(a, S \cup {k}), Stored) = Plus(CountOf(Of(a, S), Stored), Size[k[2]])
              /\ a # k[1] => CountOf(Of(a, S \cup {k}), Stored) = CountOf(Of(a, S), Stored)
    <2>1. CASE a = k[1]
        <3>1. Of(a, S \cup {k}) = Of(a, S) \cup {k} /\ Of(a, S) \subseteq Keys /\ k \notin Of(a, S)
            BY <1>4, <1>11, <2>1 DEF Of
        <3>2. CountOf(Of(a, S) \cup {k}, Stored) = Plus(CountOf(Of(a, S), Stored), Size[k[2]])
            BY <1>4, <3>1, CountAdd
        <3> QED BY <2>1, <3>1, <3>2
    <2>2. CASE a # k[1]
        <3>1. Of(a, S \cup {k}) = Of(a, S)
            BY <2>2 DEF Of
        <3> QED BY <2>2, <3>1
    <2> QED BY <2>1, <2>2
<1>12. /\ use'[s][k[1]] = Plus(use[s][k[1]], Size[k[2]])
       /\ \A b \in Agents : b # k[1] => use'[s][b] = use[s][b]
       /\ revoke => /\ rev'[s][k[1]] = Plus(rev[s][k[1]], Size[k[2]])
                    /\ \A b \in Agents : b # k[1] => rev'[s][b] = rev[s][b]
       /\ ~revoke => rev' = rev
    <2>1. use \in [Servers -> [Agents -> Count]] /\ rev \in [Servers -> [Agents -> Count]]
        BY DEF TypeOK
    <2>2. PICK u, r : u = Plus(use[s][k[1]], Size[k[2]]) /\ r = Plus(rev[s][k[1]], Size[k[2]])
        OBVIOUS
    <2>3. u \in Count /\ r \in Count
        BY <1>9, <2>1, <2>2, CountTyped
    <2>4. use' = [use EXCEPT ![s][k[1]] = u]
        BY <2>2 DEF PutNew
    <2>5. (revoke => rev' = [rev EXCEPT ![s][k[1]] = r]) /\ (~revoke => rev' = rev)
        BY <1>5, <2>2 DEF PutNew
    <2>6. use'[s][k[1]] = u /\ \A b \in Agents : b # k[1] => use'[s][b] = use[s][b]
        BY <1>9, <2>1, <2>3, <2>4, OneCountChanged
    <2>7. revoke => rev'[s][k[1]] = r /\ \A b \in Agents : b # k[1] => rev'[s][b] = rev[s][b]
        BY <1>9, <2>1, <2>3, <2>5, OneCountChanged
    <2> QED BY <2>2, <2>5, <2>6, <2>7
<1>13. Counted'
    <2>1. ASSUME NEW a \in Agents
          PROVE  /\ use'[s][a] = CountOf(Of(a, Stored \cup {k}), Stored)
                 /\ rev'[s][a] = CountOf(Of(a, Revoking(s)'), Stored)
        <3>1. use'[s][a] = CountOf(Of(a, Stored \cup {k}), Stored)
            <4>1. CASE a = k[1]
                BY <1>8, <1>11, <1>12, <4>1
            <4>2. CASE a # k[1]
                BY <1>8, <1>11, <1>12, <4>2
            <4> QED BY <4>1, <4>2
        <3>2. CASE revoke
            <4>1. Revoking(s)' = Revoking(s) \cup {k}
                BY <1>6, <3>2
            <4>2. CASE a = k[1]
                BY <1>7, <1>8, <1>11, <1>12, <3>1, <3>2, <4>1, <4>2
            <4>3. CASE a # k[1]
                BY <1>7, <1>8, <1>11, <1>12, <3>1, <3>2, <4>1, <4>3
            <4> QED BY <4>2, <4>3
        <3>3. CASE ~revoke
            <4>1. Revoking(s)' = Revoking(s)
                BY <1>6, <3>3
            <4> QED BY <1>8, <1>12, <3>1, <3>3, <4>1
        <3> QED BY <3>2, <3>3
    <2>2. \A a \in Agents :
             /\ use'[s][a] = CountOf(Of(a, Taken(s)'), (Stored \ Pending(s))')
             /\ rev'[s][a] = CountOf(Of(a, Revoking(s)'), (Stored \ Pending(s))')
        BY <1>4, <2>1
    <2>3. ASSUME NEW t \in ok', NEW a \in Agents
          PROVE  /\ use'[t][a] = CountOf(Of(a, Taken(t)'), (Stored \ Pending(t))')
                 /\ rev'[t][a] = CountOf(Of(a, Revoking(t)'), (Stored \ Pending(t))')
        <3>1. t = s
            BY <1>2, <1>3
        <3> QED BY <2>2, <3>1
    <2> QED BY <2>3 DEF Counted, CountOf, Of, Bytes, SumOf
<1>14. Admitted'
    <2>1. PICK used, budget :
             /\ used = IF revoke THEN rev[s] ELSE [b \in Agents |-> Minus(use[s][b], rev[s][b])]
             /\ budget = IF revoke THEN cfg[s].revoke ELSE cfg[s].normal
        OBVIOUS
    <2>2. Fits(Total(used), budget.all, Size[k[2]]) /\ Fits(used[k[1]], budget.agent[k[1]], Size[k[2]])
        BY <1>5, <2>1 DEF PutNew, Admit
    <2>3. PICK M : M = IF revoke THEN Revoking(s) ELSE Stored \ Revoking(s)
        OBVIOUS
    <2>4. M \subseteq Keys /\ k \notin M
        BY <1>4, <1>7, <2>3
    <2>5. ASSUME NEW a \in Agents
          PROVE  used[a].objs = Cardinality(Of(a, M)) /\ used[a].bytes = Bytes(Of(a, M))
        <3>1. CASE revoke
            <4>1. used[a] = CountOf(Of(a, M), Stored)
                BY <1>8, <2>1, <2>3, <3>1
            <4> QED BY <4>1 DEF CountOf
        <3>2. CASE ~revoke
            <4>1. used[a] = Minus(CountOf(Of(a, Stored), Stored), CountOf(Of(a, Revoking(s)), Stored))
                BY <1>8, <2>1, <3>2
            <4>2. /\ Of(a, Stored) \subseteq Keys /\ Of(a, Revoking(s)) \subseteq Of(a, Stored)
                  /\ Of(a, M) = Of(a, Stored) \ Of(a, Revoking(s))
                BY <1>4, <1>7, <2>3, <3>2 DEF Of
            <4>3. /\ Minus(CountOf(Of(a, Stored), Stored), CountOf(Of(a, Revoking(s)), Stored)).objs
                       = Cardinality(Of(a, Stored) \ Of(a, Revoking(s)))
                  /\ Minus(CountOf(Of(a, Stored), Stored), CountOf(Of(a, Revoking(s)), Stored)).bytes
                       = Bytes(Of(a, Stored) \ Of(a, Revoking(s)))
                BY <4>2, CountMinus
            <4> QED BY <4>1, <4>2, <4>3
        <3> QED BY <3>1, <3>2
    <2>6. Within(M \cup {k}, budget.all) /\ Within(Of(k[1], M \cup {k}), budget.agent[k[1]])
        BY <2>2, <2>4, <2>5, Room
    <2>7. AsRevocation(s)' <=> revoke
        BY <1>1, <1>2, <1>5 DEF AsRevocation, Enabled
    <2>8. Mine(s)' = M \cup {k}
        <3>1. CASE revoke
            BY <1>6, <2>3, <2>7, <3>1 DEF Mine
        <3>2. CASE ~revoke
            BY <1>4, <1>6, <1>7, <2>3, <2>7, <3>2 DEF Mine
        <3> QED BY <3>1, <3>2
    <2>9. budget = IF AsRevocation(s)' THEN cfg'[s].revoke ELSE cfg'[s].normal
        BY <1>2, <2>1, <2>7
    <2>10. Within(Mine(s)', budget.all) /\ Within(Of(op'[s].a, Mine(s)'), budget.agent[op'[s].a])
        BY <1>1, <2>6, <2>8
    <2> QED BY <1>3, <2>9, <2>10 DEF Admitted, Within, Of, Bytes, SumOf
<1> QED BY <1>10, <1>13, <1>14 DEF Counts

(* At its end the object is counted as one with a receipt.                 *)
LEMMA FinishCounts ==
    ASSUME TypeOK, OneServer, Files, Counts, NEW s \in Servers, Finish(s)
    PROVE  Counts'
<1>1. s \in up /\ op[s] # None /\ op[s].step = "finish"
    BY DEF Finish, At
<1>2. /\ Key(s) \in Keys /\ Key(s)[1] = op[s].a /\ op[s].a \in Agents
      /\ s \in ok /\ AtStep(s) /\ op[s].file \in {"blob", "rcpt"}
    BY <1>1, PutKnown
<1>3. PICK k \in Keys : k = Key(s) /\ k[1] = op[s].a
    BY <1>2
<1>4. blob[k] = "kept" /\ rcpt[k] = "kept" /\ kind[k] = op[s].kind
    BY <1>1, <1>2, <1>3 DEF AtStep
<1>5. UNCHANGED <<blob, rcpt, kind, ok, cfg>> /\ \A t \in Servers : op'[t] = None
    BY QuietFiles DEF Finish, disk
<1>6. ok = {s}
    BY <1>1, <1>2, OnlyOne DEF Files
<1>7. PICK V : V = Stored \ {k}
    OBVIOUS
<1>8. /\ Pending(s) = {k} /\ Taken(s) = Stored /\ k \in Stored /\ Stored \ Pending(s) = V
      /\ k \notin V /\ Stored = V \cup {k} /\ Stored \subseteq Keys
      /\ Pending(s)' = {} /\ Stored' = Stored /\ Taken(s)' = Stored /\ (Stored \ Pending(s))' = V \cup {k}
    BY <1>1, <1>3, <1>4, <1>5, <1>7 DEF Pending, Taken, Stored
<1>9. Revoking(s)' = Revoking(s) /\ Revoking(s) \subseteq Stored
    <2>1. \A j \in Stored : KindOf(s, j)' = kind[j] /\ KindOf(s, j) = kind[j]
        BY <1>4, <1>5, <1>8 DEF KindOf
    <2> QED BY <1>5, <1>8, <2>1 DEF Revoking, Enabled
<1>10. PICK revoke \in BOOLEAN : revoke <=> (op[s].kind = "revoke" /\ Enabled(cfg[s]))
    OBVIOUS
<1>11. revoke <=> k \in Revoking(s)
    BY <1>8, <1>10 DEF Revoking, KindOf
<1>12. \A a \in Agents : /\ use[s][a] = CountOf(Of(a, Stored), V)
                        /\ rev[s][a] = CountOf(Of(a, Revoking(s)), V)
    BY <1>2, <1>8 DEF Counts, Counted
<1>13. Clean'
    <2>1. \A j \in Stored : Readable(blob[j]) /\ Readable(rcpt[j])
        <3>1. \A j \in V : Readable(blob[j]) /\ Readable(rcpt[j])
            BY <1>2, <1>8 DEF Counts, Clean
        <3> QED BY <1>4, <1>8, <3>1 DEF Readable
    <2> QED BY <1>5, <1>8, <2>1 DEF Clean
<1>14. ASSUME NEW S, S \subseteq Stored, NEW a \in Agents
       PROVE  /\ a = k[1] /\ k \in S => CountOf(Of(a, S), V \cup {k}) = Done(CountOf(Of(a, S), V))
              /\ a # k[1] \/ k \notin S => CountOf(Of(a, S), V \cup {k}) = CountOf(Of(a, S), V)
    <2>1. Of(a, S) \subseteq Keys /\ (k \in Of(a, S) <=> a = k[1] /\ k \in S)
        BY <1>8, <1>14 DEF Of
    <2>2. k \in Of(a, S) => CountOf(Of(a, S), V \cup {k}) = Done(CountOf(Of(a, S), V))
        BY <1>8, <2>1, CountDone
    <2>3. k \notin Of(a, S) => CountOf(Of(a, S), V \cup {k}) = CountOf(Of(a, S), V)
        BY CountElsewhere
    <2> QED BY <2>1, <2>2, <2>3
<1>15. /\ use'[s][k[1]] = Done(use[s][k[1]])
       /\ \A b \in Agents : b # k[1] => use'[s][b] = use[s][b]
       /\ revoke => /\ rev'[s][k[1]] = Done(rev[s][k[1]])
                    /\ \A b \in Agents : b # k[1] => rev'[s][b] = rev[s][b]
       /\ ~revoke => rev' = rev
    <2>1. use \in [Servers -> [Agents -> Count]] /\ rev \in [Servers -> [Agents -> Count]]
        BY DEF TypeOK
    <2>2. PICK u, r : u = Done(use[s][k[1]]) /\ r = Done(rev[s][k[1]])
        OBVIOUS
    <2>3. u \in Count /\ r \in Count /\ k[1] \in Agents
        BY <1>2, <1>3, <2>1, <2>2, CountTyped
    <2>4. use' = [use EXCEPT ![s][k[1]] = u]
        BY <1>3, <2>2 DEF Finish
    <2>5. (revoke => rev' = [rev EXCEPT ![s][k[1]] = r]) /\ (~revoke => rev' = rev)
        BY <1>3, <1>10, <2>2 DEF Finish
    <2>6. use'[s][k[1]] = u /\ \A b \in Agents : b # k[1] => use'[s][b] = use[s][b]
        BY <2>1, <2>3, <2>4, OneCountChanged
    <2>7. revoke => rev'[s][k[1]] = r /\ \A b \in Agents : b # k[1] => rev'[s][b] = rev[s][b]
        BY <2>1, <2>3, <2>5, OneCountChanged
    <2> QED BY <2>2, <2>5, <2>6, <2>7
<1>16. Counted'
    <2>1. ASSUME NEW a \in Agents
          PROVE  /\ use'[s][a] = CountOf(Of(a, Stored), V \cup {k})
                 /\ rev'[s][a] = CountOf(Of(a, Revoking(s)), V \cup {k})
        <3>1. use'[s][a] = CountOf(Of(a, Stored), V \cup {k})
            <4>1. CASE a = k[1]
                <5>1. k \in Stored /\ Stored \subseteq Stored
                    BY <1>8
                <5>2. CountOf(Of(a, Stored), V \cup {k}) = Done(CountOf(Of(a, Stored), V))
                    BY <1>14, <4>1, <5>1
                <5>3. use[s][a] = CountOf(Of(a, Stored), V)
                    BY <1>12
                <5> QED BY <1>15, <4>1, <5>2, <5>3
            <4>2. CASE a # k[1]
                BY <1>8, <1>12, <1>14, <1>15, <4>2
            <4> QED BY <4>1, <4>2
        <3>2. CASE revoke
            <4>1. CASE a = k[1]
                BY <1>9, <1>11, <1>12, <1>14, <1>15, <3>1, <3>2, <4>1
            <4>2. CASE a # k[1]
                BY <1>9, <1>12, <1>14, <1>15, <3>1, <3>2, <4>2
            <4> QED BY <4>1, <4>2
        <3>3. CASE ~revoke
            BY <1>9, <1>11, <1>12, <1>14, <1>15, <3>1, <3>3
        <3> QED BY <3>2, <3>3
    <2>2. ASSUME NEW t \in ok', NEW a \in Agents
          PROVE  /\ use'[t][a] = CountOf(Of(a, Taken(t)'), (Stored \ Pending(t))')
                 /\ rev'[t][a] = CountOf(Of(a, Revoking(t)'), (Stored \ Pending(t))')
        <3>1. t = s
            BY <1>5, <1>6
        <3> QED BY <1>8, <1>9, <2>1, <3>1
    <2> QED BY <2>2 DEF Counted, CountOf, Of, Bytes, SumOf
<1>17. Admitted'
    BY <1>5 DEF Admitted
<1> QED BY <1>13, <1>16, <1>17 DEF Counts

(* A server that starts vouches only for a storage it found whole.         *)
LEMMA StartCounts ==
    ASSUME TypeOK, OneServer, Files, Counts, NEW s \in Servers, NEW c \in Configs, Start(s, c)
    PROVE  Counts'
<1>1. UNCHANGED <<blob, rcpt, kind>> /\ up = {} /\ ok = {} /\ \A t \in Servers : op'[t] = None
    <2>1. UNCHANGED <<blob, rcpt, kind>> /\ \A t \in Servers : op'[t] = None
        BY QuietFiles
    <2> QED BY <2>1 DEF Start, Alone, TypeOK
<1>2. CASE ~(Sound /\ Entries <= MaxScan)
    <2>1. ok' = {}
        BY <1>1, <1>2 DEF Start
    <2> QED BY <1>1, <2>1, NoCounts
<1>3. CASE Sound /\ Entries <= MaxScan
    <2>1. ok' = {s} /\ cfg'[s] = c
        BY <1>1, <1>3 DEF Start, TypeOK
    <2>2. Verified = Stored /\ Seen = Stored /\ \A k \in Stored : Readable(blob[k]) /\ Readable(rcpt[k])
        <3>1. Verified \subseteq Seen /\ Seen \subseteq Stored
            BY DEF Verified, Seen, Stored, Readable
        <3>2. Stored \subseteq Verified
            BY <1>3 DEF Sound, Stored
        <3> QED BY <3>1, <3>2 DEF Verified, Seen
    <2>3. /\ use'[s] = [a \in Agents |-> CountOf(Of(a, Seen), Verified)]
          /\ rev'[s] = [a \in Agents |-> CountOf(Of(a, Seen \cap Revocations(c)), Verified)]
        BY <1>3 DEF Start, TypeOK
    <2>4. Pending(s)' = {} /\ Stored' = Stored /\ Taken(s)' = Stored /\ (Stored \ Pending(s))' = Stored
        BY <1>1 DEF Pending, Stored, Taken
    <2>5. Revoking(s)' = Seen \cap Revocations(c)
        <3>1. \A j \in Stored : KindOf(s, j)' = kind[j]
            BY <1>1, <2>4 DEF KindOf
        <3>2. Revoking(s)' = IF Enabled(c) THEN {k \in Stored : KindOf(s, k)' = "revoke"} ELSE {}
            BY <2>1, <2>4 DEF Revoking, Enabled
        <3> QED BY <2>2, <3>1, <3>2 DEF Revocations
    <2>6. Clean'
        BY <1>1, <2>1, <2>2, <2>4 DEF Clean
    <2>7. Counted'
        <3>1. ASSUME NEW t \in ok', NEW a \in Agents
              PROVE  /\ use'[t][a] = CountOf(Of(a, Taken(t)'), (Stored \ Pending(t))')
                     /\ rev'[t][a] = CountOf(Of(a, Revoking(t)'), (Stored \ Pending(t))')
            <4>1. t = s
                BY <2>1
            <4>2. /\ use'[s][a] = CountOf(Of(a, Seen), Verified)
                  /\ rev'[s][a] = CountOf(Of(a, Seen \cap Revocations(c)), Verified)
                BY <2>3
            <4> QED BY <2>2, <2>4, <2>5, <4>1, <4>2
        <3> QED BY <3>1 DEF Counted, CountOf, Of, Bytes, SumOf
    <2>8. Admitted'
        BY <1>1 DEF Admitted
    <2> QED BY <2>6, <2>7, <2>8 DEF Counts
<1> QED BY <1>2, <1>3

(* The steps of a put before its end touch no other object.                *)
LEMMA PutStepCounts ==
    ASSUME TypeOK, OneServer, Files, Counts, NEW s \in Servers, PutStep(s), ~Finish(s)
    PROVE  Counts'
<1>1. /\ s \in up /\ op[s] # None /\ UNCHANGED <<ok, cfg, use, rev>>
      /\ \E file \in {"blob", "rcpt"}, step \in Steps : Goto(s, file, step)
    <2>1. s \in up /\ op[s] # None /\ UNCHANGED <<ok, cfg, use, rev>>
        BY DEF PutStep, MakeDir, SyncRoot, WriteTemp, Link, Unlink, SyncDir, At, mem
    <2>2. op[s].file \in {"blob", "rcpt"}
        BY <2>1, PutKnown
    <2> QED BY <2>1, <2>2 DEF PutStep, MakeDir, SyncRoot, WriteTemp, Link, Unlink, SyncDir, Steps
<1>2. PICK file \in {"blob", "rcpt"}, step \in Steps : Goto(s, file, step)
    BY <1>1
<1>3. /\ op'[s] # None /\ op'[s].a = op[s].a /\ op'[s].kind = op[s].kind /\ Key(s)' = Key(s)
      /\ \A t \in Servers : t # s => op'[t] = op[t] /\ op[t] = None
    <2>1. /\ op'[s] # None /\ op'[s].a = op[s].a /\ op'[s].kind = op[s].kind /\ Key(s)' = Key(s)
          /\ \A t \in Servers : t # s => op'[t] = op[t]
        BY <1>1, <1>2, GotoTyped
    <2> QED BY <1>1, <2>1, OnlyOne DEF Files
<1>4. Key(s) \in Keys /\ op[s].a \in Agents
    BY <1>1, PutKnown
<1>5. ASSUME NEW k \in Keys, k # Key(s)
      PROVE  /\ blob'[k] # "absent" <=> blob[k] # "absent"
             /\ kind'[k] = kind[k]
             /\ Readable(blob[k]) => Readable(blob'[k])
             /\ Readable(rcpt[k]) => Readable(rcpt'[k])
    <2>1. CASE MakeDir(s) \/ SyncRoot(s) \/ WriteTemp(s)
        BY <2>1 DEF MakeDir, SyncRoot, WriteTemp
    <2>2. CASE Link(s)
        BY <1>4, <1>5, <2>2 DEF Link, TypeOK
    <2>3. CASE Unlink(s)
        BY <1>4, <1>5, <2>3 DEF Unlink, TypeOK
    <2>4. CASE SyncDir(s)
        BY <1>4, <2>4, SyncEffect DEF SyncDir
    <2> QED BY <2>1, <2>2, <2>3, <2>4 DEF PutStep
<1>6. \A t \in ok : t = s
    BY <1>1, OnlyOne DEF Files
<1>7. Pending(s) = {Key(s)}
    BY <1>1 DEF Pending
<1>8. \A t \in ok, k \in Keys : k \notin Pending(t) =>
          /\ blob'[k] # "absent" <=> blob[k] # "absent"
          /\ kind'[k] = kind[k]
          /\ Readable(blob[k]) => Readable(blob'[k])
          /\ Readable(rcpt[k]) => Readable(rcpt'[k])
    BY <1>5, <1>6, <1>7
<1>9. /\ \A t \in Servers : op'[t] = None <=> op[t] = None
      /\ \A t \in Servers : op[t] # None =>
            op'[t].a = op[t].a /\ op'[t].kind = op[t].kind /\ Key(t)' = Key(t)
    BY <1>1, <1>3
<1> QED BY <1>1, <1>8, <1>9, QuietCounts DEF Files

(* Nor does a request for what is there, or half there.                    *)
LEMMA PutAgainCounts ==
    ASSUME TypeOK, OneServer, Files, Counts, NEW s \in Servers, NEW k \in Keys, NEW d \in Kinds,
           PutAgain(s, k, d) \/ PutBroken(s, k)
    PROVE  Counts'
<1>1. s \in up /\ UNCHANGED <<kind, cfg, use, rev, op>> /\ k[1] \in Agents
    BY KeysFinite DEF PutAgain, PutBroken, Free, disk
<1>2. \A t \in Servers : op'[t] = None
    BY RequestFiles
<1>3. CASE ok' = ok \ {s}
    <2>1. ok' = {}
        BY <1>1, <1>3, OnlyOne DEF Files
    <2> QED BY <1>2, <2>1, NoCounts
<1>4. CASE SyncFiles(k[1]) /\ ok' = ok
    <2>1. \A t \in ok, j \in Keys : j \notin Pending(t) =>
              /\ blob'[j] # "absent" <=> blob[j] # "absent"
              /\ kind'[j] = kind[j]
              /\ Readable(blob[j]) => Readable(blob'[j])
              /\ Readable(rcpt[j]) => Readable(rcpt'[j])
        BY <1>1, <1>4, SyncEffect
    <2>2. /\ \A t \in Servers : op'[t] = None <=> op[t] = None
          /\ \A t \in Servers : op[t] # None =>
                op'[t].a = op[t].a /\ op'[t].kind = op[t].kind /\ Key(t)' = Key(t)
        BY <1>1, <1>2
    <2> QED BY <1>1, <1>4, <2>1, <2>2, QuietCounts DEF Files
<1> QED BY <1>3, <1>4 DEF PutAgain, PutBroken, WriteFailed

(* Every step keeps the counts of a server that vouches for them.          *)
LEMMA CountsStep == TypeOK /\ OneServer /\ Files /\ Counts /\ [Next]_vars => Counts'
<1> SUFFICES ASSUME TypeOK, OneServer, Files, Counts, [Next]_vars PROVE Counts'
    OBVIOUS
<1>1. ASSUME UNCHANGED <<blob, rcpt, kind, ok, cfg, use, rev, op>> PROVE Counts'
    <2>1. \A t \in ok, j \in Keys : j \notin Pending(t) =>
              /\ blob'[j] # "absent" <=> blob[j] # "absent"
              /\ kind'[j] = kind[j]
              /\ Readable(blob[j]) => Readable(blob'[j])
              /\ Readable(rcpt[j]) => Readable(rcpt'[j])
        BY <1>1
    <2>2. /\ \A t \in Servers : op'[t] = None <=> op[t] = None
          /\ \A t \in Servers : op[t] # None =>
                op'[t].a = op[t].a /\ op'[t].kind = op[t].kind /\ Key(t)' = Key(t)
        BY <1>1 DEF Key
    <2> QED BY <1>1, <2>1, <2>2, QuietCounts DEF Files
<1>2. CASE UNCHANGED vars
    BY <1>1, <1>2 DEF vars, disk, mem
<1>3. ASSUME NEW s \in Servers, NEW c \in Configs, Start(s, c) PROVE Counts'
    BY <1>3, StartCounts
<1>4. ASSUME NEW s \in Servers, NEW k \in Keys, NEW d \in Kinds, PutNew(s, k, d) PROVE Counts'
    BY <1>4, PutNewCounts
<1>5. ASSUME NEW s \in Servers, NEW k \in Keys, NEW d \in Kinds, PutAgain(s, k, d) PROVE Counts'
    BY <1>5, PutAgainCounts
<1>6. ASSUME NEW s \in Servers, NEW k \in Keys, PutBroken(s, k) PROVE Counts'
    <2>1. "plain" \in Kinds
        BY DEF Kinds
    <2> QED BY <1>6, <2>1, PutAgainCounts
<1>7. ASSUME NEW s \in Servers, PutStep(s) PROVE Counts'
    BY <1>7, PutStepCounts, FinishCounts
<1>8. ASSUME NEW s \in Servers, Fail(s) PROVE Counts'
    <2>1. s \in up /\ ok' = ok \ {s}
        BY <1>8 DEF Fail, WriteFailed
    <2>2. ok' = {}
        BY <2>1, OnlyOne DEF Files
    <2> QED BY <1>8, <2>2, FailFiles, NoCounts
<1>9. ASSUME NEW s \in Servers, Kill(s) PROVE Counts'
    <2>1. s \in up /\ ok' = ok \ {s}
        BY <1>9 DEF Kill, Forget
    <2>2. ok' = {}
        BY <2>1, OnlyOne DEF Files
    <2>3. \A t \in Servers : op'[t] = None
        BY <1>9, QuietFiles
    <2> QED BY <2>2, <2>3, NoCounts
<1>10. CASE SystemCrash
    <2>1. ok' = {}
        BY <1>10 DEF SystemCrash, Forget, TypeOK
    <2> QED BY <1>10, <2>1, CrashFiles, NoCounts
<1>11. ASSUME NEW k \in Keys, Damage(k) PROVE Counts'
    BY <1>1, <1>11 DEF Damage, mem
<1>12. ASSUME NEW a \in Agents, Repair(a) PROVE Counts'
    <2>1. ok' = {}
        BY <1>12 DEF Repair, mem, TypeOK
    <2> QED BY <1>12, <2>1, RepairFiles, NoCounts
<1> QED BY <1>2, <1>3, <1>4, <1>5, <1>6, <1>7, <1>8, <1>9, <1>10, <1>11, <1>12 DEF Next

-----------------------------------------------------------------------------
(* The theorems *)

(* The inductive invariant holds at the start ...                          *)
LEMMA InitInv == Init => Inv
<1> SUFFICES ASSUME Init PROVE Inv
    OBVIOUS
<1>1. [a \in Agents |-> Zero] \in [Agents -> Count]
    BY CountTyped
<1>2. use \in [Servers -> [Agents -> Count]] /\ rev \in [Servers -> [Agents -> Count]]
    BY <1>1 DEF Init
<1>3. /\ dir \in [Agents -> DirStates] /\ temp \in [Agents -> TempStates]
      /\ blob \in [Keys -> FileStates] /\ rcpt \in [Keys -> FileStates]
    BY DEF Init, DirStates, TempStates, FileStates
<1>4. TypeOK
    BY <1>2, <1>3, StorageAssumption DEF Init, TypeOK
<1>5. OneServer /\ InDirectory /\ ReceiptHasBody /\ Publishing
    BY DEF Init, OneServer, InDirectory, ReceiptHasBody, Publishing
<1>6. Clean /\ Counted /\ Admitted /\ AnsweredIsKept /\ AnswerInDirectory
    BY DEF Init, Clean, Counted, Admitted, AnsweredIsKept, AnswerInDirectory
<1> QED BY <1>4, <1>5, <1>6 DEF Inv

(* ... and after every step.                                               *)
LEMMA NextInv == Inv /\ [Next]_vars => Inv'
<1> SUFFICES ASSUME Inv, [Next]_vars PROVE Inv'
    OBVIOUS
<1>1. TypeOK /\ OneServer /\ Files /\ Counts /\ Answers
    BY DEF Inv, Files, Counts, Answers
<1>2. TypeOK' /\ OneServer' /\ Files'
    BY <1>1, TypeStep, LockStep, FilesStep
<1>3. Counts'
    BY <1>1, CountsStep
<1>4. Answers'
    BY <1>1, AnswersStep
<1> QED BY <1>2, <1>3, <1>4 DEF Inv, Files, Counts, Answers

(* So it holds always.                                                     *)
LEMMA Invariance == Spec => []Inv
BY InitInv, NextInv, PTL DEF Spec

(* The counts a server vouches for are those a restart would find.         *)
LEMMA CountsFollow == Inv => CountsAreTrue
<1> SUFFICES ASSUME Inv, NEW s \in ok \cap whole, op[s] = None, bad = {}, NEW a \in Agents
             PROVE  /\ use[s][a] = CountOf(Of(a, Seen), Verified)
                    /\ rev[s][a] = CountOf(Of(a, Revocations(cfg[s])), Verified)
    BY DEF CountsAreTrue
<1>1. Pending(s) = {} /\ Taken(s) = Stored /\ Stored \ Pending(s) = Stored
    BY DEF Pending, Taken
<1>2. \A k \in Stored : Readable(blob[k]) /\ Readable(rcpt[k])
    BY <1>1 DEF Inv, Clean
<1>3. Seen = Stored
    BY <1>2 DEF Seen, Stored, Readable
<1>4. Verified = Stored
    BY <1>2, <1>3 DEF Verified
<1>5. Revocations(cfg[s]) = Revoking(s)
    BY <1>1, <1>4 DEF Revocations, Revoking, KindOf
<1>6. /\ use[s][a] = CountOf(Of(a, Taken(s)), Stored \ Pending(s))
      /\ rev[s][a] = CountOf(Of(a, Revoking(s)), Stored \ Pending(s))
    BY DEF Inv, Counted
<1> QED BY <1>1, <1>3, <1>4, <1>5, <1>6

(* Whatever fails or crashes: a receipt on disk has its synced body, and   *)
(* the counts of a server that vouches for them are true; where syncing a  *)
(* directory keeps its own entry, a receipt that put_inner returned stays  *)
(* on disk with its body, stored as what it says.                          *)
THEOREM StorageStaysSound ==
    /\ Spec => [](TypeOK /\ ReceiptHasBody /\ CountsAreTrue)
    /\ KeepsParents => (Spec => []StorageIsSound)
<1>1. Inv => TypeOK /\ ReceiptHasBody /\ CountsAreTrue
    BY CountsFollow DEF Inv
<1>2. ASSUME KeepsParents PROVE Inv => StorageIsSound
    BY <1>1, <1>2 DEF Inv, StorageIsSound
<1>3. Spec => [](TypeOK /\ ReceiptHasBody /\ CountsAreTrue)
    BY <1>1, Invariance, PTL
<1>4. ASSUME KeepsParents PROVE Spec => []StorageIsSound
    <2>1. Inv => StorageIsSound
        BY <1>2, <1>4
    <2> QED BY <2>1, Invariance, PTL
<1> QED BY <1>3, <1>4

(* Only linking the body of a put makes a body appear.                     *)
LEMMA OnlyLink ==
    ASSUME Inv, [Next]_vars, NEW k \in Keys, blob[k] = "absent", blob'[k] # "absent"
    PROVE  \E s \in Servers : Link(s) /\ op[s].file = "blob" /\ Key(s) = k
<1>1. TypeOK /\ OneServer /\ Files
    BY DEF Inv, Files
<1>2. blob' # blob
    OBVIOUS
<1>3. ~UNCHANGED vars /\ ~(\E s \in Servers, c \in Configs : Start(s, c))
    BY <1>2 DEF vars, disk, Start
<1>4. ASSUME NEW s \in Servers, NEW j \in Keys, NEW d \in Kinds,
             PutNew(s, j, d) \/ PutAgain(s, j, d) \/ PutBroken(s, j)
      PROVE  FALSE
    <2>1. SyncFiles(j[1]) /\ j[1] \in Agents
        BY <1>2, <1>4, KeysFinite DEF PutNew, PutAgain, PutBroken, disk
    <2> QED BY <1>1, <2>1, SyncEffect
<1>5. ASSUME NEW s \in Servers, PutStep(s) PROVE Link(s) /\ op[s].file = "blob" /\ Key(s) = k
    <2>1. s \in up /\ op[s] # None
        BY <1>5 DEF PutStep, MakeDir, SyncRoot, WriteTemp, Link, Unlink, SyncDir, Finish, At
    <2>2. Key(s) \in Keys /\ op[s].a \in Agents
        BY <1>1, <2>1, PutKnown
    <2>3. ~MakeDir(s) /\ ~SyncRoot(s) /\ ~WriteTemp(s) /\ ~Finish(s)
        BY <1>2 DEF MakeDir, SyncRoot, WriteTemp, Finish, disk
    <2>4. ~Unlink(s)
        BY <1>1, <2>2 DEF Unlink, Single, TypeOK
    <2>5. ~SyncDir(s)
        BY <1>1, <2>2, SyncEffect DEF SyncDir
    <2>6. Link(s)
        BY <1>5, <2>3, <2>4, <2>5 DEF PutStep
    <2> QED BY <1>1, <1>2, <2>2, <2>6 DEF Link, TypeOK
<1>6. ASSUME NEW s \in Servers, Fail(s) PROVE FALSE
    <2>1. Key(s) \in Keys
        BY <1>1, <1>6, PutKnown DEF Fail
    <2> QED BY <1>1, <1>6, <2>1 DEF Fail, AfterFailure, Single, TypeOK
<1>7. ASSUME NEW s \in Servers, Kill(s) PROVE FALSE
    BY <1>2, <1>7 DEF Kill, disk
<1>8. ~SystemCrash
    BY DEF SystemCrash
<1>9. ASSUME NEW j \in Keys, Damage(j) PROVE FALSE
    BY <1>2, <1>9 DEF Damage
<1>10. ASSUME NEW a \in Agents, Repair(a) PROVE FALSE
    BY <1>10 DEF Repair
<1>11. "plain" \in Kinds
    BY DEF Kinds
<1> QED BY <1>3, <1>4, <1>5, <1>6, <1>7, <1>8, <1>9, <1>10, <1>11 DEF Next

(* ... and that put was admitted when nothing of it was written.           *)
LEMMA LimitStep ==
    ASSUME Inv, [Next]_vars, NEW s \in up, NEW k \in Keys, blob[k] = "absent", blob'[k] # "absent",
           NEW stored, stored = {j \in Keys : blob'[j] # "absent"},
           NEW mine, mine = IF k \in Charged(s, {k}) THEN Charged(s, stored) ELSE stored \ Charged(s, stored),
           NEW budget, budget = IF k \in Charged(s, {k}) THEN cfg[s].normal ELSE cfg[s].revoke
    PROVE  /\ Cardinality(mine) <= budget.all.objs /\ Bytes(mine) <= budget.all.bytes
           /\ Cardinality(Of(k[1], mine)) <= budget.agent[k[1]].objs
           /\ Bytes(Of(k[1], mine)) <= budget.agent[k[1]].bytes
<1>1. TypeOK /\ OneServer /\ Files /\ Admitted
    BY DEF Inv, Files
<1>2. PICK t \in Servers : Link(t) /\ op[t].file = "blob" /\ Key(t) = k
    BY OnlyLink
<1>3. t \in up /\ op[t] # None
    BY <1>2 DEF Link, At
<1>4. t = s
    BY <1>1, <1>3 DEF OneServer
<1>5. op[s].a = k[1] /\ op[s] # None /\ s \in Servers
    BY <1>1, <1>2, <1>3, <1>4, PutKnown
<1>6. /\ \A j \in Keys : j # k => blob'[j] = blob[j] /\ kind'[j] = kind[j]
      /\ kind'[k] = op[s].kind
    BY <1>1, <1>2, <1>4 DEF Link, TypeOK
<1>7. Pending(s) = {k}
    BY <1>2, <1>4, <1>5 DEF Pending
<1>8. stored = Taken(s)
    BY <1>6, <1>7 DEF Taken, Stored
<1>9. \A j \in Taken(s) : kind'[j] = KindOf(s, j)
    BY <1>6, <1>7 DEF KindOf, Taken, Stored
<1>10. k \in Charged(s, {k}) <=> ~AsRevocation(s)
    BY <1>6 DEF Charged, AsRevocation
<1>11. Charged(s, stored) = Taken(s) \ Revoking(s)
    BY <1>8, <1>9 DEF Charged, Revoking
<1>12. Revoking(s) \subseteq Taken(s)
    BY DEF Revoking
<1>13. mine = Mine(s)
    BY <1>8, <1>10, <1>11, <1>12 DEF Mine
<1>14. budget = IF AsRevocation(s) THEN cfg[s].revoke ELSE cfg[s].normal
    BY <1>10
<1>15. Within(Mine(s), budget.all) /\ Within(Of(op[s].a, Mine(s)), budget.agent[op[s].a])
    BY <1>1, <1>5, <1>14 DEF Admitted
<1> QED BY <1>5, <1>13, <1>15 DEF Within

(* A new body appears only within the limits of the running server,        *)
(* whatever was killed, crashed, failed or repaired before.                *)
THEOREM DiskStaysWithinLimits == Spec => StaysWithinLimits
<1>1. Inv /\ [Next]_vars =>
        [\A s \in up, k \in Keys : (blob[k] = "absent" /\ blob'[k] # "absent") =>
          LET stored == {j \in Keys : blob'[j] # "absent"}
              mine == IF k \in Charged(s, {k}) THEN Charged(s, stored) ELSE stored \ Charged(s, stored)
              budget == IF k \in Charged(s, {k}) THEN cfg[s].normal ELSE cfg[s].revoke
          IN /\ Cardinality(mine) <= budget.all.objs /\ Bytes(mine) <= budget.all.bytes
             /\ Cardinality(Of(k[1], mine)) <= budget.agent[k[1]].objs
             /\ Bytes(Of(k[1], mine)) <= budget.agent[k[1]].bytes]_vars
    <2> SUFFICES ASSUME Inv, [Next]_vars, NEW s \in up, NEW k \in Keys,
                        blob[k] = "absent", blob'[k] # "absent"
                 PROVE  LET stored == {j \in Keys : blob'[j] # "absent"}
                            mine == IF k \in Charged(s, {k}) THEN Charged(s, stored)
                                    ELSE stored \ Charged(s, stored)
                            budget == IF k \in Charged(s, {k}) THEN cfg[s].normal ELSE cfg[s].revoke
                        IN /\ Cardinality(mine) <= budget.all.objs /\ Bytes(mine) <= budget.all.bytes
                           /\ Cardinality(Of(k[1], mine)) <= budget.agent[k[1]].objs
                           /\ Bytes(Of(k[1], mine)) <= budget.agent[k[1]].bytes
        OBVIOUS
    <2>1. PICK stored : stored = {j \in Keys : blob'[j] # "absent"}
        OBVIOUS
    <2>2. PICK mine, budget :
             /\ mine = IF k \in Charged(s, {k}) THEN Charged(s, stored) ELSE stored \ Charged(s, stored)
             /\ budget = IF k \in Charged(s, {k}) THEN cfg[s].normal ELSE cfg[s].revoke
        OBVIOUS
    <2>3. /\ Cardinality(mine) <= budget.all.objs /\ Bytes(mine) <= budget.all.bytes
          /\ Cardinality(Of(k[1], mine)) <= budget.agent[k[1]].objs
          /\ Bytes(Of(k[1], mine)) <= budget.agent[k[1]].bytes
        BY <2>1, <2>2, LimitStep
    <2> QED BY <2>1, <2>2, <2>3
<1> QED BY <1>1, Invariance, PTL DEF Spec, StaysWithinLimits
=============================================================================
