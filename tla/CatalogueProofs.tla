---------------------------- MODULE CatalogueProofs ----------------------------
(***************************************************************************)
(* Proofs about Config and Catalogue, for any databases, environments,     *)
(* .env files, product files and seeders: what loadDotEnv makes of a file  *)
(* and an environment, and that the catalogue's properties hold however    *)
(* seeders overlap, fail and die and products are taken off the list.      *)
(*                                                                         *)
(* The loader is a fold, and what a fold computes for every file is an     *)
(* induction.  The induction theorems cannot be instantiated (they take a  *)
(* predicate), so it is made by hand: the naturals are well founded, hence *)
(* a set of them has a least element, hence there is no shortest beginning *)
(* of a file for which fold and closed form (Filled) differ.               *)
(*                                                                         *)
(* The inductive invariant adds to them that the SKUs of a database        *)
(* are unique, that a seeder's report goes with its place in main, and     *)
(* that its rows are in its target and nowhere else.                       *)
(***************************************************************************)
EXTENDS Catalogue, FiniteSetTheorems, WellFoundedInduction, TLAPS

-----------------------------------------------------------------------------
(* Numbers. *)

\* A set of naturals has a least element.
LEMMA LeastExists ==
    ASSUME NEW T, T \subseteq Nat, T # {}
    PROVE  \E m \in T : \A n \in T : m <= n
<1> DEFINE Less == {s \in Nat \X Nat : s[1] < s[2]}
<1>1. IsWellFoundedOn(Less, Nat)
    BY NatLessThanWellFounded DEF OpToRel
<1>2. \A m, n \in Nat : m < n => <<m, n>> \in Less
    OBVIOUS
<1> HIDE DEF Less
<1>3. PICK m \in T : \A n \in T : ~ (<<n, m>> \in Less)
    BY <1>1, WFMin
<1>4. \A n \in T : m <= n
  <2> TAKE n \in T
  <2>1. ~ (n < m)
    BY <1>2, <1>3
  <2> QED
    BY <2>1
<1> QED
    BY <1>4

\* Min finds it.
LEMMA MinIsLeast ==
    ASSUME NEW T, T \subseteq Nat, T # {}
    PROVE  Min(T) \in T /\ \A n \in T : Min(T) <= n
BY LeastExists DEF Min

\* Max finds the greatest of a set of indices.
LEMMA MaxIsGreatest ==
    ASSUME NEW N \in Nat, NEW T, T \subseteq 1..N, T # {}
    PROVE  Max(T) \in T /\ \A n \in T : n <= Max(T)
<1> DEFINE U == {N - n : n \in T}
<1>1. U \subseteq Nat /\ U # {}
  <2>1. \A n \in T : N - n \in Nat
    OBVIOUS
  <2> QED
    BY <2>1
<1>2. PICK u \in U : \A v \in U : u <= v
    BY <1>1, LeastExists
<1>3. PICK m \in T : u = N - m
    OBVIOUS
<1>4. \A n \in T : N - n \in U
    OBVIOUS
<1>5. \A n \in T : n <= m
  <2> TAKE n \in T
  <2>1. N - m <= N - n
    BY <1>2, <1>3, <1>4
  <2> QED
    BY <2>1
<1>6. \A n \in T : m >= n
    BY <1>5
<1>7. Max(T) \in T /\ \A n \in T : Max(T) >= n
    BY <1>6 DEF Max
<1> QED
    BY <1>7

-----------------------------------------------------------------------------
(* The .env file. *)

\* The lines among s that set k, and what the first of them says.
Sets(f, s, k) == {i \in s : f[i][1] = "set" /\ f[i][2] = k}
Word(f, s, k) == IF Sets(f, s, k) = {} THEN UNSET ELSE f[Min(Sets(f, s, k))][3]

\* The environment with what is not set in it filled in from the lines s.
Filled(env, f, s) == [k \in Keys |-> IF env[k] # UNSET THEN env[k] ELSE Word(f, s, k)]

\* A line that sets a variable has a variable and a value.
LEMMA LineShape ==
    ASSUME NEW l \in Line, l[1] = "set"
    PROVE  l[2] \in Keys /\ l[3] \in Values
BY DEF Line

\* The word is UNSET exactly where there is no line.
LEMMA WordSet ==
    ASSUME NEW f \in Seq(Line), NEW s, s \subseteq DOMAIN f, NEW k \in Keys
    PROVE  /\ Sets(f, s, k) = {} => Word(f, s, k) = UNSET
           /\ Sets(f, s, k) # {} => /\ Word(f, s, k) \in Values
                                    /\ Word(f, s, k) # UNSET
<1>1. CASE Sets(f, s, k) = {}
    BY <1>1 DEF Word
<1>2. CASE Sets(f, s, k) # {}
  <2> DEFINE i == Min(Sets(f, s, k))
  <2>1. Sets(f, s, k) \subseteq Nat
      BY DEF Sets
  <2>2. i \in Sets(f, s, k)
      BY <1>2, <2>1, MinIsLeast
  <2>3. f[i] \in Line /\ f[i][1] = "set"
      BY <2>2 DEF Sets
  <2>4. f[i][3] \in Values
      BY <2>3, LineShape
  <2>5. Word(f, s, k) = f[i][3]
      BY <1>2 DEF Word
  <2> QED
      BY <1>2, <2>4, <2>5, UnsetAssumption
<1> QED
    BY <1>1, <1>2

\* m is the first line to set k, the others of s being before it.
FirstAt(f, s, m, k) == Sets(f, s \ {m}, k) = {} /\ f[m][1] = "set" /\ f[m][2] = k

\* One more line at the end changes the word only where there was none.
LEMMA WordOfOneMore ==
    ASSUME NEW f \in Seq(Line), NEW s, s \subseteq DOMAIN f, NEW m \in s,
           \A i \in s : i <= m, NEW k \in Keys
    PROVE  /\ FirstAt(f, s, m, k) => Word(f, s, k) = f[m][3]
           /\ ~ FirstAt(f, s, m, k) => Word(f, s, k) = Word(f, s \ {m}, k)
<1> DEFINE S == Sets(f, s, k)
           R == Sets(f, s \ {m}, k)
<1>0. S \subseteq Nat /\ R \subseteq Nat /\ m \in Nat
    BY DEF Sets
<1>1. R = S \ {m}
    BY DEF Sets
<1>2. m \in S <=> f[m][1] = "set" /\ f[m][2] = k
    BY DEF Sets
<1>3. CASE m \notin S
  <2>1. R = S
      BY <1>1, <1>3
  <2> QED
      BY <1>2, <1>3, <2>1 DEF Word, FirstAt
<1>4. CASE m \in S /\ R = {}
  <2>1. S = {m}
      BY <1>1, <1>4
  <2>2. Min(S) = m
      BY <1>0, <2>1, MinIsLeast
  <2>3. Word(f, s, k) = f[m][3]
      BY <1>4, <2>2 DEF Word
  <2> QED
      BY <1>2, <1>4, <2>3 DEF FirstAt
<1>5. CASE m \in S /\ R # {}
  <2>1. Min(R) \in R /\ \A n \in R : Min(R) <= n
      BY <1>0, <1>5, MinIsLeast
  <2>2. Min(S) \in S /\ \A n \in S : Min(S) <= n
      BY <1>0, <1>5, MinIsLeast
  <2>3. Min(R) \in S /\ Min(R) # m /\ Min(R) <= m
      BY <1>1, <2>1 DEF Sets
  <2>4. Min(S) <= Min(R)
      BY <2>2, <2>3
  <2>5. Min(S) # m
      BY <1>0, <2>1, <2>3, <2>4
  <2>6. Min(R) <= Min(S)
      BY <1>1, <2>1, <2>2, <2>5
  <2>7. Min(S) = Min(R)
    <3>1. Min(S) \in Nat /\ Min(R) \in Nat
        BY <1>0, <2>1, <2>2
    <3> QED
        BY <3>1, <2>4, <2>6
  <2>8. Word(f, s, k) = f[Min(S)][3] /\ Word(f, s \ {m}, k) = f[Min(R)][3]
      BY <1>5 DEF Word
  <2> QED
      BY <1>5, <2>7, <2>8 DEF FirstAt
<1> QED
    BY <1>3, <1>4, <1>5

\* The last line of s does to the environment what SetEnv says.
LEMMA SetEnvFillsIn ==
    ASSUME NEW env \in Environment, NEW f \in Seq(Line), NEW s, s \subseteq DOMAIN f,
           NEW m \in s, \A i \in s : i <= m
    PROVE  SetEnv(Filled(env, f, s \ {m}), f[m]) = Filled(env, f, s)
<1> DEFINE G == Filled(env, f, s \ {m})
           H == Filled(env, f, s)
<1>0. s \ {m} \subseteq DOMAIN f /\ f[m] \in Line
    OBVIOUS
<1>1. \A k \in Keys :
         H[k] = IF G[k] = UNSET /\ f[m][1] = "set" /\ f[m][2] = k
                THEN f[m][3] ELSE G[k]
  <2> TAKE k \in Keys
  <2>1. G[k] = IF env[k] # UNSET THEN env[k] ELSE Word(f, s \ {m}, k)
      BY DEF Filled
  <2>2. H[k] = IF env[k] # UNSET THEN env[k] ELSE Word(f, s, k)
      BY DEF Filled
  <2>3. Sets(f, s \ {m}, k) = {} <=> Word(f, s \ {m}, k) = UNSET
      BY <1>0, WordSet
  <2>4. /\ FirstAt(f, s, m, k) => Word(f, s, k) = f[m][3]
        /\ ~ FirstAt(f, s, m, k) => Word(f, s, k) = Word(f, s \ {m}, k)
      BY WordOfOneMore
  <2> HIDE DEF G, H
  <2>5. CASE env[k] # UNSET
      BY <2>1, <2>2, <2>5
  <2>6. CASE env[k] = UNSET
      BY <2>1, <2>2, <2>3, <2>4, <2>6 DEF FirstAt
  <2> QED
      BY <2>5, <2>6
<1>2. G = [k \in Keys |-> G[k]] /\ H = [k \in Keys |-> H[k]]
    BY DEF Filled
<1> HIDE DEF G, H
<1>3. CASE f[m][1] = "set" /\ G[f[m][2]] = UNSET
  <2>1. SetEnv(G, f[m]) = [G EXCEPT ![f[m][2]] = f[m][3]]
      BY <1>3 DEF SetEnv, Unset
  <2>2. f[m][2] \in Keys
      BY <1>0, <1>3, LineShape
  <2>3. \A k \in Keys : H[k] = IF k = f[m][2] THEN f[m][3] ELSE G[k]
      BY <1>1, <1>3
  <2> QED
      BY <1>2, <2>1, <2>2, <2>3 DEF G, H
<1>4. CASE ~ (f[m][1] = "set" /\ G[f[m][2]] = UNSET)
  <2>1. SetEnv(G, f[m]) = G
      BY <1>4 DEF SetEnv, Unset
  <2>2. \A k \in Keys : H[k] = G[k]
      BY <1>1, <1>4
  <2> QED
      BY <1>2, <2>1, <2>2 DEF G, H
<1> QED
    BY <1>3, <1>4

\* Reading a file fills in what is not set: by the fold's own recursion, of
\* which Filled is a solution, and the only one on the file's beginnings.
LEMMA FoldFillsIn ==
    ASSUME NEW env \in Environment, NEW f \in Seq(Line)
    PROVE  FoldLeft(SetEnv, env, f) = Filled(env, f, DOMAIN f)
<1> DEFINE IsSolution(g) ==
               g = [s \in SUBSET DOMAIN f |->
                      IF s = {} THEN env ELSE SetEnv(g[s \ {Max(s)}], f[Max(s)])]
           Given == CHOOSE g : IsSolution(g)
           Solution == [s \in SUBSET DOMAIN f |-> Filled(env, f, s)]
           N == Len(f)
<1>1. FoldLeft(SetEnv, env, f) = Given[DOMAIN f]
    BY DEF FoldLeft, MapThenFoldSet
<1>2. Filled(env, f, {}) = env
  <2>1. \A k \in Keys : Word(f, {}, k) = UNSET
      BY DEF Word, Sets
  <2>2. env = [k \in Keys |-> env[k]]
      BY DEF Environment
  <2>3. \A k \in Keys : (IF env[k] # UNSET THEN env[k] ELSE Word(f, {}, k)) = env[k]
      BY <2>1
  <2> QED
      BY <2>2, <2>3 DEF Filled
<1>3. N \in Nat /\ DOMAIN f = 1..N
    OBVIOUS
<1>4. \A s \in SUBSET DOMAIN f : s # {} =>
         SetEnv(Filled(env, f, s \ {Max(s)}), f[Max(s)]) = Filled(env, f, s)
  <2> TAKE s \in SUBSET DOMAIN f
  <2> HAVE s # {}
  <2>1. Max(s) \in s /\ \A i \in s : i <= Max(s)
      BY <1>3, MaxIsGreatest
  <2> QED
      BY <2>1, SetEnvFillsIn
<1>5. IsSolution(Solution)
    BY <1>2, <1>4
<1>6. IsSolution(Given)
    BY <1>5
<1> HIDE DEF Given
<1>7. Given[{}] = env
    BY <1>6
<1>8. \A n \in 1..N : Given[1..n] = SetEnv(Given[1..(n - 1)], f[n])
  <2> TAKE n \in 1..N
  <2>1. 1..n \subseteq DOMAIN f /\ n \in 1..n
      BY <1>3
  <2>2. Max(1..n) \in 1..n /\ \A i \in 1..n : i <= Max(1..n)
      BY <1>3, <2>1, MaxIsGreatest
  <2>3. Max(1..n) = n
      BY <2>1, <2>2
  <2>4. 1..n \ {n} = 1..(n - 1)
      OBVIOUS
  <2> QED
      BY <1>6, <2>1, <2>3, <2>4
<1>9. \A n \in 0..N : Given[1..n] = Filled(env, f, 1..n)
  <2> DEFINE Bad == {n \in 0..N : Given[1..n] # Filled(env, f, 1..n)}
  <2> SUFFICES ASSUME Bad # {} PROVE FALSE
      OBVIOUS
  <2>0. Bad \subseteq Nat
      BY <1>3
  <2>1. PICK n \in Bad : \A b \in Bad : n <= b
    <3> HIDE DEF Bad
    <3> QED
        BY <2>0, LeastExists
  <2>2. n # 0
    <3>1. 1..0 = {}
        OBVIOUS
    <3> QED
        BY <1>2, <1>7, <3>1
  <2>3. n - 1 \in 0..N /\ n - 1 \notin Bad /\ n \in 1..N
      BY <1>3, <2>1, <2>2
  <2>4. Given[1..(n - 1)] = Filled(env, f, 1..(n - 1))
      BY <2>3
  <2>5. 1..n \in SUBSET DOMAIN f /\ n \in 1..n /\ (\A i \in 1..n : i <= n)
        /\ 1..n \ {n} = 1..(n - 1)
      BY <1>3, <2>3
  <2>6. SetEnv(Filled(env, f, 1..(n - 1)), f[n]) = Filled(env, f, 1..n)
      BY <2>5, SetEnvFillsIn
  <2> QED
      BY <1>8, <2>3, <2>4, <2>6
<1> QED
    BY <1>1, <1>3, <1>9

\* What the scanner gives is a beginning of the file.
LEMMA ScannedIsPrefix ==
    ASSUME NEW f \in Seq(Line)
    PROVE  /\ Scanned(f) \in Seq(Line)
           /\ \A i \in DOMAIN Scanned(f) : i \in DOMAIN f /\ Scanned(f)[i] = f[i]
<1> DEFINE Long == {i \in 1..Len(f) : f[i][1] = "overlong"}
<1>1. CASE Long = {}
  <2>1. Scanned(f) = f
      BY <1>1 DEF Scanned
  <2> QED
      BY <2>1
<1>2. CASE Long # {}
  <2>1. Min(Long) \in Long
      BY <1>2, MinIsLeast
  <2>2. SelectInSeq(f, LAMBDA l : l[1] = "overlong") = Min(Long)
      BY <1>2 DEF SelectInSeq
  <2>3. \E i \in DOMAIN f : f[i][1] = "overlong"
      BY <1>2
  <2>4. Scanned(f) = SubSeq(f, 1, Min(Long) - 1)
      BY <2>2, <2>3 DEF Scanned
  <2>5. Min(Long) \in 1..Len(f)
      BY <2>1
  <2> HIDE DEF Long
  <2> QED
      BY <2>4, <2>5
<1> QED
    BY <1>1, <1>2

\* loadDotEnv (config.go), whatever the file and the environment: what is set
\* stays as it is, also if it is empty, and the rest is what the first line
\* about it says, or unset ("The real environment always wins").
THEOREM DotEnvFillsIn ==
    ASSUME NEW env \in Environment, NEW f \in Seq(Line)
    PROVE  /\ loadDotEnv(env, f) \in Environment
           /\ \A k \in Keys :
                 loadDotEnv(env, f)[k] =
                    IF env[k] # UNSET THEN env[k]
                    ELSE Word(Scanned(f), DOMAIN Scanned(f), k)
<1> DEFINE S == Scanned(f)
           e == loadDotEnv(env, f)
<1>1. S \in Seq(Line)
    BY ScannedIsPrefix
<1>2. e = Filled(env, S, DOMAIN S)
    BY <1>1, FoldFillsIn DEF loadDotEnv
<1>3. \A k \in Keys : Word(S, DOMAIN S, k) \in Values \cup {UNSET}
    BY <1>1, WordSet
<1>4. \A k \in Keys : env[k] \in Values \cup {UNSET}
    BY DEF Environment
<1> HIDE DEF S, e
<1>5. \A k \in Keys : e[k] = IF env[k] # UNSET THEN env[k] ELSE Word(S, DOMAIN S, k)
    BY <1>2 DEF Filled
<1>6. e \in Environment
    BY <1>2, <1>3, <1>4 DEF Filled, Environment
<1> QED
    BY <1>5, <1>6 DEF S, e

\* Connect reaches the database that was asked for.
LEMMA ConnectsWhereAsked ==
    ASSUME environ \in [Seeders -> Environment], dotenv \in Seq(Line),
           NEW p \in Seeders, Load(environ[p], dotenv).url \in Databases
    PROVE  Load(environ[p], dotenv).url \in AskedFor(p)
<1> DEFINE env == environ[p]
           S == Scanned(dotenv)
           key == "DATABASE_URL"
           lines == {i \in DOMAIN S : dotenv[i][1] = "set" /\ dotenv[i][2] = key}
           url == Load(env, dotenv).url
           e == loadDotEnv(env, dotenv)
<1>1. key \in Keys /\ env \in Environment
    BY DEF Keys
<1>2. url = Getenv(e, key) /\ url # ""
    BY UnsetAssumption DEF Load
<1>3. url = e[key]
    BY <1>2 DEF Getenv
<1>4. e[key] = IF env[key] # UNSET THEN env[key] ELSE Word(S, DOMAIN S, key)
    BY <1>1, DotEnvFillsIn, Zenon
<1>5. CASE env[key] # UNSET
    BY <1>3, <1>4, <1>5 DEF AskedFor
<1>6. CASE env[key] = UNSET
  <2>1. /\ S \in Seq(Line)
        /\ \A i \in DOMAIN S : i \in DOMAIN dotenv /\ S[i] = dotenv[i]
      BY ScannedIsPrefix
  <2>2. Sets(S, DOMAIN S, key) = lines
      BY <2>1 DEF Sets
  <2>3. url = Word(S, DOMAIN S, key)
      BY <1>3, <1>4, <1>6
  <2>4. url # UNSET
      BY UnsetAssumption DEF Values
  <2>5. lines # {}
      BY <2>2, <2>3, <2>4 DEF Word
  <2>6. lines \subseteq Nat
      BY <2>1
  <2>7. Min(lines) \in lines /\ \A k \in lines : Min(lines) <= k
      BY <2>5, <2>6, MinIsLeast
  <2>8. url = dotenv[Min(lines)][3]
      BY <2>1, <2>2, <2>3, <2>5, <2>7 DEF Word
  <2> HIDE DEF lines, url
  <2>9. url \in {dotenv[i][3] : i \in {j \in lines : \A k \in lines : j <= k}}
      BY <2>7, <2>8
  <2> QED
      BY <1>6, <2>9 DEF AskedFor, lines, url
<1> QED
    BY <1>5, <1>6

-----------------------------------------------------------------------------
(* The inductive invariant. *)

\* The UNIQUE constraint, whoever inserts and whatever fails.
SKUsUnique ==
    \A d \in Databases : \A row, other \in products[d] :
        row.sku = other.sku => row = other

\* What p has done so far goes with where it is.
Placed(p) ==
    /\ pc[p] \in {"load", "failed"} => report[p] = <<>>
    /\ pc[p] = "load" => target[p] = NONE
    /\ pc[p] = "insert" \/ report[p] # <<>> => target[p] \in Databases
    /\ Len(report[p]) <= Len(file[p])
    /\ pc[p] = "done" => Len(report[p]) = Len(file[p])

\* What p said of its i-th entry is still so.
Reported(p, i) ==
    LET e == file[p][i] IN
    /\ report[p][i] = "created" =>
          \E row \in products[target[p]] :
              row.sku = e.sku /\ row.by = p /\ row.category = e.category
    /\ report[p][i] = "exists" => Taken(target[p], e.sku)
    /\ report[p][i] = "invalid" => ~ ValidCategory(e)

\* A seeder writes where its configuration says, and nowhere else.
Asked ==
    /\ \A p \in Seeders : target[p] # NONE => target[p] \in AskedFor(p)
    /\ \A d \in Databases : \A row \in products[d] : target[row.by] = d

IInv ==
    /\ TypeOK /\ SKUsUnique
    /\ \A p \in Seeders : Placed(p) /\ \A i \in DOMAIN report[p] : Reported(p, i)
    /\ Asked

-----------------------------------------------------------------------------
(* What a step does to the table of products. *)

\* The entry whose turn it is, is one.
LEMMA CurrentIsEntry ==
    ASSUME TypeOK, NEW p \in Seeders, Seeding(p)
    PROVE  /\ Len(report[p]) + 1 \in DOMAIN file[p]
           /\ Current(p) \in Entry
           /\ Current(p) = file[p][Len(report[p]) + 1]
<1>1. file[p] \in Seq(Entry) /\ report[p] \in Seq(Outcome)
    BY DEF TypeOK
<1>2. Len(report[p]) + 1 \in DOMAIN file[p]
    BY <1>1 DEF Seeding
<1> QED
    BY <1>1, <1>2 DEF Current

\* Seeder p adds a row for its current entry, whose SKU no other has.
Adds(p) ==
    \E row \in Row :
        /\ row.by = p /\ row.sku = Current(p).sku /\ row.category = Current(p).category
        /\ ~ Taken(target[p], row.sku)
        /\ products' = [products EXCEPT ![target[p]] = @ \cup {row}]

LEMMA InsertAdds ==
    ASSUME IInv, NEW p \in Seeders, CanCreate(p), InsertRow(p)
    PROVE  Adds(p)
<1> DEFINE e == Current(p)
           row == RowOf(p, e)
<1>1. e \in Entry /\ Accepted(e) /\ ~ Taken(target[p], e.sku)
    BY CurrentIsEntry DEF IInv, CanCreate
<1>2. target[p] \in Databases
    BY DEF IInv, Placed, CanCreate, Seeding
<1>4. e.price \in Nat
    BY <1>1 DEF Entry, Accepted
<1> HIDE DEF e
<1>5. row \in Row
    BY <1>1, <1>4 DEF Row, RowOf, Entry, Accepted
<1>6. row.by = p /\ row.sku = e.sku /\ row.category = e.category
    BY DEF RowOf
<1>7. products' = [products EXCEPT ![target[p]] = @ \cup {row}]
    BY DEF InsertRow, e
<1> HIDE DEF row
<1> QED
    BY <1>1, <1>5, <1>6, <1>7 DEF Adds, e

\* The three things a step can do to the table.
LEMMA ProductsChange ==
    ASSUME IInv, [Next]_vars
    PROVE  \/ UNCHANGED products
           \/ \E p \in Seeders : pc[p] = "insert" /\ Adds(p)
           \/ \E d \in Databases : \E row \in products[d] : Deactivate(d, row)
<1> DEFINE Goal == \/ UNCHANGED products
                   \/ \E p \in Seeders : pc[p] = "insert" /\ Adds(p)
                   \/ \E d \in Databases : \E row \in products[d] : Deactivate(d, row)
<1> HIDE DEF Goal
<1> SUFFICES Goal
    BY DEF Goal
<1>1. ASSUME NEW p \in Seeders, CanCreate(p), InsertRow(p)
      PROVE  Goal
    BY <1>1, InsertAdds DEF Goal, CanCreate, Seeding
<1>2. ASSUME NEW p \in Seeders, LoadConfig(p) \/ SkipInvalid(p) \/ CreateTaken(p) \/ Done(p)
      PROVE  Goal
    BY <1>2 DEF Goal, LoadConfig, SkipInvalid, CreateTaken, Done
<1>3. ASSUME NEW p \in Seeders, Create(p) \/ CreateFails(p) \/ Killed(p)
      PROVE  Goal
  <2>1. UNCHANGED products \/ (CanCreate(p) /\ InsertRow(p))
      BY <1>3 DEF Create, CreateFails, Killed
  <2> QED
      BY <1>1, <2>1 DEF Goal
<1>4. CASE UNCHANGED vars
    BY <1>4 DEF Goal, vars
<1> QED
    BY <1>2, <1>3, <1>4 DEF Next, Finished, Goal

\* No row goes, changes its SKU, its category or its author; a row that
\* comes is in the database its author writes to; SKUs stay unique.
RowsStay ==
    \A d \in Databases : \A row \in products[d] :
        \E new \in products'[d] :
            new.sku = row.sku /\ new.by = row.by /\ new.category = row.category

RowsCome ==
    \A d \in Databases : \A new \in products'[d] :
        \/ \E row \in products[d] : row.sku = new.sku /\ row.by = new.by
        \/ pc[new.by] = "insert" /\ target[new.by] = d

ProductsOK == products' \in [Databases -> SUBSET Row] /\ SKUsUnique'

LEMMA ProductsAfterAdd ==
    ASSUME IInv, NEW p \in Seeders, pc[p] = "insert", Adds(p)
    PROVE  ProductsOK /\ RowsStay /\ RowsCome
<1>1. PICK row \in Row :
         /\ row.by = p /\ ~ Taken(target[p], row.sku)
         /\ products' = [products EXCEPT ![target[p]] = @ \cup {row}]
    BY DEF Adds
<1>2. products \in [Databases -> SUBSET Row] /\ target[p] \in Databases
    BY DEF IInv, TypeOK, Placed
<1>3. products' \in [Databases -> SUBSET Row]
    BY <1>1, <1>2
<1>4. ASSUME NEW d \in Databases
      PROVE  products'[d] = IF d = target[p] THEN products[d] \cup {row} ELSE products[d]
    BY <1>1, <1>2
<1>6. ASSUME NEW d \in Databases, NEW r \in products'[d], NEW q \in products'[d], r.sku = q.sku
      PROVE  r = q
    BY <1>1, <1>4, <1>6 DEF IInv, SKUsUnique, Taken
<1>7. ProductsOK
    BY <1>3, <1>6 DEF ProductsOK, SKUsUnique
<1>8. RowsStay
    BY <1>4 DEF RowsStay
<1>9. RowsCome
    BY <1>1, <1>4 DEF RowsCome
<1> QED
    BY <1>7, <1>8, <1>9

LEMMA ProductsAfterDeactivate ==
    ASSUME IInv, NEW b \in Databases, NEW old \in products[b], Deactivate(b, old)
    PROVE  ProductsOK /\ RowsStay /\ RowsCome
<1> DEFINE row == [old EXCEPT !.active = FALSE]
<1>1. products \in [Databases -> SUBSET Row]
    BY DEF IInv, TypeOK
<1>2. old \in Row
    BY <1>1
<1>3. /\ row \in Row /\ row.sku = old.sku /\ row.by = old.by
      /\ row.category = old.category
    BY <1>2 DEF Row
<1>4. products' = [products EXCEPT ![b] = (@ \ {old}) \cup {row}]
    BY DEF Deactivate
<1> HIDE DEF row
<1>5. products' \in [Databases -> SUBSET Row]
    BY <1>1, <1>3, <1>4
<1>6. ASSUME NEW d \in Databases
      PROVE  products'[d] = IF d = b THEN (products[d] \ {old}) \cup {row} ELSE products[d]
    BY <1>1, <1>4
<1>8. ASSUME NEW d \in Databases, NEW r \in products'[d], NEW q \in products'[d], r.sku = q.sku
      PROVE  r = q
  <2>1. \A x, y \in products[d] : x.sku = y.sku => x = y
      BY DEF IInv, SKUsUnique
  <2>2. CASE d = b
    <3>1. /\ r \in (products[d] \ {old}) \cup {row}
          /\ q \in (products[d] \ {old}) \cup {row}
        BY <1>6, <2>2
    <3> QED
        BY <1>3, <1>8, <2>1, <2>2, <3>1
  <2> QED
      BY <1>6, <1>8, <2>1, <2>2
<1>9. ProductsOK
    BY <1>5, <1>8 DEF ProductsOK, SKUsUnique
<1>10. RowsStay
    BY <1>3, <1>6 DEF RowsStay
<1>11. RowsCome
    BY <1>3, <1>6 DEF RowsCome
<1> QED
    BY <1>9, <1>10, <1>11

LEMMA ProductsStep ==
    ASSUME IInv, [Next]_vars
    PROVE  ProductsOK /\ RowsStay /\ RowsCome
<1>1. CASE UNCHANGED products
  <2>1. products' \in [Databases -> SUBSET Row]
      BY <1>1 DEF IInv, TypeOK
  <2>2. SKUsUnique'
      BY <1>1 DEF IInv, SKUsUnique
  <2> QED
      BY <1>1, <2>1, <2>2 DEF ProductsOK, RowsStay, RowsCome
<1> QED
    BY <1>1, ProductsChange, ProductsAfterAdd, ProductsAfterDeactivate

-----------------------------------------------------------------------------
(* What a step does to the rest. *)

\* p has dealt with an entry.
Reports(p, outcome) ==
    /\ Seeding(p) /\ outcome \in Outcome
    /\ Skip(p, outcome)
    /\ outcome = "created" => Create(p)
    /\ outcome = "exists" => Taken(target[p], Current(p).sku)
    /\ outcome = "invalid" => ~ ValidCategory(Current(p))
    /\ UNCHANGED <<pc, target>>

\* p ends.
Ends(p, place) ==
    /\ pc[p] = "insert"
    /\ place \in {"done", "killed"} /\ (place = "done" => ~ Seeding(p))
    /\ GoTo(p, place)
    /\ UNCHANGED <<target, report>>

\* Nothing happens to any seeder.
SeedersRest == UNCHANGED <<pc, target, report>>

LEMMA StepShape ==
    ASSUME [Next]_vars
    PROVE  /\ UNCHANGED inputs
           /\ \/ \E p \in Seeders : LoadConfig(p)
              \/ \E p \in Seeders, outcome \in Outcome : Reports(p, outcome)
              \/ \E p \in Seeders, place \in {"done", "killed"} : Ends(p, place)
              \/ SeedersRest
<1> DEFINE Goal == /\ UNCHANGED inputs
                   /\ \/ \E p \in Seeders : LoadConfig(p)
                      \/ \E p \in Seeders, outcome \in Outcome : Reports(p, outcome)
                      \/ \E p \in Seeders, place \in {"done", "killed"} : Ends(p, place)
                      \/ SeedersRest
<1> HIDE DEF Goal
<1> SUFFICES Goal
    BY DEF Goal
<1>1. ASSUME NEW p \in Seeders, LoadConfig(p)
      PROVE  Goal
    BY <1>1 DEF Goal, LoadConfig
<1>2. ASSUME NEW p \in Seeders, SkipInvalid(p)
      PROVE  Goal
  <2>1. Reports(p, "invalid") /\ UNCHANGED inputs
      BY <1>2 DEF SkipInvalid, Reports, Outcome
  <2> QED
      BY <2>1 DEF Goal, Outcome
<1>3. ASSUME NEW p \in Seeders, Create(p)
      PROVE  Goal
  <2>1. Reports(p, "created") /\ UNCHANGED inputs
      BY <1>3 DEF Create, CanCreate, Reports, Outcome
  <2> QED
      BY <2>1 DEF Goal, Outcome
<1>4. ASSUME NEW p \in Seeders, CreateTaken(p)
      PROVE  Goal
  <2>1. Reports(p, "exists") /\ UNCHANGED inputs
      BY <1>4 DEF CreateTaken, Reports, Outcome
  <2> QED
      BY <2>1 DEF Goal, Outcome
<1>5. ASSUME NEW p \in Seeders, CreateFails(p)
      PROVE  Goal
  <2>1. Reports(p, "error") /\ UNCHANGED inputs
      BY <1>5 DEF CreateFails, Reports, Outcome
  <2> QED
      BY <2>1 DEF Goal, Outcome
<1>6. ASSUME NEW p \in Seeders, Done(p) \/ Killed(p)
      PROVE  Goal
  <2>1. (Ends(p, "done") \/ Ends(p, "killed")) /\ UNCHANGED inputs
      BY <1>6 DEF Done, Killed, Ends
  <2> QED
      BY <2>1 DEF Goal
<1>7. ASSUME NEW d \in Databases, NEW row, Deactivate(d, row)
      PROVE  Goal
    BY <1>7 DEF Goal, Deactivate, SeedersRest
<1>8. CASE UNCHANGED vars
    BY <1>8 DEF Goal, vars, SeedersRest, inputs
<1> QED
    BY <1>1, <1>2, <1>3, <1>4, <1>5, <1>6, <1>7, <1>8 DEF Next, Finished

\* What a seeder said stays true whatever anyone does to the table.
LEMMA SaidStaysTrue ==
    ASSUME IInv, [Next]_vars, NEW p \in Seeders, NEW i \in DOMAIN report[p],
           target'[p] = target[p], report'[p][i] = report[p][i]
    PROVE  Reported(p, i)'
<1>1. Reported(p, i)
    BY DEF IInv
<1>2. file' = file
    BY StepShape DEF inputs
<1>3. report[p] \in Seq(Outcome)
    BY DEF IInv, TypeOK
<1>4. report[p] # <<>>
    BY <1>3
<1>5. target[p] \in Databases
    BY <1>4 DEF IInv, Placed
<1>6. \A row \in products[target[p]] : \E new \in products'[target[p]] :
         new.sku = row.sku /\ new.by = row.by /\ new.category = row.category
    BY <1>5, ProductsStep DEF RowsStay
<1> DEFINE e == file[p][i]
<1>7. /\ e' = e
      /\ report[p][i] = "created" =>
            \E row \in products[target[p]] :
                row.sku = e.sku /\ row.by = p /\ row.category = e.category
      /\ report[p][i] = "exists" => \E row \in products[target[p]] : row.sku = e.sku
      /\ report[p][i] = "invalid" => ~ ValidCategory(e)
    BY <1>1, <1>2 DEF Reported, Taken
<1> HIDE DEF e
<1>8. /\ report'[p][i] = "created" =>
            \E row \in products'[target'[p]] :
                row.sku = e.sku /\ row.by = p /\ row.category = e.category
      /\ report'[p][i] = "exists" => \E row \in products'[target'[p]] : row.sku = e.sku
      /\ report'[p][i] = "invalid" => ~ ValidCategory(e)
    BY <1>6, <1>7
<1> QED
    BY <1>2, <1>8 DEF Reported, Taken, ValidCategory, e

\* What it says of the next entry is true.
LEMMA SaysTrue ==
    ASSUME IInv, [Next]_vars, NEW p \in Seeders, NEW outcome, Reports(p, outcome)
    PROVE  LET n == Len(report[p]) + 1 IN
           /\ report' = [report EXCEPT ![p] = Append(report[p], outcome)]
           /\ DOMAIN report'[p] = DOMAIN report[p] \cup {n}
           /\ \A i \in DOMAIN report[p] : report'[p][i] = report[p][i]
           /\ Len(report'[p]) = n /\ n <= Len(file[p]) /\ report'[p] \in Seq(Outcome)
           /\ \A i \in DOMAIN report'[p] : i = n => Reported(p, i)'
<1> DEFINE n == Len(report[p]) + 1
           e == Current(p)
<1>1. report[p] \in Seq(Outcome) /\ report \in [Seeders -> Seq(Outcome)] /\ outcome \in Outcome
    BY DEF IInv, TypeOK, Reports
<1>2. /\ n \in DOMAIN file[p] /\ e = file[p][n] /\ e \in Entry
      /\ file[p] \in Seq(Entry)
    BY CurrentIsEntry DEF IInv, TypeOK, Reports
<1>3. report' = [report EXCEPT ![p] = Append(report[p], outcome)]
    BY DEF Reports, Skip
<1>4. report'[p] = Append(report[p], outcome)
    BY <1>1, <1>3
<1>5. /\ DOMAIN report'[p] = DOMAIN report[p] \cup {n} /\ report'[p] \in Seq(Outcome)
      /\ \A i \in DOMAIN report[p] : report'[p][i] = report[p][i]
      /\ Len(report'[p]) = n /\ report'[p][n] = outcome
    BY <1>1, <1>4
<1>6. file' = file /\ target' = target
    BY StepShape DEF inputs, Reports
<1>7. target[p] \in Databases
    BY DEF IInv, Placed, Reports, Seeding
<1>8. ASSUME outcome = "created"
      PROVE  \E row \in products'[target[p]] :
                row.sku = e.sku /\ row.by = p /\ row.category = e.category
  <2>1. CanCreate(p) /\ InsertRow(p)
      BY <1>8 DEF Reports, Create
  <2>2. PICK row \in Row :
           /\ row.by = p /\ row.sku = e.sku /\ row.category = e.category
           /\ products' = [products EXCEPT ![target[p]] = @ \cup {row}]
      BY <2>1, InsertAdds DEF Adds
  <2>3. row \in products'[target[p]]
      BY <1>7, <2>2 DEF IInv, TypeOK
  <2> QED
      BY <2>2, <2>3
<1>9. ASSUME outcome = "exists"
      PROVE  \E row \in products'[target[p]] : row.sku = e.sku
  <2>1. \E row \in products[target[p]] : row.sku = e.sku
      BY <1>9 DEF Reports, Taken
  <2> QED
      BY <1>7, <2>1, ProductsStep DEF RowsStay
<1>10. outcome = "invalid" => ~ ValidCategory(e)
    BY DEF Reports
<1>11. /\ report'[p][n] = "created" =>
             \E row \in products'[target'[p]] :
                row.sku = e.sku /\ row.by = p /\ row.category = e.category
       /\ report'[p][n] = "exists" => \E row \in products'[target'[p]] : row.sku = e.sku
       /\ report'[p][n] = "invalid" => ~ ValidCategory(e)
    BY <1>5, <1>6, <1>8, <1>9, <1>10
<1>12. e = file'[p][n]
    BY <1>2, <1>6
<1> HIDE DEF e
<1>13. ASSUME NEW i \in DOMAIN report'[p], i = n
       PROVE  Reported(p, i)'
  <2>1. e = file'[p][i]
      BY <1>12, <1>13
  <2>2. /\ report'[p][i] = "created" =>
              \E row \in products'[target'[p]] :
                 row.sku = e.sku /\ row.by = p /\ row.category = e.category
        /\ report'[p][i] = "exists" => \E row \in products'[target'[p]] : row.sku = e.sku
        /\ report'[p][i] = "invalid" => ~ ValidCategory(e)
      BY <1>11, <1>13
  <2> QED
      BY <2>1, <2>2 DEF Reported, Taken, ValidCategory
<1>14. n <= Len(file[p])
    BY <1>2
<1> QED
    BY <1>3, <1>5, <1>13, <1>14

\* Where a seeder writes is settled once, and settled as it was asked.
TargetKept(p) ==
    /\ target[p] # NONE => target'[p] = target[p]
    /\ target'[p] # NONE => target'[p] \in AskedFor(p)

SeedersOK ==
    /\ pc' \in [Seeders -> {"load", "insert", "done", "failed", "killed"}]
    /\ target' \in [Seeders -> Databases \cup {NONE}]
    /\ report' \in [Seeders -> Seq(Outcome)]
    /\ \A p \in Seeders :
          TargetKept(p) /\ Placed(p)' /\ \A i \in DOMAIN report'[p] : Reported(p, i)'

LEMMA SeederIdle ==
    ASSUME IInv, [Next]_vars, NEW p \in Seeders,
           pc'[p] = pc[p], target'[p] = target[p], report'[p] = report[p]
    PROVE  TargetKept(p) /\ Placed(p)' /\ \A i \in DOMAIN report'[p] : Reported(p, i)'
<1>1. file' = file
    BY StepShape DEF inputs
<1>2. Placed(p)'
    BY <1>1 DEF IInv, Placed
<1>3. TargetKept(p)
    BY DEF IInv, Asked, TargetKept
<1>4. \A i \in DOMAIN report'[p] : Reported(p, i)'
    BY SaidStaysTrue
<1> QED
    BY <1>2, <1>3, <1>4

LEMMA LoadSettles ==
    ASSUME IInv, [Next]_vars, NEW p \in Seeders, LoadConfig(p)
    PROVE  SeedersOK
<1> DEFINE cfg == Load(environ[p], dotenv)
<1>1. /\ pc \in [Seeders -> {"load", "insert", "done", "failed", "killed"}]
      /\ target \in [Seeders -> Databases \cup {NONE}]
      /\ report \in [Seeders -> Seq(Outcome)] /\ file \in [Seeders -> Seq(Entry)]
      /\ report' = report /\ file' = file
      /\ environ \in [Seeders -> Environment] /\ dotenv \in Seq(Line)
    BY DEF IInv, TypeOK, LoadConfig, inputs
<1>2. pc[p] = "load" /\ report[p] = <<>> /\ target[p] = NONE
    BY DEF IInv, Placed, LoadConfig
<1>3. NONE \notin Databases
    BY CatalogueAssumption
<1>4. \/ /\ cfg.url \in Databases /\ cfg.url \in AskedFor(p)
         /\ target' = [target EXCEPT ![p] = cfg.url]
         /\ pc' = [pc EXCEPT ![p] = "insert"]
      \/ /\ pc' = [pc EXCEPT ![p] = "done"] /\ file[p] = <<>> /\ target' = target
      \/ /\ pc' = [pc EXCEPT ![p] = "failed"] /\ target' = target
    BY <1>1, ConnectsWhereAsked DEF LoadConfig, GoTo, Connects
<1> HIDE DEF cfg
<1>5. /\ pc' \in [Seeders -> {"load", "insert", "done", "failed", "killed"}]
      /\ target' \in [Seeders -> Databases \cup {NONE}]
      /\ report' \in [Seeders -> Seq(Outcome)]
    BY <1>1, <1>4
<1>6. ASSUME NEW q \in Seeders, q # p
      PROVE  TargetKept(q) /\ Placed(q)' /\ \A i \in DOMAIN report'[q] : Reported(q, i)'
  <2>1. pc'[q] = pc[q] /\ target'[q] = target[q] /\ report'[q] = report[q]
      BY <1>1, <1>4, <1>6
  <2> QED
      BY <2>1, SeederIdle
<1>7. TargetKept(p)
    BY <1>1, <1>2, <1>3, <1>4 DEF TargetKept
<1>8. Placed(p)'
    BY <1>1, <1>2, <1>4 DEF Placed
<1>9. DOMAIN report'[p] = {}
    BY <1>1, <1>2
<1> QED
    BY <1>5, <1>6, <1>7, <1>8, <1>9 DEF SeedersOK

LEMMA ReportSettles ==
    ASSUME IInv, [Next]_vars, NEW p \in Seeders, NEW outcome, Reports(p, outcome)
    PROVE  SeedersOK
<1> DEFINE n == Len(report[p]) + 1
<1>1. /\ pc \in [Seeders -> {"load", "insert", "done", "failed", "killed"}]
      /\ target \in [Seeders -> Databases \cup {NONE}]
      /\ report \in [Seeders -> Seq(Outcome)]
    BY DEF IInv, TypeOK
<1>2. pc' = pc /\ target' = target /\ pc[p] = "insert" /\ file' = file
    BY StepShape DEF Reports, Seeding, inputs
<1>3. /\ report' = [report EXCEPT ![p] = Append(report[p], outcome)]
      /\ DOMAIN report'[p] = DOMAIN report[p] \cup {n}
      /\ \A i \in DOMAIN report[p] : report'[p][i] = report[p][i]
      /\ Len(report'[p]) = n /\ n <= Len(file[p]) /\ report'[p] \in Seq(Outcome)
      /\ \A i \in DOMAIN report'[p] : i = n => Reported(p, i)'
    BY SaysTrue
<1> HIDE DEF n
<1>4. report' \in [Seeders -> Seq(Outcome)]
    BY <1>1, <1>3
<1>5. ASSUME NEW q \in Seeders, q # p
      PROVE  TargetKept(q) /\ Placed(q)' /\ \A i \in DOMAIN report'[q] : Reported(q, i)'
  <2>1. pc'[q] = pc[q] /\ target'[q] = target[q] /\ report'[q] = report[q]
      BY <1>1, <1>2, <1>3, <1>5
  <2> QED
      BY <2>1, SeederIdle
<1>6. TargetKept(p)
    BY <1>2 DEF TargetKept, IInv, Asked
<1>7. Placed(p)'
    BY <1>2, <1>3 DEF Placed, IInv
<1>8. \A i \in DOMAIN report'[p] : Reported(p, i)'
  <2> TAKE i \in DOMAIN report'[p]
  <2>1. CASE i = n
      BY <1>3, <2>1
  <2>2. CASE i # n
    <3>1. i \in DOMAIN report[p] /\ report'[p][i] = report[p][i]
        BY <1>3, <2>2
    <3> QED
        BY <1>2, <3>1, SaidStaysTrue
  <2> QED
      BY <2>1, <2>2
<1> QED
    BY <1>1, <1>2, <1>4, <1>5, <1>6, <1>7, <1>8 DEF SeedersOK

LEMMA EndSettles ==
    ASSUME IInv, [Next]_vars, NEW p \in Seeders, NEW place \in {"done", "killed"},
           Ends(p, place)
    PROVE  SeedersOK
<1>1. /\ pc \in [Seeders -> {"load", "insert", "done", "failed", "killed"}]
      /\ target \in [Seeders -> Databases \cup {NONE}]
      /\ report \in [Seeders -> Seq(Outcome)] /\ file \in [Seeders -> Seq(Entry)]
    BY DEF IInv, TypeOK
<1>2. /\ pc' = [pc EXCEPT ![p] = place] /\ target' = target /\ report' = report
      /\ pc[p] = "insert" /\ file' = file /\ (place = "done" => ~ Seeding(p))
    BY StepShape DEF Ends, GoTo, inputs
<1>3. ASSUME NEW q \in Seeders, q # p
      PROVE  TargetKept(q) /\ Placed(q)' /\ \A i \in DOMAIN report'[q] : Reported(q, i)'
  <2>1. pc'[q] = pc[q] /\ target'[q] = target[q] /\ report'[q] = report[q]
      BY <1>1, <1>2, <1>3
  <2> QED
      BY <2>1, SeederIdle
<1>4. TargetKept(p)
    BY <1>2 DEF TargetKept, IInv, Asked
<1>5. Placed(p)'
  <2>1. Len(report[p]) \in Nat /\ Len(file[p]) \in Nat
      BY <1>1
  <2> QED
      BY <1>1, <1>2, <2>1 DEF Placed, IInv, Seeding
<1>6. \A i \in DOMAIN report'[p] : Reported(p, i)'
    BY <1>2, SaidStaysTrue
<1>7. pc' \in [Seeders -> {"load", "insert", "done", "failed", "killed"}]
    BY <1>1, <1>2
<1> QED
    BY <1>1, <1>2, <1>3, <1>4, <1>5, <1>6, <1>7 DEF SeedersOK

LEMMA SeedersStep ==
    ASSUME IInv, [Next]_vars
    PROVE  SeedersOK
<1>1. CASE SeedersRest
  <2>1. pc' = pc /\ target' = target /\ report' = report
      BY <1>1 DEF SeedersRest
  <2>2. \A p \in Seeders :
           TargetKept(p) /\ Placed(p)' /\ \A i \in DOMAIN report'[p] : Reported(p, i)'
      BY <2>1, SeederIdle
  <2> QED
      BY <2>1, <2>2 DEF SeedersOK, IInv, TypeOK
<1> QED
    BY <1>1, StepShape, LoadSettles, ReportSettles, EndSettles

LEMMA AskedStep ==
    ASSUME IInv, [Next]_vars
    PROVE  Asked'
<1>1. environ' = environ /\ dotenv' = dotenv
    BY StepShape DEF inputs
<1>2. \A p \in Seeders : AskedFor(p)' = AskedFor(p)
    BY <1>1 DEF AskedFor
<1>3. \A p \in Seeders : TargetKept(p)
    BY SeedersStep DEF SeedersOK
<1>4. \A p \in Seeders : target'[p] # NONE => target'[p] \in AskedFor(p)'
    BY <1>2, <1>3 DEF TargetKept
<1>5. ASSUME NEW d \in Databases, NEW row \in products'[d]
      PROVE  target'[row.by] = d
  <2>1. row.by \in Seeders
      BY ProductsStep DEF ProductsOK, Row
  <2>2. target[row.by] = d
      BY ProductsStep DEF RowsCome, IInv, Asked
  <2>3. d # NONE
      BY CatalogueAssumption
  <2> QED
      BY <1>3, <2>1, <2>2, <2>3 DEF TargetKept
<1> QED
    BY <1>4, <1>5 DEF Asked

-----------------------------------------------------------------------------
(* The theorems. *)

LEMMA InitEstablishesIInv == Init => IInv
<1> SUFFICES ASSUME Init PROVE IInv
    OBVIOUS
<1>1. TypeOK
  <2>1. environ \in [Seeders -> Environment] /\ dotenv \in Seq(Line)
      BY CatalogueAssumption DEF Init
  <2>2. file \in [Seeders -> Seq(Entry)]
      BY FilesAssumption DEF Init
  <2> QED
      BY <2>1, <2>2 DEF Init, TypeOK
<1>2. SKUsUnique
    BY DEF Init, SKUsUnique
<1>3. \A p \in Seeders : Placed(p)
    BY <1>1 DEF Init, Placed, TypeOK
<1>4. \A p \in Seeders : DOMAIN report[p] = {}
    BY DEF Init
<1>5. Asked
    BY DEF Init, Asked
<1> QED
    BY <1>1, <1>2, <1>3, <1>4, <1>5 DEF IInv

LEMMA NextPreservesIInv == IInv /\ [Next]_vars => IInv'
<1> SUFFICES ASSUME IInv, [Next]_vars PROVE IInv'
    OBVIOUS
<1>1. TypeOK'
  <2>1. UNCHANGED inputs
      BY StepShape
  <2> QED
      BY <2>1, ProductsStep, SeedersStep
      DEF IInv, TypeOK, inputs, ProductsOK, SeedersOK
<1> QED
    BY <1>1, ProductsStep, SeedersStep, AskedStep DEF IInv, ProductsOK, SeedersOK

\* The inductive invariant holds of every behaviour.
THEOREM Invariant == Spec => []IInv
BY InitEstablishesIInv, NextPreservesIInv, PTL DEF Spec

\* cmd/seedproducts and the owner keep to the types, in particular every row
\* satisfies the columns' types and CHECKs.
THEOREM TypeCorrect == Spec => []TypeOK
<1>1. IInv => TypeOK
    BY DEF IInv
<1> QED
    BY <1>1, Invariant, PTL

\* What a seeder reports is so, whoever else seeds, and however often and
\* wherever INSERTs fail or programs die ("Re-running is safe").
THEOREM ReportsAreTrue == Spec => []ReportIsTrue
<1>1. IInv => ReportIsTrue
  <2> SUFFICES ASSUME IInv, NEW p \in Seeders, NEW i \in DOMAIN report[p]
               PROVE  LET e == file[p][i]  rows == RowsOf(target[p], e.sku) IN
                      /\ report[p][i] = "created" =>
                            \E row \in rows :
                                rows = {row} /\ row.by = p /\ row.category = e.category
                      /\ report[p][i] = "exists" => Cardinality(rows) = 1
                      /\ report[p][i] = "invalid" => ~ValidCategory(e)
                      /\ pc[p] = "done" => Len(report[p]) = Len(file[p])
      BY DEF ReportIsTrue
  <2> DEFINE e == file[p][i]
             rows == RowsOf(target[p], e.sku)
  <2>1. report[p] # <<>>
      BY DEF IInv, TypeOK
  <2>2. target[p] \in Databases
      BY <2>1 DEF IInv, Placed
  <2>3. \A row \in rows : rows = {row}
      BY <2>2 DEF IInv, SKUsUnique, RowsOf
  <2>4. Reported(p, i)
      BY DEF IInv
  <2>5. ASSUME report[p][i] = "created"
        PROVE  \E row \in rows : rows = {row} /\ row.by = p /\ row.category = e.category
    <3>1. \E row \in rows : row.by = p /\ row.category = e.category
        BY <2>4, <2>5 DEF Reported, RowsOf
    <3> QED
        BY <2>3, <3>1
  <2>6. ASSUME report[p][i] = "exists"
        PROVE  Cardinality(rows) = 1
    <3>1. PICK row \in rows : TRUE
        BY <2>4, <2>6 DEF Reported, Taken, RowsOf
    <3>2. rows = {row}
        BY <2>3
    <3> QED
        BY <3>2, FS_Singleton
  <2>7. pc[p] = "done" => Len(report[p]) = Len(file[p])
      BY DEF IInv, Placed
  <2> QED
      BY <2>4, <2>5, <2>6, <2>7 DEF Reported
<1> QED
    BY <1>1, Invariant, PTL

\* Rows go to the database the operator asked for: the environment's, or,
\* where it names none, the .env file's, for any environments and files.
THEOREM WrittenWhereAsked == Spec => []EnvironmentWins
<1>1. IInv => EnvironmentWins
  <2> SUFFICES ASSUME IInv PROVE EnvironmentWins
      OBVIOUS
  <2>1. ASSUME NEW d \in Databases, NEW row \in products[d]
        PROVE  d \in AskedFor(row.by)
    <3>1. row.by \in Seeders
        BY DEF IInv, TypeOK, Row
    <3>2. target[row.by] = d /\ d # NONE
        BY CatalogueAssumption DEF IInv, Asked
    <3> QED
        BY <3>1, <3>2 DEF IInv, Asked
  <2> QED
      BY <2>1 DEF IInv, Asked, EnvironmentWins
<1> QED
    BY <1>1, Invariant, PTL

\* A product the owner took off the list does not come back, however often
\* and by whomever its SKU is seeded again.
THEOREM WithdrawnIsGone == Spec => WithdrawnStaysOff
<1>1. ASSUME IInv, [Next]_vars, NEW d \in Databases, NEW sku \in SKUs, OffTheList(d, sku)
      PROVE  OffTheList(d, sku)'
  <2>1. PICK row \in products[d] : row.sku = sku
      BY <1>1 DEF OffTheList, RowsOf
  <2>2. RowsOf(d, sku)' # {}
      BY <1>1, <2>1, ProductsStep DEF RowsStay, RowsOf
  <2>3. ASSUME NEW new \in products'[d], new.sku = sku
        PROVE  ~new.active
    <3>1. products \in [Databases -> SUBSET Row]
        BY <1>1 DEF IInv, TypeOK
    <3>2. \A old \in products[d] : old.sku = sku => ~old.active
        BY <1>1 DEF OffTheList, RowsOf
    <3>3. CASE UNCHANGED products
        BY <2>3, <3>2, <3>3
    <3>4. ASSUME NEW p \in Seeders, pc[p] = "insert", Adds(p)
          PROVE  new \in products[d]
      <4>1. PICK added \in Row :
               /\ ~Taken(target[p], added.sku)
               /\ products' = [products EXCEPT ![target[p]] = @ \cup {added}]
          BY <3>4 DEF Adds
      <4>2. Taken(d, sku)
          BY <2>1 DEF Taken
      <4> QED
          BY <2>3, <3>1, <4>1, <4>2
    <3>5. ASSUME NEW b \in Databases, NEW old \in products[b], Deactivate(b, old)
          PROVE  new \in products[d] \/ ~new.active
      <4>1. products' = [products EXCEPT ![b] = (@ \ {old}) \cup {[old EXCEPT !.active = FALSE]}]
          BY <3>5 DEF Deactivate
      <4>2. old \in Row
          BY <3>1
      <4>3. [old EXCEPT !.active = FALSE].active = FALSE
          BY <4>2 DEF Row
      <4> QED
          BY <2>3, <3>1, <4>1, <4>3
    <3> QED
        BY <1>1, <2>3, <3>2, <3>3, <3>4, <3>5, ProductsChange
  <2> QED
      BY <2>2, <2>3 DEF OffTheList, RowsOf
<1>2. IInv /\ [Next]_vars =>
         [\A d \in Databases, sku \in SKUs : OffTheList(d, sku) => OffTheList(d, sku)']_vars
    BY <1>1
<1> QED
    BY <1>2, Invariant, PTL DEF Spec, WithdrawnStaysOff
=============================================================================
