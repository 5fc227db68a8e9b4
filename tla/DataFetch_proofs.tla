-------------------------- MODULE DataFetch_proofs --------------------------
(***************************************************************************)
(* Proofs about DataFetch: a fetch attaches to every museum of the list    *)
(* what the services know of it, and ends within its budget of requests.   *)
(***************************************************************************)
EXTENDS FetchInvariant, SequenceLemmas

LEMMA Settings ==
    /\ Threshold \in Nat
    /\ ChunkSize \in Nat /\ 1 <= ChunkSize
    /\ MaxAttempts \in Nat /\ 1 <= MaxAttempts
BY SettingsAssumption

LEMMA Nulls == Null \notin Pages /\ Null \notin Items /\ Null \notin Years /\ Null \notin Nat
BY WorldAssumption

(* What the services answer about pages.                                   *)
LEMMA WorldTypes ==
    ASSUME world \in Worlds
    PROVE  /\ world \in WorldType
           /\ world.page \in Seq(TableRows)
           /\ \A p \in Pages : Canonical(p) \in Pages /\ KnownPage(p) \in Pages
           /\ \A p \in Pages : world.itemOf[p] \in Items \cup {Null}
           /\ world.facts \in SUBSET Facts
           /\ IsFiniteSet(world.facts)
<1>1. world \in WorldType /\ IsFiniteSet(world.facts)
  BY WorldAssumption
<1>2. /\ world.page \in Seq(TableRows)
      /\ world.normalized \in [Pages -> Pages]
      /\ world.redirects \in [Pages -> Pages]
      /\ world.itemOf \in [Pages -> Items \cup {Null}]
      /\ world.facts \in SUBSET Facts
  BY <1>1 DEF WorldType
<1>3. \A p \in Pages : Canonical(p) \in Pages
  BY <1>2 DEF Canonical
<1> QED BY <1>1, <1>2, <1>3 DEF KnownPage

-----------------------------------------------------------------------------
(* Places of a sequence, and what it has there.                            *)
LEMMA AscendingPlaces ==
    ASSUME NEW n \in Nat, NEW I \in SUBSET (1 .. n)
    PROVE  /\ Cardinality(I) \in 0 .. n
           /\ DOMAIN Ascending(I) = 1 .. Cardinality(I)
           /\ \A k \in 1 .. Cardinality(I) : Ascending(I)[k] \in I
<1>1. IsFiniteSet(I) /\ I \in SUBSET Nat /\ Cardinality(I) <= n
  <2>1. IsFiniteSet(1 .. n) /\ Cardinality(1 .. n) = n
    BY FS_Interval
  <2>2. IsFiniteSet(I) /\ Cardinality(I) <= Cardinality(1 .. n)
    BY <2>1, FS_Subset
  <2> QED BY <2>1, <2>2
<1>2. Ascending(I) \in SetToSeqs(I)
  BY <1>1, AscendingExists DEF Ascending, IsSorted
<1>3. /\ Ascending(I) \in Seq(I)
      /\ Cardinality(I) \in Nat
      /\ Len(Ascending(I)) = Cardinality(I)
      /\ DOMAIN Ascending(I) = 1 .. Cardinality(I)
  BY <1>1, <1>2, Listing
<1> QED BY <1>1, <1>3, ElementOfSeq

LEMMA InOrderElements ==
    ASSUME NEW S, NEW s \in Seq(S), NEW I \in SUBSET DOMAIN s
    PROVE  /\ InOrder(s, I) \in Seq(S)
           /\ Len(InOrder(s, I)) = Cardinality(I)
           /\ Cardinality(I) \in 0 .. Len(s)
           /\ DOMAIN InOrder(s, I) = 1 .. Cardinality(I)
           /\ \A k \in 1 .. Cardinality(I) :
                  Ascending(I)[k] \in I /\ InOrder(s, I)[k] = s[Ascending(I)[k]]
<1>1. Len(s) \in Nat /\ DOMAIN s = 1 .. Len(s)
  BY LenProperties
<1> DEFINE n == Cardinality(I)
<1>2. /\ n \in 0 .. Len(s)
      /\ DOMAIN Ascending(I) = 1 .. n
      /\ \A k \in 1 .. n : Ascending(I)[k] \in I
  BY <1>1, AscendingPlaces
<1> HIDE DEF n
<1>3. InOrder(s, I) = [k \in 1 .. n |-> s[Ascending(I)[k]]]
  BY <1>2 DEF InOrder
<1>4. \A k \in 1 .. n : s[Ascending(I)[k]] \in S
  BY <1>1, <1>2, ElementOfSeq
<1>5. n \in Nat /\ InOrder(s, I) \in [1 .. n -> S]
  BY <1>2, <1>3, <1>4
<1>6. InOrder(s, I) \in Seq(S)
  BY <1>5, SeqDef
<1>7. Len(InOrder(s, I)) = n
  BY <1>5, <1>6, LenProperties
<1> QED BY <1>2, <1>3, <1>6, <1>7 DEF n

(* The entries of a list page: a count is known if and only if its year is.*)
LEMMA ListPageType ==
    ASSUME world \in Worlds
    PROVE  /\ ListPage \in Seq(EntryType)
           /\ Len(ListPage) \in Nat
           /\ \A k \in DOMAIN ListPage : ListPage[k].count # Null => ListPage[k].year # Null
<1> DEFINE page == world.page
           linked == {k \in DOMAIN page : page[k].title # Null}
           seen(k) == {Folded[page[j].title] : j \in {j \in linked : j < k}}
           first == {k \in linked : Folded[page[k].title] \notin seen(k)}
           rows1 == InOrder(page, first)
<1>1. page \in Seq(TableRows) /\ DOMAIN page = 1 .. Len(page)
  BY WorldTypes, LenProperties
<1>2. first \in SUBSET DOMAIN page /\ \A k \in first : page[k].title # Null
  OBVIOUS
<1>3. ListPage = [k \in DOMAIN rows1 |-> Entry(rows1[k])]
  BY DEF ListPage, ParseListPage, Map
<1> HIDE DEF first, page
<1> DEFINE n == Cardinality(first)
<1>4. /\ n \in Nat
      /\ DOMAIN rows1 = 1 .. n
      /\ \A k \in 1 .. n : Ascending(first)[k] \in first
                           /\ rows1[k] = page[Ascending(first)[k]]
  BY <1>1, <1>2, InOrderElements
<1> HIDE DEF rows1, n
<1>5. \A k \in 1 .. n : rows1[k] \in TableRows /\ rows1[k].title # Null
  BY <1>1, <1>2, <1>4, ElementOfSeq
<1>6. ASSUME NEW k \in 1 .. n
      PROVE  /\ Entry(rows1[k]) \in EntryType
             /\ Entry(rows1[k]).count # Null => Entry(rows1[k]).year # Null
  BY <1>5 DEF Entry, EntryType, TableRows
<1>7. ListPage \in [1 .. n -> EntryType]
  BY <1>3, <1>4, <1>6
<1>8. ListPage \in Seq(EntryType)
  BY <1>4, <1>7, SeqDef
<1>9. \A k \in DOMAIN ListPage : ListPage[k].count # Null => ListPage[k].year # Null
  BY <1>3, <1>4, <1>6
<1> QED BY <1>8, <1>9, LenProperties

(* The entries over the threshold, where f changes no count.               *)
Over(es) == {k \in DOMAIN es : es[k].count # Null /\ es[k].count > Threshold}

LEMMA OverThresholdEntries ==
    ASSUME NEW es \in Seq(EntryType), NEW fs \in Seq(EntryType), Len(es) = Len(fs),
           \A k \in DOMAIN es : fs[k].count = es[k].count /\ fs[k].year = es[k].year,
           \A k \in DOMAIN es : es[k].count # Null => es[k].year # Null
    PROVE  /\ OverThreshold(es) \in Seq(EntryType)
           /\ OverThreshold(fs) \in Seq(EntryType)
           /\ Len(OverThreshold(fs)) = Len(OverThreshold(es))
           /\ Len(OverThreshold(es)) <= Len(es)
           /\ \A k \in DOMAIN OverThreshold(fs) :
                  \E i \in DOMAIN es :
                      /\ OverThreshold(es)[k] = es[i]
                      /\ OverThreshold(fs)[k] = fs[i]
                      /\ fs[i].count # Null
                      /\ fs[i].year # Null
<1> DEFINE I == Over(es)
           n == Cardinality(I)
<1>1. DOMAIN es = 1 .. Len(es) /\ DOMAIN fs = 1 .. Len(fs) /\ Len(es) \in Nat
  BY LenProperties
<1>2. Over(fs) = I
  BY <1>1 DEF Over
<1>3. OverThreshold(es) = InOrder(es, I) /\ OverThreshold(fs) = InOrder(fs, I)
  BY <1>2 DEF OverThreshold, Over
<1>4. I \in SUBSET DOMAIN es /\ I \in SUBSET DOMAIN fs /\ \A i \in I : es[i].count # Null
  BY <1>1 DEF Over
<1> HIDE DEF I
<1>5. /\ InOrder(es, I) \in Seq(EntryType)
      /\ Len(InOrder(es, I)) = n
      /\ n \in 0 .. Len(es)
      /\ DOMAIN InOrder(es, I) = 1 .. n
      /\ \A k \in 1 .. n : Ascending(I)[k] \in I /\ InOrder(es, I)[k] = es[Ascending(I)[k]]
  BY <1>4, InOrderElements
<1>6. /\ InOrder(fs, I) \in Seq(EntryType)
      /\ Len(InOrder(fs, I)) = n
      /\ DOMAIN InOrder(fs, I) = 1 .. n
      /\ \A k \in 1 .. n : InOrder(fs, I)[k] = fs[Ascending(I)[k]]
  BY <1>4, InOrderElements
<1> HIDE DEF n
<1>7. ASSUME NEW k \in 1 .. n
      PROVE  \E i \in DOMAIN es : /\ InOrder(es, I)[k] = es[i]
                                  /\ InOrder(fs, I)[k] = fs[i]
                                  /\ fs[i].count # Null
                                  /\ fs[i].year # Null
  <2> DEFINE i == Ascending(I)[k]
  <2>1. i \in I /\ i \in DOMAIN es /\ es[i].count # Null
    BY <1>4, <1>5
  <2>2. InOrder(es, I)[k] = es[i] /\ InOrder(fs, I)[k] = fs[i]
    BY <1>5, <1>6
  <2> HIDE DEF i
  <2> QED BY <2>1, <2>2
<1> QED BY <1>3, <1>5, <1>6, <1>7

-----------------------------------------------------------------------------
(* Chunks: the next one and the rest.                                      *)
LEMMA NextChunk ==
    ASSUME NEW S, todo \in Seq(S), todo # <<>>
    PROVE  /\ Chunk \in Seq(S)
           /\ Len(todo) \in Nat
           /\ Len(Chunk) \in 1 .. Len(todo)
           /\ Len(Chunk) = IF ChunkSize <= Len(todo) THEN ChunkSize ELSE Len(todo)
           /\ \A i \in 1 .. Len(Chunk) : Chunk[i] = todo[i]
<1> DEFINE n == Min({ChunkSize, Len(todo)})
<1>1. Len(todo) \in Nat /\ Len(todo) > 0
  BY EmptySeq
<1>2. n = IF ChunkSize <= Len(todo) THEN ChunkSize ELSE Len(todo)
  BY <1>1, Settings, MinOfTwo
<1>3. n \in 1 .. Len(todo)
  BY <1>1, <1>2, Settings
<1> HIDE DEF n
<1>4. \A i \in 1 .. n : todo[i] \in S
  BY <1>3, ElementOfSeq
<1>5. /\ SubSeq(todo, 1, n) \in Seq(S)
      /\ Len(SubSeq(todo, 1, n)) = n
      /\ \A i \in 1 .. n : SubSeq(todo, 1, n)[i] = todo[i]
  <2>1. /\ SubSeq(todo, 1, n) \in Seq(S)
        /\ Len(SubSeq(todo, 1, n)) = IF 1 <= n THEN n - 1 + 1 ELSE 0
        /\ \A i \in 1 .. n - 1 + 1 : SubSeq(todo, 1, n)[i] = todo[1 + i - 1]
    BY <1>3, <1>4, SubSeqProperties
  <2> QED BY <1>3, <2>1
<1> QED BY <1>1, <1>2, <1>3, <1>5 DEF Chunk, n

LEMMA RestOfTodo ==
    ASSUME NEW S, todo \in Seq(S), todo # <<>>, Answered
    PROVE  /\ todo' \in Seq(S)
           /\ Len(todo') \in Nat
           /\ Len(todo') = Len(todo) - Len(Chunk)
           /\ \A i \in 1 .. Len(todo') : todo'[i] = todo[Len(Chunk) + i]
<1> DEFINE c == Len(Chunk)
           n == Len(todo)
<1>1. n \in Nat /\ c \in 1 .. n
  BY NextChunk
<1>2. todo' = SubSeq(todo, c + 1, n)
  BY DEF Answered
<1> HIDE DEF c
<1>3. \A i \in c + 1 .. n : todo[i] \in S
  BY <1>1, ElementOfSeq
<1>4. /\ todo' \in Seq(S)
      /\ Len(todo') = IF c + 1 <= n THEN n - (c + 1) + 1 ELSE 0
      /\ \A i \in 1 .. n - (c + 1) + 1 : todo'[i] = todo[c + 1 + i - 1]
  BY <1>1, <1>2, <1>3, SubSeqProperties
<1> HIDE DEF n
<1>5. Len(todo') = n - c
  BY <1>1, <1>4
<1>6. \A i \in 1 .. n - c : todo'[i] = todo[c + i]
  <2>1. n - (c + 1) + 1 = n - c /\ \A i \in 1 .. n - c : c + 1 + i - 1 = c + i
    BY <1>1
  <2> QED BY <1>4, <2>1
<1> QED BY <1>1, <1>4, <1>5, <1>6 DEF c, n

(* Nothing is lost between the chunks and nothing is asked for twice.      *)
LEMMA RangeOfRest ==
    ASSUME NEW S, todo \in Seq(S), todo # <<>>, Answered
    PROVE  /\ Range(todo) = Range(Chunk) \cup Range(todo')
           /\ Range(Chunk) \in SUBSET S
           /\ IsInjective(todo) => /\ IsInjective(todo')
                                   /\ Range(Chunk) \cap Range(todo') = {}
<1> DEFINE c == Len(Chunk)
           n == Len(todo)
<1>1. /\ n \in Nat /\ c \in 1 .. n
      /\ DOMAIN todo = 1 .. n
      /\ DOMAIN Chunk = 1 .. c
      /\ DOMAIN todo' = 1 .. n - c
      /\ \A i \in 1 .. c : Chunk[i] = todo[i]
      /\ \A i \in 1 .. n - c : todo'[i] = todo[c + i]
  BY NextChunk, RestOfTodo, LenProperties
<1>2. Chunk \in Seq(S)
  BY NextChunk
<1>3. Range(Chunk) \in SUBSET S
  BY <1>2, RangeOfSeq
<1> HIDE DEF c, n
<1>4. \A i \in 1 .. n : i \in 1 .. c \/ (i - c \in 1 .. n - c /\ c + (i - c) = i)
  BY <1>1
<1>5. Range(todo) \subseteq Range(Chunk) \cup Range(todo')
  <2> SUFFICES ASSUME NEW i \in 1 .. n PROVE todo[i] \in Range(Chunk) \cup Range(todo')
    BY <1>1 DEF Range
  <2>1. CASE i \in 1 .. c
    BY <1>1, <2>1 DEF Range
  <2>2. CASE i - c \in 1 .. n - c /\ c + (i - c) = i
    <3>1. todo'[i - c] = todo[i]
      BY <1>1, <2>2
    <3> QED BY <1>1, <2>2, <3>1 DEF Range
  <2> QED BY <1>4, <2>1, <2>2
<1>6. \A i \in 1 .. n - c : c + i \in 1 .. n
  BY <1>1
<1>7. \A i \in 1 .. c : i \in 1 .. n
  BY <1>1
<1>8. Range(Chunk) \cup Range(todo') \subseteq Range(todo)
  BY <1>1, <1>6, <1>7 DEF Range
<1>9. ASSUME IsInjective(todo)
      PROVE  IsInjective(todo') /\ Range(Chunk) \cap Range(todo') = {}
  <2>1. \A i, j \in 1 .. n : todo[i] = todo[j] => i = j
    BY <1>1, <1>9 DEF IsInjective
  <2>2. \A i, j \in 1 .. n - c : todo'[i] = todo'[j] => i = j
    <3> SUFFICES ASSUME NEW i \in 1 .. n - c, NEW j \in 1 .. n - c, todo'[i] = todo'[j]
                 PROVE  i = j
      OBVIOUS
    <3>1. c + i = c + j
      BY <1>1, <1>6, <2>1
    <3> QED BY <1>1, <3>1
  <2>3. \A i \in 1 .. c, j \in 1 .. n - c : Chunk[i] # todo'[j]
    <3> SUFFICES ASSUME NEW i \in 1 .. c, NEW j \in 1 .. n - c, Chunk[i] = todo'[j]
                 PROVE  FALSE
      OBVIOUS
    <3>1. i = c + j
      BY <1>1, <1>6, <1>7, <2>1
    <3> QED BY <1>1, <3>1
  <2> QED BY <1>1, <2>2, <2>3 DEF IsInjective, Range
<1> QED BY <1>3, <1>5, <1>8, <1>9

-----------------------------------------------------------------------------
(* How many chunks there are.                                              *)
LEMMA Products ==
    ASSUME NEW a \in Int, NEW b \in Int, NEW c \in Nat
    PROVE  /\ a * c \in Int
           /\ (a + b) * c = a * c + b * c
           /\ a <= b => a * c <= b * c
           /\ a < b => a * c + c <= b * c
OBVIOUS

LEMMA ChunksBounds ==
    ASSUME NEW n \in Nat
    PROVE  /\ Chunks(n) \in Int
           /\ Chunks(n) * ChunkSize <= n + ChunkSize - 1
           /\ n + ChunkSize - 1 < Chunks(n) * ChunkSize + ChunkSize
BY Settings DEF Chunks

LEMMA ChunksUnique ==
    ASSUME NEW n \in Nat, NEW q \in Int,
           q * ChunkSize <= n + ChunkSize - 1,
           n + ChunkSize - 1 < q * ChunkSize + ChunkSize
    PROVE  Chunks(n) = q
<1> DEFINE c == Chunks(n)
           a == c * ChunkSize
           b == q * ChunkSize
<1>1. /\ c \in Int
      /\ a \in Int /\ b \in Int
      /\ a <= n + ChunkSize - 1 /\ n + ChunkSize - 1 < a + ChunkSize
      /\ b <= n + ChunkSize - 1 /\ n + ChunkSize - 1 < b + ChunkSize
  BY ChunksBounds, Products, Settings
<1>2. /\ c < q => a + ChunkSize <= b
      /\ q < c => b + ChunkSize <= a
  BY <1>1, Products, Settings
<1> HIDE DEF a, b, c
<1>3. ~ (c < q) /\ ~ (q < c)
  BY <1>1, <1>2, Settings
<1> QED BY <1>1, <1>3 DEF c

LEMMA ChunksCounted ==
    /\ Chunks(0) = 0
    /\ \A n \in Nat : Chunks(n) \in Nat /\ (n > 0 => Chunks(n) >= 1)
    /\ \A m, n \in Nat : m <= n => Chunks(m) <= Chunks(n)
<1>1. Chunks(0) = 0
  <2>1. 0 * ChunkSize = 0
    BY Settings
  <2> QED BY <2>1, ChunksUnique, Settings
<1>2. ASSUME NEW m \in Nat, NEW n \in Nat, m <= n
      PROVE  Chunks(m) <= Chunks(n)
  <2> DEFINE a == Chunks(m)
             b == Chunks(n)
  <2>1. /\ a \in Int /\ b \in Int
        /\ a * ChunkSize \in Int /\ b * ChunkSize \in Int
        /\ a * ChunkSize <= m + ChunkSize - 1
        /\ n + ChunkSize - 1 < b * ChunkSize + ChunkSize
    BY ChunksBounds, Products, Settings
  <2>2. b < a => b * ChunkSize + ChunkSize <= a * ChunkSize
    BY <2>1, Products, Settings
  <2> HIDE DEF a, b
  <2>3. ~ (b < a)
    <3> DEFINE x == a * ChunkSize
               y == b * ChunkSize
    <3>1. /\ x \in Int /\ y \in Int /\ x <= m + ChunkSize - 1
          /\ n + ChunkSize - 1 < y + ChunkSize
          /\ b < a => y + ChunkSize <= x
      BY <2>1, <2>2
    <3> HIDE DEF x, y
    <3> QED BY <1>2, <3>1, Settings
  <2> QED BY <2>1, <2>3 DEF a, b
<1>3. ASSUME NEW n \in Nat PROVE Chunks(n) \in Nat
  <2>1. Chunks(0) <= Chunks(n)
    BY <1>2
  <2> QED BY <1>1, <2>1, ChunksBounds
<1>4. ASSUME NEW n \in Nat, n > 0 PROVE Chunks(n) >= 1
  <2>1. CASE Chunks(n) = 0
    <3>1. n + ChunkSize - 1 < 0 * ChunkSize + ChunkSize
      BY <2>1, ChunksBounds
    <3>2. 0 * ChunkSize = 0
      BY Settings
    <3> QED BY <1>4, <3>1, <3>2, Settings
  <2> QED BY <1>3, <2>1
<1> QED BY <1>1, <1>2, <1>3, <1>4

(* An answer takes one chunk off.                                          *)
LEMMA ChunksOfRest ==
    ASSUME NEW S, todo \in Seq(S), todo # <<>>, Answered
    PROVE  /\ Len(todo) \in Nat /\ Len(todo') \in Nat
           /\ Len(todo') <= Len(todo)
           /\ Chunks(Len(todo)) >= 1
           /\ Chunks(Len(todo')) = Chunks(Len(todo)) - 1
<1> DEFINE n == Len(todo)
           m == Len(todo')
           c == Len(Chunk)
           q == Chunks(n)
<1>1. /\ n \in Nat /\ m \in Nat
      /\ c \in 1 .. n
      /\ c = IF ChunkSize <= n THEN ChunkSize ELSE n
      /\ m = n - c
  BY NextChunk, RestOfTodo
<1>2. /\ q \in Nat /\ q >= 1
      /\ q * ChunkSize \in Int
      /\ q * ChunkSize <= n + ChunkSize - 1
      /\ n + ChunkSize - 1 < q * ChunkSize + ChunkSize
  BY <1>1, ChunksCounted, ChunksBounds, Products, Settings
<1>3. (q - 1) * ChunkSize = q * ChunkSize - ChunkSize
  <2>1. (q + (-1)) * ChunkSize = q * ChunkSize + (-1) * ChunkSize
    BY <1>2, Products, Settings
  <2>2. (-1) * ChunkSize = -ChunkSize
    BY Settings
  <2> QED BY <1>2, <2>1, <2>2, Settings
<1> HIDE DEF m, n, c
<1>4. CASE ChunkSize <= n
  <2>1. m = n - ChunkSize
    BY <1>1, <1>4
  <2>2. /\ (q - 1) * ChunkSize <= m + ChunkSize - 1
        /\ m + ChunkSize - 1 < (q - 1) * ChunkSize + ChunkSize
    <3> DEFINE x == q * ChunkSize
    <3>1. /\ x \in Int /\ x <= n + ChunkSize - 1 /\ n + ChunkSize - 1 < x + ChunkSize
          /\ (q - 1) * ChunkSize = x - ChunkSize
      BY <1>2, <1>3
    <3> HIDE DEF x, q
    <3> QED BY <1>1, <2>1, <3>1, Settings
  <2>3. q - 1 \in Int
    BY <1>2
  <2>4. Chunks(m) = q - 1
    BY <1>1, <2>2, <2>3, ChunksUnique
  <2> QED BY <1>1, <1>2, <2>4 DEF m, n
<1>5. CASE ~ (ChunkSize <= n)
  <2>1. m = 0
    BY <1>1, <1>5
  <2>2. 1 * ChunkSize = ChunkSize
    BY Settings
  <2>3. Chunks(n) = 1
    BY <1>1, <1>5, <2>2, ChunksUnique, Settings
  <2> QED BY <1>1, <2>1, <2>3, ChunksCounted DEF m, n
<1> QED BY <1>4, <1>5

LEMMA Budgets ==
    ASSUME NEW j \in 1 .. 4, NEW C \in Nat, NEW c \in Nat
    PROVE  /\ Budget(j, C, c) \in Int
           /\ Budget(4, C, 0) \in Int
           /\ Budget(j, C, 0) <= Budget(4, C, 0)
           /\ c >= 1 => MaxAttempts + Budget(j, C, c) <= Budget(4, C, 0)
           /\ c >= 1 => MaxAttempts + Budget(j, C, c) = Budget(j, C, c - 1)
           /\ c <= C /\ j < 4 => Budget(j, C, 0) <= Budget(j + 1, C, c)
<1>1. /\ j * C \in Nat /\ j * C <= 4 * C
      /\ (j + 1) * C = j * C + C
      /\ 4 * C \in Nat
  <2>1. j * C <= 4 * C /\ (j + 1) * C = j * C + 1 * C /\ j * C \in Int
    BY Products
  <2>2. 0 * C <= j * C /\ 0 * C = 0 /\ 1 * C = C
    BY Products
  <2> QED BY <2>1, <2>2
<1> DEFINE x == j * C
           y == 4 * C
           z == (j + 1) * C
<1> HIDE DEF x, y, z
<1>2. x \in Nat /\ y \in Nat /\ x <= y /\ z = x + C
  BY <1>1 DEF x, y, z
<1>3. \A a, b \in Int : /\ MaxAttempts * a \in Int
                        /\ MaxAttempts * (a + 1) = MaxAttempts * a + MaxAttempts
                        /\ a <= b => MaxAttempts * a <= MaxAttempts * b
  <2> SUFFICES ASSUME NEW a \in Int, NEW b \in Int
               PROVE  /\ MaxAttempts * a \in Int
                      /\ MaxAttempts * (a + 1) = MaxAttempts * a + MaxAttempts
                      /\ a <= b => MaxAttempts * a <= MaxAttempts * b
    OBVIOUS
  <2>1. a * MaxAttempts \in Int /\ (a + 1) * MaxAttempts = a * MaxAttempts + 1 * MaxAttempts
        /\ (a <= b => a * MaxAttempts <= b * MaxAttempts)
    BY Products, Settings
  <2> QED BY <2>1, Settings
<1>4. /\ Budget(j, C, c) = MaxAttempts * (1 + x - c)
      /\ Budget(j, C, 0) = MaxAttempts * (1 + x)
      /\ Budget(j, C, c - 1) = MaxAttempts * ((1 + x - c) + 1)
      /\ Budget(4, C, 0) = MaxAttempts * (1 + y)
      /\ Budget(j + 1, C, c) = MaxAttempts * (1 + z - c)
  <2>1. 1 + x - 0 = 1 + x /\ 1 + y - 0 = 1 + y /\ 1 + x - (c - 1) = (1 + x - c) + 1
    BY <1>2
  <2> QED BY <2>1 DEF Budget, x, y, z
<1>5. /\ 1 + x - c \in Int /\ 1 + x \in Int /\ 1 + y \in Int /\ 1 + z - c \in Int
      /\ 1 + x <= 1 + y
      /\ c >= 1 => (1 + x - c) + 1 <= 1 + y
      /\ c <= C => 1 + x <= 1 + z - c
  BY <1>2
<1>6. /\ MaxAttempts * (1 + x - c) \in Int
      /\ MaxAttempts * (1 + y) \in Int
      /\ MaxAttempts * (1 + x) <= MaxAttempts * (1 + y)
      /\ MaxAttempts * ((1 + x - c) + 1) = MaxAttempts * (1 + x - c) + MaxAttempts
      /\ c <= C => MaxAttempts * (1 + x) <= MaxAttempts * (1 + z - c)
  BY <1>3, <1>5
<1>7. c >= 1 => MaxAttempts * ((1 + x - c) + 1) <= MaxAttempts * (1 + y)
  <2>1. (1 + x - c) + 1 \in Int
    BY <1>5
  <2> QED BY <1>3, <1>5, <2>1
<1> DEFINE t == MaxAttempts * (1 + x - c)
           u == MaxAttempts * ((1 + x - c) + 1)
<1>8. t \in Int /\ u = t + MaxAttempts /\ (c >= 1 => u <= MaxAttempts * (1 + y))
      /\ Budget(j, C, c) = t /\ Budget(j, C, c - 1) = u
  BY <1>4, <1>6, <1>7
<1> HIDE DEF t, u
<1>9. MaxAttempts + t = u
  BY <1>8, Settings
<1> QED BY <1>4, <1>6, <1>8, <1>9

(* What is in the budget is what RequestsBounded allows.                   *)
LEMMA BudgetAllows ==
    ASSUME FetchInv, world \in Worlds, call \in Calls
    PROVE  /\ requests <= Budget(4, Chunks(Len(ListPage)), 0)
           /\ todo # <<>> => requests < Budget(4, Chunks(Len(ListPage)), 0)
<1> DEFINE C == Chunks(Len(ListPage))
           c == Chunks(Len(todo))
<1>1. Len(todo) \in Nat /\ C \in Nat /\ c \in Nat /\ (todo # <<>> => c >= 1)
  <2>1. todo \in Seq(Pages \cup Items \cup {Null})
    BY DEF FetchInv, TypeOK
  <2>2. Len(todo) \in Nat /\ (todo # <<>> => Len(todo) > 0)
    BY <2>1, EmptySeq, LenProperties
  <2> QED BY <2>2, ListPageType, ChunksCounted
<1>2. /\ requests \in Nat /\ attempt \in 1 .. MaxAttempts
      /\ todo = <<>> => attempt = 1
  BY DEF FetchInv, TypeOK, TodoInv
<1>3a. call # "list" => \E j \in 1 .. 4 : requests < attempt + Budget(j, C, c)
  <2> SUFFICES ASSUME call # "list" PROVE \E j \in 1 .. 4 : requests < attempt + Budget(j, C, c)
    OBVIOUS
  <2>1. PICK j \in DOMAIN Chunked : call = Chunked[j]
    BY DEF Calls, Chunked
  <2>2. j \in 1 .. 4
    BY DEF Chunked
  <2> QED BY <2>1, <2>2 DEF FetchInv, BudgetInv
<1>3b. call = "list" => requests < attempt
  BY DEF FetchInv, BudgetInv
<1>3c. todo = <<>> => c = 0
  BY EmptySeq, ChunksCounted
<1> HIDE DEF C, c
<1>3. ASSUME call = "list"
      PROVE  requests < Budget(4, C, 0) \/ (requests <= Budget(4, C, 0) /\ todo = <<>>)
  <2>1. requests < attempt
    BY <1>3, <1>3b
  <2>2. 1 \in 1 .. 4 /\ 0 \in Nat
    OBVIOUS
  <2>3. Budget(1, C, 0) <= Budget(4, C, 0) /\ Budget(4, C, 0) \in Int /\ Budget(1, C, 0) \in Int
    BY <1>1, <2>2, Budgets
  <2>4. Budget(1, C, 0) >= MaxAttempts
    <3>1. (1 + C) * MaxAttempts >= 1 * MaxAttempts
      BY <1>1, Products, Settings
    <3>2. 1 + 1 * C - 0 = 1 + C
      BY <1>1
    <3>3. Budget(1, C, 0) = (1 + C) * MaxAttempts /\ 1 * MaxAttempts = MaxAttempts
      BY <1>1, <3>2, Settings DEF Budget
    <3> QED BY <3>1, <3>3
  <2> QED BY <1>2, <2>1, <2>3, <2>4, Settings
<1>4. ASSUME NEW j \in 1 .. 4, requests < attempt + Budget(j, C, c)
      PROVE  requests < Budget(4, C, 0) \/ (requests <= Budget(4, C, 0) /\ todo = <<>>)
  <2>1. CASE todo # <<>>
    <3>1. MaxAttempts + Budget(j, C, c) <= Budget(4, C, 0)
          /\ Budget(j, C, c) \in Int /\ Budget(4, C, 0) \in Int
      BY <1>1, <2>1, Budgets
    <3> QED BY <1>2, <1>4, <3>1, Settings
  <2>2. CASE todo = <<>>
    <3>1. c = 0
      BY <1>3c, <2>2
    <3>2. Budget(j, C, 0) <= Budget(4, C, 0)
          /\ Budget(j, C, 0) \in Int /\ Budget(4, C, 0) \in Int
      BY <1>1, Budgets
    <3>3. requests < 1 + Budget(j, C, 0)
      BY <1>2, <1>4, <2>2, <3>1
    <3> QED BY <1>2, <2>2, <3>2, <3>3
  <2> QED BY <2>1, <2>2
<1>5. requests < Budget(4, C, 0) \/ (requests <= Budget(4, C, 0) /\ todo = <<>>)
  BY <1>3, <1>4, <1>3a
<1>6. Budget(4, C, 0) \in Int
  <2>1. 4 \in 1 .. 4 /\ 0 \in Nat
    OBVIOUS
  <2> QED BY <1>1, <2>1, Budgets
<1> QED BY <1>2, <1>5, <1>6 DEF C

LEMMA Bounded ==
    ASSUME world \in Worlds
    PROVE  /\ Budget(4, Chunks(Len(ListPage)), 0) \in Int
           /\ RequestsBounded <=> requests <= Budget(4, Chunks(Len(ListPage)), 0)
           /\ world' = world =>
                  (RequestsBounded' <=> requests' <= Budget(4, Chunks(Len(ListPage)), 0))
<1> DEFINE C == Chunks(Len(ListPage))
<1>1. C \in Nat
  BY ListPageType, ChunksCounted
<1>2. /\ RequestsBounded <=> requests <= MaxAttempts * (1 + 4 * C)
      /\ world' = world => (RequestsBounded' <=> requests' <= MaxAttempts * (1 + 4 * C))
  BY DEF RequestsBounded, ListPage
<1> HIDE DEF C
<1>3. 1 + 4 * C - 0 = 1 + 4 * C /\ 4 \in 1 .. 4 /\ 0 \in Nat
  BY <1>1
<1>4. Budget(4, C, 0) = MaxAttempts * (1 + 4 * C)
  BY <1>3 DEF Budget
<1>5. Budget(4, C, 0) \in Int
  BY <1>1, <1>3, Budgets
<1> QED BY <1>2, <1>4, <1>5 DEF C

-----------------------------------------------------------------------------
(* What the services answer does not change during a fetch.                *)
LEMMA SameAnswers ==
    ASSUME world' = world
    PROVE  /\ ListPage' = ListPage
           /\ Listed' = Listed
           /\ TitleAnswers' = TitleAnswers
           /\ CityAnswers' = CityAnswers
           /\ \A p : Canonical(p)' = Canonical(p) /\ KnownPage(p)' = KnownPage(p)
                     /\ FactsOf(p)' = FactsOf(p)
BY DEF ListPage, Listed, TitleAnswers, CityAnswers, Canonical, KnownPage, FactsOf

LEMMA SameDescriptions ==
    ASSUME world' = world, NEW m, NEW e, NEW found
    PROVE  /\ DescribesWith(m, e, found)' <=> DescribesWith(m, e, found)
           /\ Describes(m, e)' <=> Describes(m, e)
<1>1. KnownPage(e.title)' = KnownPage(e.title)
  BY SameAnswers
<1>2. FactsOf(KnownPage(e.title))' = FactsOf(KnownPage(e.title))
  BY DEF FactsOf, KnownPage, Canonical
<1>3. \A p : DescribesWith(m, e, p)' <=> DescribesWith(m, e, p)
  BY <1>1, <1>2 DEF DescribesWith
<1> QED BY <1>3 DEF Describes, Canonical

(* A step that only counts requests.                                       *)
LEMMA PartsKept ==
    ASSUME FetchInv,
           UNCHANGED <<world, call, todo, entries, mapping, rows, enrichments, malformed>>
    PROVE  /\ EntriesInv' /\ MappingInv' /\ RowsInv' /\ EnrichmentsInv'
           /\ PopulationsInv'
<1>1. EntriesInv'
  BY SameAnswers DEF FetchInv, EntriesInv
<1>2. MappingInv'
  BY SameAnswers DEF FetchInv, MappingInv, Resolving
<1>3. RowsInv'
  BY SameAnswers DEF FetchInv, RowsInv
<1>4. EnrichmentsInv'
  BY SameAnswers, SameDescriptions DEF FetchInv, EnrichmentsInv, EnrichedAsListed
<1>5. PopulationsInv'
  BY DEF FetchInv, PopulationsInv
<1> QED BY <1>1, <1>2, <1>3, <1>4, <1>5

LEMMA RetryKeeps ==
    ASSUME FetchInv, world \in Worlds, Retry
    PROVE  FetchInv'
<1>1. TypeOK'
  BY Settings DEF FetchInv, TypeOK, Retry
<1>2. TodoInv'
  BY DEF FetchInv, TodoInv, Retry
<1>3. BudgetInv'
  <2>1. /\ requests' = requests + 1 /\ attempt' = attempt + 1
        /\ requests \in Nat /\ attempt \in Nat
        /\ world' = world /\ call' = call /\ todo' = todo
    BY DEF FetchInv, TypeOK, Retry
  <2>2. RequestsBounded'
    <3>1. call \in Calls /\ todo # <<>>
      BY DEF Retry
    <3>2. requests < Budget(4, Chunks(Len(ListPage)), 0)
      BY <3>1, BudgetAllows
    <3>3. requests + 1 <= Budget(4, Chunks(Len(ListPage)), 0)
      BY <2>1, <3>2, Bounded
    <3> QED BY <2>1, <3>3, Bounded
  <2>3. ASSUME NEW j \in DOMAIN Chunked, call = Chunked[j]
        PROVE  /\ Len(todo) <= Len(ListPage)
               /\ requests + 1 < attempt + 1
                      + Budget(j, Chunks(Len(ListPage)), Chunks(Len(todo)))
    <3> DEFINE b == Budget(j, Chunks(Len(ListPage)), Chunks(Len(todo)))
    <3>1. b \in Int
      <4>1. todo \in Seq(Pages \cup Items \cup {Null})
        BY DEF FetchInv, TypeOK
      <4>2. Len(todo) \in Nat
        BY <4>1, LenProperties
      <4>3. j \in 1 .. 4
        BY DEF Chunked
      <4> QED BY <4>2, <4>3, ListPageType, ChunksCounted, Budgets
    <3>2. requests < attempt + b /\ Len(todo) <= Len(ListPage)
      BY <2>3 DEF FetchInv, BudgetInv
    <3> HIDE DEF b
    <3>3. requests + 1 < attempt + 1 + b
      BY <2>1, <3>1, <3>2
    <3> QED BY <3>2, <3>3 DEF b
  <2>4. call = "list" => requests + 1 < attempt + 1
    BY <2>1 DEF FetchInv, BudgetInv
  <2> QED BY <2>1, <2>2, <2>3, <2>4, SameAnswers DEF BudgetInv
<1>4. EntriesInv' /\ MappingInv' /\ RowsInv' /\ EnrichmentsInv' /\ PopulationsInv'
  BY PartsKept DEF Retry
<1> QED BY <1>1, <1>2, <1>3, <1>4 DEF FetchInv

(* A step with which the fetch fails.                                      *)
LEMMA FailureKeeps ==
    ASSUME FetchInv, world \in Worlds, call \in Calls, call' \in Errors,
           UNCHANGED <<world, todo, attempt, entries, mapping, rows, enrichments>>,
           requests' = requests \/ (requests' = requests + 1 /\ todo # <<>>),
           malformed' \in BOOLEAN
    PROVE  FetchInv'
<1>1. TypeOK'
  BY DEF FetchInv, TypeOK
<1>2. /\ call' \notin Enriching
      /\ call' \notin {"list", "normalize", "enrich", "cities", "populations", "done"}
  BY DEF Errors, Enriching
<1>3. TodoInv'
  BY <1>2 DEF FetchInv, TodoInv
<1>4. RequestsBounded'
  <2>1. requests \in Nat
    BY DEF FetchInv, TypeOK
  <2>2. requests' <= Budget(4, Chunks(Len(ListPage)), 0)
    BY <2>1, Bounded, BudgetAllows
  <2> QED BY <2>2, Bounded
<1>5. EntriesInv' /\ MappingInv' /\ RowsInv' /\ PopulationsInv'
  BY <1>2 DEF EntriesInv, MappingInv, RowsInv, PopulationsInv, Enriching
<1>6. EnrichmentsInv'
  BY <1>2 DEF EnrichmentsInv, EnrichedAsListed
<1>7. BudgetInv'
  <2>1. \A j \in DOMAIN Chunked : call' # Chunked[j]
    BY <1>2 DEF Chunked
  <2> QED BY <1>2, <1>4, <2>1 DEF BudgetInv
<1> QED BY <1>1, <1>3, <1>5, <1>6, <1>7 DEF FetchInv

-----------------------------------------------------------------------------
LEMMA Kinds ==
    /\ DOMAIN Chunked = 1 .. 4
    /\ Chunked[1] = "normalize" /\ Chunked[2] = "enrich"
    /\ Chunked[3] = "cities" /\ Chunked[4] = "populations"
    /\ \A i \in 1 .. 4 : i = 1 \/ i = 2 \/ i = 3 \/ i = 4
    /\ \A i, j \in 1 .. 4 : Chunked[i] = Chunked[j] => i = j
    /\ \A i \in 1 .. 4 : Chunked[i] \in Calls \ {"list"}
<1>1. /\ DOMAIN Chunked = 1 .. 4
      /\ Chunked[1] = "normalize" /\ Chunked[2] = "enrich"
      /\ Chunked[3] = "cities" /\ Chunked[4] = "populations"
  BY DEF Chunked
<1>2. \A i \in 1 .. 4 : i = 1 \/ i = 2 \/ i = 3 \/ i = 4
  OBVIOUS
<1>3. \A i \in 1 .. 4 : Chunked[i] \in Calls \ {"list"}
  BY <1>1, <1>2 DEF Calls
<1> QED BY <1>1, <1>2, <1>3

(* The budget: an answer, and the next kind of request.                    *)
LEMMA AnsweredBudget ==
    ASSUME FetchInv, world \in Worlds, UNCHANGED <<world, call>>,
           NEW S, todo \in Seq(S), todo # <<>>, Answered,
           NEW j \in DOMAIN Chunked, call = Chunked[j]
    PROVE  BudgetInv'
<1> DEFINE C == Chunks(Len(ListPage))
           c == Chunks(Len(todo))
<1>1. /\ requests \in Nat /\ attempt \in 1 .. MaxAttempts
      /\ requests' = requests + 1 /\ attempt' = 1
      /\ world' = world /\ call' = call
      /\ j \in 1 .. 4
  BY DEF FetchInv, TypeOK, Answered, Chunked
<1>2. /\ Len(todo') \in Nat /\ Len(todo') <= Len(todo) /\ Len(todo) \in Nat
      /\ c >= 1 /\ c \in Nat /\ C \in Nat
      /\ Chunks(Len(todo')) = c - 1
  BY ChunksOfRest, ChunksCounted, ListPageType
<1>3. Len(todo) <= Len(ListPage) /\ requests < attempt + Budget(j, C, c)
  BY DEF FetchInv, BudgetInv
<1>4. RequestsBounded'
  <2>1. requests < Budget(4, C, 0)
    <3>1. call \in Calls
      BY DEF Calls, Chunked
    <3> QED BY <3>1, BudgetAllows
  <2>2. Budget(4, C, 0) \in Int
    BY Bounded
  <2>3. requests' <= Budget(4, C, 0)
    BY <1>1, <2>1, <2>2
  <2> QED BY <1>1, <2>3, Bounded
<1> HIDE DEF C, c
<1>5. requests + 1 < 1 + Budget(j, C, c - 1)
  <2>1. /\ Budget(j, C, c) \in Int
        /\ MaxAttempts + Budget(j, C, c) = Budget(j, C, c - 1)
    BY <1>1, <1>2, Budgets
  <2> QED BY <1>1, <1>3, <2>1, Settings
<1>6. ASSUME NEW i \in DOMAIN Chunked, call = Chunked[i] PROVE i = j
  BY <1>6, Kinds
<1>7. call # "list"
  BY <1>1, Kinds
<1>8. Len(todo') <= Len(ListPage)
  BY <1>2, <1>3, ListPageType
<1> QED BY <1>1, <1>2, <1>4, <1>5, <1>6, <1>7, <1>8, SameAnswers DEF BudgetInv, C

LEMMA NextBudget ==
    ASSUME FetchInv, world \in Worlds, UNCHANGED <<world, requests, attempt>>,
           todo = <<>>, Len(todo') \in Nat, Len(todo') <= Len(ListPage),
           NEW j \in 1 .. 3, call = Chunked[j], call' = Chunked[j + 1]
    PROVE  BudgetInv'
<1> DEFINE C == Chunks(Len(ListPage))
           c == Chunks(Len(todo'))
<1>1. /\ requests \in Nat /\ attempt = 1
      /\ requests' = requests /\ attempt' = attempt
      /\ world' = world
      /\ j \in 1 .. 4 /\ j < 4 /\ j \in DOMAIN Chunked /\ 0 \in Nat
  BY DEF FetchInv, TypeOK, TodoInv, Chunked
<1>2. c \in Nat /\ C \in Nat /\ c <= C
  BY ChunksCounted, ListPageType
<1>3. Chunks(Len(todo)) = 0
  BY EmptySeq, ChunksCounted
<1>4. requests < 1 + Budget(j, C, 0)
  BY <1>1, <1>3 DEF FetchInv, BudgetInv
<1>5. RequestsBounded'
  BY <1>1, Bounded DEF FetchInv, BudgetInv
<1> HIDE DEF C, c
<1>6. requests < 1 + Budget(j + 1, C, c)
  <2>1. /\ Budget(j, C, 0) \in Int
        /\ Budget(j, C, 0) <= Budget(j + 1, C, c)
    BY <1>1, <1>2, Budgets
  <2>2. j + 1 \in 1 .. 4
    BY <1>1
  <2>3. Budget(j + 1, C, c) \in Int
    BY <1>2, <2>2, Budgets
  <2> QED BY <1>1, <1>4, <2>1, <2>3
<1>7. ASSUME NEW i \in DOMAIN Chunked, call' = Chunked[i] PROVE i = j + 1
  <2>1. i \in 1 .. 4
    BY DEF Chunked
  <2> QED BY <1>7, <2>1 DEF Chunked
<1>8. call' # "list"
  <2>1. CASE j = 1
    BY <2>1 DEF Chunked
  <2>2. CASE j = 2
    BY <2>2 DEF Chunked
  <2>3. CASE j = 3
    BY <2>3 DEF Chunked
  <2> QED BY <2>1, <2>2, <2>3
<1> QED BY <1>1, <1>5, <1>6, <1>7, <1>8, SameAnswers DEF BudgetInv, C, c

-----------------------------------------------------------------------------
(* The list page and the titles.                                           *)
LEMMA TitlesOf ==
    ASSUME NEW es \in Seq(EntryType)
    PROVE  /\ Map(LAMBDA e : e.title, es) \in Seq(Pages)
           /\ Len(Map(LAMBDA e : e.title, es)) = Len(es)
           /\ \A k \in DOMAIN es : es[k].title \in Range(Map(LAMBDA e : e.title, es))
<1> DEFINE titles == [k \in DOMAIN es |-> es[k].title]
<1>1. Len(es) \in Nat /\ DOMAIN es = 1 .. Len(es)
  BY LenProperties
<1>2. \A k \in DOMAIN es : es[k].title \in Pages
  <2>1. \A k \in DOMAIN es : es[k] \in EntryType
    BY <1>1, ElementOfSeq
  <2> QED BY <2>1 DEF EntryType
<1>3. titles \in [1 .. Len(es) -> Pages]
  BY <1>1, <1>2
<1>4. titles \in Seq(Pages)
  BY <1>1, <1>3, SeqDef
<1>5. Len(titles) = Len(es)
  BY <1>1, <1>3, <1>4, LenProperties
<1>6. \A k \in DOMAIN es : es[k].title \in Range(titles)
  BY DEF Range
<1> QED BY <1>4, <1>5, <1>6 DEF Map

LEMMA AnswerListKeeps ==
    ASSUME FetchInv, world \in Worlds, AnswerList
    PROVE  FetchInv'
<1>1. CASE Len(ListPage) < MinEntries
  <2>1. /\ call \in Calls /\ call' \in Errors /\ todo # <<>>
        /\ UNCHANGED <<world, todo, attempt, entries, mapping, rows, enrichments>>
        /\ requests' = requests + 1
        /\ malformed' = malformed
    BY <1>1 DEF AnswerList, Asking, Raise, Calls, Errors, ListPage
  <2> QED BY <2>1, FailureKeeps DEF FetchInv, TypeOK
<1>2. CASE ~ (Len(ListPage) < MinEntries)
  <2>1. /\ call = "list" /\ call' = "normalize" /\ todo # <<>>
        /\ entries' = ListPage
        /\ todo' = Map(LAMBDA e : e.title, ListPage)
        /\ attempt' = 1 /\ requests' = requests + 1
        /\ UNCHANGED <<world, mapping, rows, enrichments, malformed>>
    BY <1>2 DEF AnswerList, Asking, ListPage
  <2>2. ListPage \in Seq(EntryType) /\ Len(ListPage) \in Nat
    BY ListPageType
  <2>3. /\ todo' \in Seq(Pages)
        /\ Len(todo') = Len(ListPage)
        /\ \A k \in DOMAIN ListPage : ListPage[k].title \in Range(todo')
    BY <2>1, <2>2, TitlesOf
  <2>4. TypeOK'
    <3>1. todo' \in Seq(Pages \cup Items \cup {Null})
      BY <2>3, SeqMonotonic
    <3> QED BY <2>1, <2>2, <3>1, Settings DEF FetchInv, TypeOK, Calls
  <2>5. TodoInv'
    BY <2>1, <2>3 DEF TodoInv
  <2>6. EntriesInv'
    BY <2>1, SameAnswers DEF EntriesInv, Enriching
  <2>7. MappingInv'
    <3>1. mapping' = Unresolved
      BY <2>1 DEF FetchInv, MappingInv
    <3>2. \A p \in Pages : mapping'[p] = Null
      BY <3>1 DEF Unresolved
    <3>3. Resolving(TitleAnswers, {entries[k].title : k \in DOMAIN entries})'
      BY <2>1, <2>3, <3>2 DEF Resolving
    <3>4. mapping' \in [Pages -> Pages \cup {Null}]
      BY <3>1 DEF Unresolved
    <3> QED BY <2>1, <3>3, <3>4 DEF MappingInv
  <2>8. RowsInv' /\ EnrichmentsInv' /\ PopulationsInv'
    BY <2>1 DEF FetchInv, RowsInv, EnrichmentsInv, EnrichedAsListed, PopulationsInv
  <2>9. BudgetInv'
    <3> DEFINE C == Chunks(Len(ListPage))
    <3>1. C \in Nat
      BY <2>2, ChunksCounted
    <3>2. requests \in Nat /\ attempt \in 1 .. MaxAttempts /\ requests < attempt
      BY <2>1 DEF FetchInv, TypeOK, BudgetInv
    <3>3. RequestsBounded'
      <4>1. requests < Budget(4, C, 0)
        <5>1. call \in Calls
          BY <2>1 DEF Calls
        <5> QED BY <2>1, <5>1, BudgetAllows
      <4>2. Budget(4, C, 0) \in Int
        BY Bounded
      <4>3. requests' <= Budget(4, C, 0)
        BY <2>1, <3>2, <4>1, <4>2
      <4> QED BY <2>1, <4>3, Bounded
    <3> HIDE DEF C
    <3>4. Budget(1, C, C) = MaxAttempts
      <4>1. 1 + 1 * C - C = 1
        BY <3>1
      <4> QED BY <4>1, Settings DEF Budget
    <3>5. requests + 1 < 1 + Budget(1, C, C)
      BY <3>2, <3>4, Settings
    <3>6. \A i \in DOMAIN Chunked : "normalize" = Chunked[i] => i = 1
      BY DEF Chunked
    <3>7. ListPage' = ListPage
      BY <2>1, SameAnswers
    <3>8. ASSUME NEW i \in DOMAIN Chunked, call' = Chunked[i]
          PROVE  /\ Len(todo') <= Len(ListPage)
                 /\ requests' < attempt' + Budget(i, C, Chunks(Len(todo')))
      <4>1. i = 1
        BY <2>1, <3>6, <3>8
      <4>2. Chunks(Len(todo')) = C
        BY <2>3 DEF C
      <4> QED BY <2>1, <2>2, <2>3, <3>5, <4>1, <4>2
    <3> QED BY <2>1, <3>3, <3>7, <3>8 DEF BudgetInv, C
  <2> QED BY <2>4, <2>5, <2>6, <2>7, <2>8, <2>9 DEF FetchInv
<1> QED BY <1>1, <1>2

(* An answer resolves what its chunk asks for, and nothing else.           *)
LEMMA ResolvingStep ==
    ASSUME NEW answers, NEW asked \in SUBSET Pages,
           todo \in Seq(Pages), todo # <<>>, Answered, Resolving(answers, asked),
           mapping' = [p \in Pages |-> IF p \in Range(Chunk) /\ answers[p] # Null
                                       THEN answers[p] ELSE mapping[p]]
    PROVE  Resolving(answers, asked)'
<1>1. Range(todo) = Range(Chunk) \cup Range(todo')
  BY RangeOfRest
<1>2. \A p \in Pages : mapping[p] \in {Null, answers[p]}
  BY DEF Resolving
<1>3. \A p \in Pages : mapping'[p] = IF p \in Range(Chunk) /\ answers[p] # Null
                                     THEN answers[p] ELSE mapping[p]
  OBVIOUS
<1>4. \A p \in Pages : mapping'[p] \in {Null, answers[p]}
  BY <1>2, <1>3
<1>5. ASSUME NEW p \in asked
      PROVE  p \in Range(todo') \/ mapping'[p] = answers[p]
  <2>1. p \in Pages /\ (p \in Range(todo) \/ mapping[p] = answers[p])
    BY DEF Resolving
  <2>2. CASE p \in Range(Chunk)
    BY <1>2, <1>3, <2>1, <2>2
  <2>3. CASE p \notin Range(Chunk)
    BY <1>1, <1>3, <2>1, <2>3
  <2> QED BY <2>2, <2>3
<1> QED BY <1>4, <1>5 DEF Resolving

LEMMA AnswerTitlesKeeps ==
    ASSUME FetchInv, world \in Worlds, AnswerTitles \/ NoQueryTitles
    PROVE  FetchInv'
<1>1. /\ call = "normalize" /\ todo # <<>> /\ Answered
      /\ UNCHANGED <<world, call, entries, rows, enrichments>>
      /\ malformed' \in BOOLEAN
  BY DEF AnswerTitles, NoQueryTitles, Asking, FetchInv, TypeOK
<1>2. todo \in Seq(Pages)
  BY <1>1 DEF FetchInv, TodoInv
<1>3. todo' \in Seq(Pages) /\ attempt' = 1 /\ requests' = requests + 1
  BY <1>1, <1>2, RestOfTodo DEF Answered
<1>4. entries = ListPage /\ ListPage' = ListPage
      /\ mapping \in [Pages -> Pages \cup {Null}]
  BY <1>1, SameAnswers DEF FetchInv, EntriesInv, MappingInv
<1>5. mapping' \in [Pages -> Pages \cup {Null}]
  <2>1. \A p \in Pages : Canonical(p) \in Pages
    BY WorldTypes
  <2>2. CASE AnswerTitles
    BY <1>4, <2>1, <2>2 DEF AnswerTitles, Update
  <2>3. CASE NoQueryTitles
    BY <1>4, <2>3 DEF NoQueryTitles, Update
  <2> QED BY <2>2, <2>3
<1>6. TypeOK'
  <2>1. todo' \in Seq(Pages \cup Items \cup {Null})
    BY <1>3, SeqMonotonic
  <2>2. mapping' \in [Pages -> Pages \cup Items \cup {Null}]
    BY <1>5
  <2>3. attempt' \in 1 .. MaxAttempts /\ requests' \in Nat
    BY <1>3, Settings DEF FetchInv, TypeOK
  <2> QED BY <1>1, <2>1, <2>2, <2>3 DEF FetchInv, TypeOK
<1>7. TodoInv'
  BY <1>1, <1>3 DEF TodoInv
<1>8. EntriesInv'
  BY <1>1, <1>4 DEF EntriesInv, Enriching
<1>9. MappingInv'
  <2>1. CASE AnswerTitles
    <3> DEFINE asked == {entries[k].title : k \in DOMAIN entries}
    <3>1. mapping' = [p \in Pages |-> IF p \in Range(Chunk) /\ TitleAnswers[p] # Null
                                      THEN TitleAnswers[p] ELSE mapping[p]]
      BY <2>1 DEF AnswerTitles, Update, TitleAnswers
    <3>2. asked \in SUBSET Pages
      <4>1. entries \in Seq(EntryType)
        BY DEF FetchInv, TypeOK
      <4>2. \A k \in DOMAIN entries : entries[k] \in EntryType
        BY <4>1, LenProperties, ElementOfSeq
      <4> QED BY <4>2 DEF EntryType
    <3>3. malformed' = malformed
      BY <2>1 DEF AnswerTitles
    <3>4. ASSUME ~malformed PROVE Resolving(TitleAnswers, asked)'
      <4>1. Resolving(TitleAnswers, asked)
        BY <1>1, <3>4 DEF FetchInv, MappingInv
      <4>2. TitleAnswers' = TitleAnswers /\ asked' = asked
        BY <1>1, SameAnswers
      <4> HIDE DEF asked
      <4>3. PICK answers : answers = TitleAnswers
        OBVIOUS
      <4>4. PICK some : some = asked
        OBVIOUS
      <4>5. Resolving(answers, some)'
        BY <1>1, <1>2, <3>1, <3>2, <4>1, <4>3, <4>4, ResolvingStep
      <4> QED BY <4>2, <4>3, <4>4, <4>5 DEF Resolving
    <3> QED BY <1>1, <1>5, <3>3, <3>4 DEF MappingInv
  <2>2. CASE NoQueryTitles
    <3>1. malformed'
      BY <2>2 DEF NoQueryTitles
    <3> QED BY <1>1, <1>5, <3>1 DEF MappingInv
  <2> QED BY <2>1, <2>2
<1>10. RowsInv' /\ EnrichmentsInv' /\ PopulationsInv'
  BY <1>1 DEF FetchInv, RowsInv, EnrichmentsInv, EnrichedAsListed, PopulationsInv
<1>11. BudgetInv'
  <2>1. 1 \in DOMAIN Chunked /\ call = Chunked[1]
    BY <1>1, Kinds
  <2> QED BY <1>1, <1>2, <2>1, AnsweredBudget
<1> QED BY <1>6, <1>7, <1>8, <1>9, <1>10, <1>11 DEF FetchInv

(* A canonical title is that of the page the services know.                *)
LEMMA CanonicalTitles ==
    ASSUME NEW es \in Seq(EntryType), mapping \in [Pages -> Pages \cup {Null}]
    PROVE  /\ Map(WithCanonicalTitle, es) \in Seq(EntryType)
           /\ Len(Map(WithCanonicalTitle, es)) = Len(es)
           /\ \A k \in DOMAIN es :
                  /\ Map(WithCanonicalTitle, es)[k] = WithCanonicalTitle(es[k])
                  /\ WithCanonicalTitle(es[k]).count = es[k].count
                  /\ WithCanonicalTitle(es[k]).year = es[k].year
<1> DEFINE fs == [k \in DOMAIN es |-> WithCanonicalTitle(es[k])]
<1>1. Len(es) \in Nat /\ DOMAIN es = 1 .. Len(es)
  BY LenProperties
<1>2. ASSUME NEW k \in DOMAIN es
      PROVE  /\ WithCanonicalTitle(es[k]) \in EntryType
             /\ WithCanonicalTitle(es[k]).count = es[k].count
             /\ WithCanonicalTitle(es[k]).year = es[k].year
  <2>1. es[k] \in EntryType
    BY <1>1, ElementOfSeq
  <2>2. es[k].title \in Pages /\ mapping[es[k].title] \in Pages \cup {Null}
    BY <2>1 DEF EntryType
  <2> QED BY <2>1, <2>2 DEF WithCanonicalTitle, EntryType
<1>3. fs \in [1 .. Len(es) -> EntryType]
  BY <1>1, <1>2
<1>4. fs \in Seq(EntryType)
  BY <1>1, <1>3, SeqDef
<1>5. Len(fs) = Len(es)
  BY <1>1, <1>3, <1>4, LenProperties
<1> QED BY <1>2, <1>4, <1>5 DEF Map

LEMMA EndTitlesKeeps ==
    ASSUME FetchInv, world \in Worlds, EndTitles
    PROVE  FetchInv'
<1> DEFINE fs == Map(WithCanonicalTitle, entries)
<1>1. /\ call = "normalize" /\ todo = <<>>
      /\ entries' = OverThreshold(fs)
      /\ todo' = Map(LAMBDA e : e.title, entries')
      /\ mapping' = Unresolved
      /\ call' = "enrich"
      /\ UNCHANGED <<world, attempt, rows, enrichments, requests, malformed>>
  BY DEF EndTitles
<1>2. /\ entries = ListPage /\ ListPage' = ListPage
      /\ mapping \in [Pages -> Pages \cup {Null}]
      /\ ListPage \in Seq(EntryType) /\ Len(ListPage) \in Nat
      /\ \A k \in DOMAIN entries : entries[k].count # Null => entries[k].year # Null
  BY <1>1, SameAnswers, ListPageType DEF FetchInv, EntriesInv, MappingInv
<1>3. /\ fs \in Seq(EntryType)
      /\ Len(fs) = Len(entries)
      /\ \A k \in DOMAIN entries : /\ fs[k] = WithCanonicalTitle(entries[k])
                                   /\ fs[k].count = entries[k].count
                                   /\ fs[k].year = entries[k].year
  <2>1. entries \in Seq(EntryType)
    BY <1>2
  <2> HIDE DEF fs
  <2>2. /\ fs \in Seq(EntryType)
        /\ Len(fs) = Len(entries)
        /\ \A k \in DOMAIN entries : /\ fs[k] = WithCanonicalTitle(entries[k])
                                     /\ WithCanonicalTitle(entries[k]).count = entries[k].count
                                     /\ WithCanonicalTitle(entries[k]).year = entries[k].year
    BY <1>2, <2>1, CanonicalTitles DEF fs
  <2> QED BY <2>2
<1>4. Listed = OverThreshold(entries)
  BY <1>2 DEF Listed, ListPage
<1> HIDE DEF fs
<1>5. /\ entries' \in Seq(EntryType)
      /\ Len(entries') = Len(Listed)
      /\ Len(Listed) <= Len(ListPage)
      /\ \A k \in DOMAIN entries' :
             \E i \in DOMAIN entries : /\ Listed[k] = entries[i]
                                       /\ entries'[k] = fs[i]
                                       /\ fs[i].count # Null
                                       /\ fs[i].year # Null
  <2>1. /\ entries \in Seq(EntryType) /\ fs \in Seq(EntryType) /\ Len(entries) = Len(fs)
        /\ \A k \in DOMAIN entries : fs[k].count = entries[k].count /\ fs[k].year = entries[k].year
        /\ \A k \in DOMAIN entries : entries[k].count # Null => entries[k].year # Null
    BY <1>2, <1>3
  <2>2. /\ OverThreshold(fs) \in Seq(EntryType)
        /\ Len(OverThreshold(fs)) = Len(OverThreshold(entries))
        /\ Len(OverThreshold(entries)) <= Len(entries)
        /\ \A k \in DOMAIN OverThreshold(fs) :
               \E i \in DOMAIN entries :
                   /\ OverThreshold(entries)[k] = entries[i]
                   /\ OverThreshold(fs)[k] = fs[i]
                   /\ fs[i].count # Null
                   /\ fs[i].year # Null
    BY <2>1, OverThresholdEntries
  <2>3. entries' = OverThreshold(fs) /\ Listed = OverThreshold(entries) /\ entries = ListPage
    BY <1>1, <1>2, <1>4
  <2> QED BY <2>2, <2>3
<1>6. /\ todo' \in Seq(Pages)
      /\ Len(todo') = Len(entries')
      /\ \A k \in DOMAIN entries' : entries'[k].title \in Range(todo')
  BY <1>1, <1>5, TitlesOf
<1>7. mapping' \in [Pages -> Pages \cup {Null}]
  BY <1>1 DEF Unresolved
<1>8. TypeOK'
  <2>1. todo' \in Seq(Pages \cup Items \cup {Null})
    BY <1>6, SeqMonotonic
  <2> QED BY <1>1, <1>5, <1>7, <2>1 DEF FetchInv, TypeOK, Calls
<1>9. TodoInv'
  BY <1>1, <1>6 DEF FetchInv, TodoInv
<1>10. EntriesInv'
  <2>1. \A k \in DOMAIN entries' : entries'[k].count # Null /\ entries'[k].year # Null
    BY <1>5
  <2>2. ASSUME ~malformed, NEW k \in DOMAIN entries'
        PROVE  entries'[k] = [Listed[k] EXCEPT !.title = KnownPage(@)]
    <3>1. PICK i \in DOMAIN entries : Listed[k] = entries[i] /\ entries'[k] = fs[i]
      BY <1>5
    <3> DEFINE e == entries[i]
    <3>2. e \in EntryType
      BY <1>2, LenProperties, ElementOfSeq
    <3>3. e.title \in Pages
      BY <3>2 DEF EntryType
    <3>4. mapping[e.title] = TitleAnswers[e.title]
      <4>1. Range(todo) = {}
        BY <1>1 DEF Range
      <4> QED BY <1>1, <2>2, <4>1 DEF FetchInv, MappingInv, Resolving
    <3>5. mapping[e.title] = IF Canonical(e.title) \in world.missing THEN Null
                             ELSE Canonical(e.title)
      BY <3>3, <3>4 DEF TitleAnswers
    <3>6. Canonical(e.title) # Null
      BY <3>3, WorldTypes, Nulls
    <3>7. [e EXCEPT !.title = e.title] = e
      BY <3>2 DEF EntryType
    <3>8. fs[i] = WithCanonicalTitle(e)
      BY <1>3
    <3> HIDE DEF e
    <3>9. WithCanonicalTitle(e) = [e EXCEPT !.title = KnownPage(e.title)]
      BY <3>5, <3>6, <3>7 DEF WithCanonicalTitle, KnownPage
    <3> QED BY <3>1, <3>8, <3>9 DEF e
  <2>3. Len(entries') <= Len(ListPage)
    BY <1>5
  <2> QED BY <1>1, <1>2, <1>5, <2>1, <2>2, <2>3, SameAnswers DEF EntriesInv, Enriching
<1>11. MappingInv'
  BY <1>1 DEF MappingInv
<1>12. RowsInv'
  <2>1. rows' = <<>>
    BY <1>1 DEF FetchInv, RowsInv
  <2> QED BY <1>1, <1>6, <2>1, EmptySeq DEF RowsInv
<1>13. EnrichmentsInv' /\ PopulationsInv'
  BY <1>1 DEF EnrichmentsInv, EnrichedAsListed, PopulationsInv
<1>14. BudgetInv'
  <2>1. 1 \in 1 .. 3 /\ call = Chunked[1] /\ call' = Chunked[1 + 1]
    BY <1>1, Kinds
  <2>2. Len(todo') \in Nat /\ Len(todo') <= Len(ListPage)
    BY <1>5, <1>6, LenProperties
  <2> QED BY <1>1, <2>1, <2>2, NextBudget
<1> QED BY <1>8, <1>9, <1>10, <1>11, <1>12, <1>13, <1>14 DEF FetchInv

-----------------------------------------------------------------------------
(* The facts: rows grow by what an answer lists, in whatever order.        *)
LEMMA RowsGrow ==
    ASSUME NEW S, rows \in Seq(S), NEW F \in SUBSET S, IsFiniteSet(F),
           NEW order \in SetToSeqs(F), rows' = rows \o order
    PROVE  /\ rows' \in Seq(S)
           /\ Range(rows') = Range(rows) \cup F
           /\ IsInjective(rows) /\ Range(rows) \cap F = {} => IsInjective(rows')
<1>1. /\ order \in Seq(F)
      /\ \A i, j \in DOMAIN order : order[i] = order[j] => i = j
      /\ \A x \in F : \E i \in DOMAIN order : order[i] = x
  BY Listing
<1>2. Range(order) = F
  <2>1. Range(order) \subseteq F
    BY <1>1, RangeOfSeq
  <2> QED BY <1>1, <2>1 DEF Range
<1>3. order \in Seq(S)
  BY <1>1, SeqMonotonic
<1>4. rows' \in Seq(S) /\ Range(rows') = Range(rows) \cup F
  BY <1>2, <1>3, ConcatProperties, RangeConcatenation
<1>5. ASSUME IsInjective(rows), Range(rows) \cap F = {}
      PROVE  IsInjective(rows')
  <2> DEFINE m == Len(rows)
             n == Len(order)
  <2>1. /\ m \in Nat /\ n \in Nat
        /\ DOMAIN rows = 1 .. m /\ DOMAIN order = 1 .. n
        /\ DOMAIN rows' = 1 .. m + n
        /\ \A i \in 1 .. m + n : rows'[i] = IF i <= m THEN rows[i] ELSE order[i - m]
    BY <1>3, <1>4, ConcatProperties, LenProperties
  <2>2. \A i, j \in 1 .. m : rows[i] = rows[j] => i = j
    BY <1>5, <2>1 DEF IsInjective
  <2>3. \A i \in 1 .. m, j \in 1 .. n : rows[i] # order[j]
    BY <1>2, <1>5, <2>1 DEF Range
  <2> HIDE DEF m, n
  <2>4. \A i \in 1 .. m + n : IF i <= m THEN i \in 1 .. m ELSE i - m \in 1 .. n
    BY <2>1
  <2>5. ASSUME NEW i \in 1 .. m + n, NEW j \in 1 .. m + n, rows'[i] = rows'[j]
        PROVE  i = j
    <3>1. CASE i <= m /\ j <= m
      BY <2>1, <2>2, <2>4, <2>5, <3>1
    <3>2. CASE i <= m /\ ~ (j <= m)
      BY <2>1, <2>3, <2>4, <2>5, <3>2
    <3>3. CASE ~ (i <= m) /\ j <= m
      BY <2>1, <2>3, <2>4, <2>5, <3>3
    <3>4. CASE ~ (i <= m) /\ ~ (j <= m)
      <4>1. i - m \in 1 .. n /\ j - m \in 1 .. n /\ order[i - m] = order[j - m]
        BY <2>1, <2>4, <2>5, <3>4
      <4>2. i - m = j - m
        BY <1>1, <2>1, <4>1
      <4> QED BY <2>1, <4>2
    <3> QED BY <3>1, <3>2, <3>3, <3>4
  <2> QED BY <2>1, <2>5 DEF IsInjective
<1> QED BY <1>4, <1>5

LEMMA AnswerFactsKeeps ==
    ASSUME FetchInv, world \in Worlds, AnswerFacts
    PROVE  FetchInv'
<1> DEFINE F == {f \in world.facts : f.title \in Range(Chunk)}
<1>1. /\ call = "enrich" /\ todo # <<>> /\ Answered
      /\ UNCHANGED <<world, call, entries, mapping, enrichments, malformed>>
  BY DEF AnswerFacts, Asking
<1>2. PICK order \in SetToSeqs(F) : rows' = rows \o order
  BY DEF AnswerFacts
<1>3. todo \in Seq(Pages)
  BY <1>1 DEF FetchInv, TodoInv
<1>4. todo' \in Seq(Pages) /\ attempt' = 1 /\ requests' = requests + 1
  BY <1>1, <1>3, RestOfTodo DEF Answered
<1>5. Range(todo) = Range(Chunk) \cup Range(todo')
  BY <1>1, <1>3, RangeOfRest
<1>6. F \in SUBSET world.facts /\ IsFiniteSet(F)
  BY WorldTypes, FS_Subset
<1>7. \A p \in Range(Chunk) : FactsOf(p) \subseteq F
  BY DEF FactsOf
<1> HIDE DEF F
<1>8. rows' \in Seq(world.facts) /\ Range(rows') = Range(rows) \cup F
  <2>1. rows \in Seq(world.facts)
    BY <1>1 DEF FetchInv, RowsInv
  <2> QED BY <1>2, <1>6, <2>1, RowsGrow
<1>9. TypeOK'
  <2>1. todo' \in Seq(Pages \cup Items \cup {Null})
    BY <1>4, SeqMonotonic
  <2>2. rows' \in Seq(Facts \cup Items)
    BY <1>8, WorldTypes, SeqMonotonic
  <2> QED BY <1>1, <1>4, <2>1, <2>2, Settings DEF FetchInv, TypeOK
<1>10. TodoInv'
  BY <1>1, <1>4 DEF TodoInv
<1>11. EntriesInv' /\ MappingInv'
  BY <1>1, SameAnswers DEF FetchInv, EntriesInv, MappingInv
<1>12. RowsInv'
  <2>1. ASSUME NEW k \in DOMAIN entries
        PROVE  \/ entries[k].title \in Range(todo')
               \/ FactsOf(entries[k].title) \subseteq Range(rows')
    <3>1. \/ entries[k].title \in Range(todo)
          \/ FactsOf(entries[k].title) \subseteq Range(rows)
      BY <1>1 DEF FetchInv, RowsInv
    <3> QED BY <1>5, <1>7, <1>8, <3>1
  <2>2. \A p : FactsOf(p)' = FactsOf(p)
    BY <1>1, SameAnswers
  <2> QED BY <1>1, <1>8, <2>1, <2>2 DEF RowsInv
<1>13. EnrichmentsInv' /\ PopulationsInv'
  BY <1>1 DEF EnrichmentsInv, EnrichedAsListed, PopulationsInv
<1>14. BudgetInv'
  <2>1. 2 \in DOMAIN Chunked /\ call = Chunked[2]
    BY <1>1, Kinds
  <2> QED BY <1>1, <1>3, <2>1, AnsweredBudget
<1> QED BY <1>9, <1>10, <1>11, <1>12, <1>13, <1>14 DEF FetchInv

-----------------------------------------------------------------------------
(* The preliminary enrichment of an entry, from the rows about its title.  *)
LEMMA FiniteImage ==
    ASSUME NEW K, IsFiniteSet(K), NEW f, DOMAIN f = K, NEW T, T = {f[k] : k \in K}
    PROVE  IsFiniteSet(T) /\ Cardinality(T) <= Cardinality(K)
<1> DEFINE g == [k \in K |-> f[k]]
<1>1. g \in Surjection(K, T)
  BY DEF Surjection
<1> QED BY <1>1, FS_Surjection

CountsOf(R, y) == {rows[k].visitors : k \in {k \in R : rows[k].year = y}} \ {Null}

LEMMA WikiRecordsType ==
    ASSUME NEW e \in EntryType, e.count # Null, e.year # Null
    PROVE  WikiRecords(e) \in Counts /\ WikiRecords(e) # NoCounts
<1>1. e.count \in Nat /\ e.year \in Years
  BY DEF EntryType
<1>2. WikiRecords(e) = [NoCounts EXCEPT ![e.year] = e.count]
  BY DEF WikiRecords
<1>3. NoCounts \in Counts /\ \A y \in Years : NoCounts[y] = Null
  BY DEF NoCounts, Counts
<1>4. WikiRecords(e) \in Counts /\ WikiRecords(e)[e.year] = e.count
  BY <1>1, <1>2, <1>3 DEF Counts
<1> QED BY <1>1, <1>3, <1>4

LEMMA GreatestCounts ==
    ASSUME rows \in Seq(Facts), NEW R \in SUBSET DOMAIN rows
    PROVE  /\ MaxPerYear(R) \in Counts
           /\ \A y \in Years :
                  /\ CountsOf(R, y) \subseteq Nat
                  /\ CountsOf(R, y) = {} => MaxPerYear(R)[y] = Null
                  /\ CountsOf(R, y) # {} => /\ MaxPerYear(R)[y] \in CountsOf(R, y)
                                            /\ \A v \in CountsOf(R, y) : v <= MaxPerYear(R)[y]
<1>1. DOMAIN rows = 1 .. Len(rows) /\ Len(rows) \in Nat
  BY LenProperties
<1>2. \A k \in R : rows[k].visitors \in Nat \cup {Null}
  <2>1. \A k \in R : rows[k] \in Facts
    BY <1>1, ElementOfSeq
  <2> QED BY <2>1 DEF Facts
<1>3. IsFiniteSet(R)
  <2>1. IsFiniteSet(1 .. Len(rows))
    BY <1>1, FS_Interval
  <2> QED BY <1>1, <2>1, FS_Subset
<1>4. \A y \in Years : MaxPerYear(R)[y] = IF CountsOf(R, y) = {} THEN Null
                                          ELSE Max(CountsOf(R, y))
  BY DEF MaxPerYear, CountsOf
<1>5. ASSUME NEW y \in Years
      PROVE  CountsOf(R, y) \subseteq Nat /\ IsFiniteSet(CountsOf(R, y))
  <2> DEFINE K == {k \in R : rows[k].year = y}
             f == [k \in K |-> rows[k].visitors]
             T == {f[k] : k \in K}
  <2>1. IsFiniteSet(K)
    BY <1>3, FS_Subset
  <2>2. CountsOf(R, y) = T \ {Null}
    BY DEF CountsOf
  <2>3. T \subseteq Nat \cup {Null}
    BY <1>2
  <2>4. DOMAIN f = K
    OBVIOUS
  <2> HIDE DEF K, f
  <2>5. IsFiniteSet(T)
    BY <2>1, <2>4, FiniteImage
  <2> HIDE DEF T
  <2>6. IsFiniteSet(T \ {Null})
    BY <2>5, FS_Subset
  <2> QED BY <2>2, <2>3, <2>6
<1>6. ASSUME NEW y \in Years, CountsOf(R, y) # {}
      PROVE  /\ Max(CountsOf(R, y)) \in CountsOf(R, y)
             /\ \A v \in CountsOf(R, y) : v <= Max(CountsOf(R, y))
  BY <1>5, <1>6, HasGreatest
<1>7. \A y \in Years : MaxPerYear(R)[y] \in Nat \cup {Null}
  BY <1>4, <1>5, <1>6
<1>8. MaxPerYear(R) = [y \in Years |-> MaxPerYear(R)[y]]
  BY DEF MaxPerYear
<1>9. MaxPerYear(R) \in Counts
  BY <1>7, <1>8 DEF Counts
<1> QED BY <1>4, <1>5, <1>6, <1>9

LEMMA Firsts ==
    ASSUME rows \in Seq(Facts), NEW R \in SUBSET DOMAIN rows
    PROVE  /\ R # {} => Min(R) \in R
           /\ (\A k \in R : rows[k].city = Null) => FirstKnown(R) = Null
           /\ (\A k \in R : rows[k].city # Null) /\ R # {} =>
                  FirstKnown(R) = rows[Min(R)].city
           /\ FirstKnown(R) \in Items \cup {Null}
<1>1. DOMAIN rows = 1 .. Len(rows) /\ Len(rows) \in Nat
  BY LenProperties
<1> DEFINE known == {k \in R : rows[k].city # Null}
<1>2. R \in SUBSET Nat /\ known \in SUBSET Nat
  BY <1>1
<1>3. R # {} => Min(R) \in R
  BY <1>2, MinIsLeast
<1>4. known # {} => Min(known) \in known
  BY <1>2, MinIsLeast
<1>5. FirstKnown(R) = IF known = {} THEN Null ELSE rows[Min(known)].city
  BY DEF FirstKnown
<1>6. (\A k \in R : rows[k].city = Null) => known = {}
  OBVIOUS
<1>7. (\A k \in R : rows[k].city # Null) => known = R
  OBVIOUS
<1>8. known \subseteq R
  OBVIOUS
<1> HIDE DEF known
<1>9. FirstKnown(R) \in Items \cup {Null}
  <2>1. CASE known = {}
    BY <1>5, <2>1
  <2>2. CASE known # {}
    <3>1. Min(known) \in DOMAIN rows
      BY <1>4, <1>8, <2>2
    <3>2. rows[Min(known)] \in Facts
      BY <1>1, <3>1, ElementOfSeq
    <3>3. rows[Min(known)].city \in Items \cup {Null}
      BY <3>2 DEF Facts
    <3> QED BY <1>5, <2>2, <3>3
  <2> QED BY <2>1, <2>2
<1> QED BY <1>3, <1>5, <1>6, <1>7, <1>9

LEMMA PreliminaryType ==
    ASSUME rows \in Seq(Facts), NEW e \in EntryType, e.count # Null, e.year # Null
    PROVE  /\ Preliminary(e) \in EnrichmentType
           /\ Preliminary(e).visitors # NoCounts
<1> DEFINE R == About(e.title)
           visitors == MaxPerYear(R)
           stored == IF visitors = NoCounts THEN WikiRecords(e) ELSE visitors
<1>1. R \in SUBSET DOMAIN rows
  BY DEF About
<1>2. visitors \in Counts /\ WikiRecords(e) \in Counts /\ WikiRecords(e) # NoCounts
  BY <1>1, GreatestCounts, WikiRecordsType
<1>3. stored \in Counts /\ stored # NoCounts
  BY <1>2
<1>4. /\ e.title \in Pages /\ e.name \in Names /\ e.city \in Pages \cup {Null}
  BY DEF EntryType
<1>5. CASE R = {}
  <2>1. Preliminary(e) = Synthetic(e)
    BY <1>5 DEF Preliminary
  <2> QED BY <1>2, <1>4, <2>1 DEF Synthetic, EnrichmentType
<1>6. CASE R # {}
  <2>1. Preliminary(e) = Covered(e, stored)
    BY <1>6 DEF Preliminary
  <2>2. Min(R) \in R /\ FirstKnown(R) \in Items \cup {Null}
    BY <1>1, <1>6, Firsts
  <2>3. rows[Min(R)] \in Facts
    BY <1>1, <2>2, LenProperties, ElementOfSeq
  <2> HIDE DEF stored
  <2>4. Covered(e, stored) =
            [title |-> e.title, item |-> rows[Min(R)].item, name |-> rows[Min(R)].name,
             city |-> FirstKnown(R),
             cityName |-> IF rows[Min(R)].cityName # Null THEN rows[Min(R)].cityName ELSE e.city,
             visitors |-> stored]
    BY DEF Covered
  <2> HIDE DEF R
  <2>5. /\ rows[Min(R)].item \in Items /\ rows[Min(R)].name \in Names
        /\ rows[Min(R)].cityName \in Pages \cup {Null}
    BY <2>3 DEF Facts
  <2> QED BY <1>3, <1>4, <2>1, <2>2, <2>4, <2>5 DEF EnrichmentType
<1> QED BY <1>5, <1>6

(* The rows about a title are its facts, however often they came.          *)
LEMMA AboutFacts ==
    ASSUME world \in Worlds, rows \in Seq(world.facts), NEW p \in Pages,
           FactsOf(p) \subseteq Range(rows)
    PROVE  /\ About(p) \in SUBSET DOMAIN rows
           /\ \A k \in About(p) : rows[k] \in FactsOf(p)
           /\ \A f \in FactsOf(p) : \E k \in About(p) : rows[k] = f
           /\ About(p) = {} <=> FactsOf(p) = {}
           /\ \A y \in Years : CountsOf(About(p), y) = Reported(FactsOf(p), y)
<1>1. DOMAIN rows = 1 .. Len(rows) /\ \A k \in DOMAIN rows : rows[k] \in world.facts
  BY LenProperties, ElementOfSeq
<1>2. About(p) \in SUBSET DOMAIN rows /\ \A k \in About(p) : rows[k] \in FactsOf(p)
  BY <1>1 DEF About, FactsOf
<1>3. ASSUME NEW f \in FactsOf(p)
      PROVE  \E k \in About(p) : rows[k] = f
  <2>1. PICK k \in DOMAIN rows : rows[k] = f
    BY DEF Range
  <2>2. f.title = p
    BY DEF FactsOf
  <2> QED BY <2>1, <2>2 DEF About
<1>4. ASSUME NEW y \in Years
      PROVE  CountsOf(About(p), y) = Reported(FactsOf(p), y)
  <2>1. CountsOf(About(p), y) \subseteq Reported(FactsOf(p), y)
    BY <1>2 DEF CountsOf, Reported
  <2>2. Reported(FactsOf(p), y) \subseteq CountsOf(About(p), y)
    BY <1>3 DEF CountsOf, Reported
  <2> QED BY <2>1, <2>2
<1> QED BY <1>2, <1>3, <1>4

(* What is stored first describes the entry, but for a city found by name. *)
LEMMA PreliminaryDescribes ==
    ASSUME world \in Worlds, rows \in Seq(world.facts),
           NEW l \in EntryType, NEW e \in EntryType,
           e = [l EXCEPT !.title = KnownPage(@)],
           FactsOf(e.title) \subseteq Range(rows)
    PROVE  DescribesWith(Preliminary(e), l, Null)
<1> DEFINE p == e.title
           fs == FactsOf(p)
           R == About(p)
           m == Preliminary(e)
           visitors == MaxPerYear(R)
           stored == IF visitors = NoCounts THEN WikiRecords(e) ELSE visitors
           dated == {y \in Years : Reported(fs, y) # {}}
<1>1. /\ p = KnownPage(l.title) /\ p \in Pages
      /\ e.name = l.name /\ e.city = l.city /\ e.count = l.count /\ e.year = l.year
  BY DEF EntryType
<1>2. rows \in Seq(Facts) /\ world.facts \subseteq Facts
  BY WorldTypes, SeqMonotonic
<1>3. /\ R \in SUBSET DOMAIN rows
      /\ \A k \in R : rows[k] \in fs
      /\ \A f \in fs : \E k \in R : rows[k] = f
      /\ R = {} <=> fs = {}
      /\ \A y \in Years : CountsOf(R, y) = Reported(fs, y)
  BY <1>1, AboutFacts
<1>4. WikiRecords(e) = WikiRecords(l)
  BY <1>1 DEF WikiRecords
<1>5. m = IF R = {} THEN Synthetic(e) ELSE Covered(e, stored)
  BY DEF Preliminary
<1>6. \A f, g \in fs : /\ f.item = g.item /\ f.name = g.name
                       /\ (f.city = Null) = (g.city = Null)
                       /\ (f.city = Null) = (f.cityName = Null)
  BY WorldAssumption DEF FactsOf
<1>7. IF dated = {} THEN visitors = NoCounts
      ELSE /\ visitors # NoCounts
           /\ \A y \in Years :
                  IF y \in dated
                  THEN visitors[y] \in Reported(fs, y)
                       /\ \A v \in Reported(fs, y) : v <= visitors[y]
                  ELSE visitors[y] = Null
  <2>1. /\ visitors \in Counts
        /\ \A y \in Years :
               /\ Reported(fs, y) \subseteq Nat
               /\ Reported(fs, y) = {} => visitors[y] = Null
               /\ Reported(fs, y) # {} => /\ visitors[y] \in Reported(fs, y)
                                          /\ \A v \in Reported(fs, y) : v <= visitors[y]
    BY <1>2, <1>3, GreatestCounts
  <2>2. \A y \in Years : NoCounts[y] = Null
    BY DEF NoCounts
  <2> HIDE DEF visitors, fs
  <2>3. CASE dated = {}
    <3>1. \A y \in Years : visitors[y] = Null
      BY <2>1, <2>3
    <3>2. visitors = [y \in Years |-> Null]
      BY <2>1, <3>1 DEF Counts
    <3> QED BY <2>3, <3>2 DEF NoCounts
  <2>4. CASE dated # {}
    <3>1. PICK y \in Years : Reported(fs, y) # {}
      BY <2>4
    <3>2. visitors[y] \in Nat
      BY <2>1, <3>1
    <3>3. visitors # NoCounts
      BY <2>2, <3>2, Nulls
    <3> QED BY <2>1, <2>4, <3>3
  <2> QED BY <2>3, <2>4
<1>8. KnownPage(l.title) = p /\ FactsOf(KnownPage(l.title)) = fs
  BY <1>1
<1> HIDE DEF fs, R, visitors, stored, dated, p
<1>9. CASE R = {}
  <2>1. fs = {}
    BY <1>3, <1>9
  <2>2. \A y \in Years : Reported(fs, y) = {}
    BY <2>1 DEF Reported
  <2>3. dated = {}
    BY <2>2 DEF dated
  <2>4. /\ m.title = p /\ m.item = Null /\ m.name = e.name
        /\ m.city = Null /\ m.cityName = e.city
        /\ m.visitors = WikiRecords(e)
    BY <1>5, <1>9 DEF Synthetic, p
  <2> QED BY <1>1, <1>4, <1>8, <2>1, <2>3, <2>4 DEF DescribesWith, dated
<1>10. CASE R # {}
  <2> DEFINE first == rows[Min(R)]
  <2>1. Min(R) \in R /\ first \in fs
    BY <1>2, <1>3, <1>10, Firsts
  <2>2. fs # {}
    BY <2>1
  <2>3. /\ m.title = p /\ m.item = first.item /\ m.name = first.name
        /\ m.city = FirstKnown(R)
        /\ m.cityName = IF first.cityName # Null THEN first.cityName ELSE e.city
        /\ m.visitors = stored
    BY <1>5, <1>10 DEF Covered, p, R
  <2> HIDE DEF first
  <2>4. \A f \in fs : m.item = f.item /\ m.name = f.name
    BY <1>6, <2>1, <2>3
  <2>5. \/ \E f \in fs : f.city # Null /\ m.city = f.city /\ m.cityName = f.cityName
        \/ /\ \A f \in fs : f.city = Null
           /\ m.cityName = l.city
           /\ m.city = Null
    <3>1. CASE first.city = Null
      <4>1. \A f \in fs : f.city = Null
        BY <1>6, <2>1, <3>1
      <4>2. \A k \in R : rows[k].city = Null
        BY <1>3, <4>1
      <4>3. FirstKnown(R) = Null
        BY <1>2, <1>3, <4>2, Firsts
      <4>4. first.cityName = Null
        BY <1>6, <2>1, <3>1
      <4> QED BY <1>1, <2>3, <4>1, <4>3, <4>4
    <3>2. CASE first.city # Null
      <4>1. \A f \in fs : f.city # Null
        BY <1>6, <2>1, <3>2
      <4>2. \A k \in R : rows[k].city # Null
        BY <1>3, <4>1
      <4>3. FirstKnown(R) = first.city
        BY <1>2, <1>3, <1>10, <4>2, Firsts DEF first
      <4>4. first.cityName # Null
        BY <1>6, <2>1, <3>2
      <4> QED BY <2>1, <2>3, <3>2, <4>3, <4>4
    <3> QED BY <3>1, <3>2
  <2>6. IF dated = {} THEN m.visitors = WikiRecords(l)
        ELSE \A y \in Years :
                 IF y \in dated
                 THEN m.visitors[y] \in Reported(fs, y)
                      /\ \A v \in Reported(fs, y) : v <= m.visitors[y]
                 ELSE m.visitors[y] = Null
    <3>1. CASE dated = {}
      BY <1>4, <1>7, <2>3, <3>1 DEF stored
    <3>2. CASE dated # {}
      <4>1. m.visitors = visitors
        BY <1>7, <2>3, <3>2 DEF stored
      <4> QED BY <1>7, <3>2, <4>1
    <3> QED BY <3>1, <3>2
  <2> QED BY <1>8, <2>2, <2>3, <2>4, <2>5, <2>6 DEF DescribesWith, dated
<1> QED BY <1>9, <1>10

(* The cities of the enrichments: no more of them than of enrichments.     *)
LEMMA FewCities ==
    ASSUME NEW es \in Seq(EnrichmentType)
    PROVE  /\ CitiesToResolve(es) \in SUBSET Pages
           /\ CityItems(es) \in SUBSET Items
           /\ IsFiniteSet(CitiesToResolve(es)) /\ Cardinality(CitiesToResolve(es)) <= Len(es)
           /\ IsFiniteSet(CityItems(es)) /\ Cardinality(CityItems(es)) <= Len(es)
<1>1. DOMAIN es = 1 .. Len(es) /\ Len(es) \in Nat
  BY LenProperties
<1>2. \A k \in DOMAIN es : es[k].cityName \in Pages \cup {Null} /\ es[k].city \in Items \cup {Null}
  <2>1. \A k \in DOMAIN es : es[k] \in EnrichmentType
    BY <1>1, ElementOfSeq
  <2> QED BY <2>1 DEF EnrichmentType
<1>3. IsFiniteSet(DOMAIN es) /\ Cardinality(DOMAIN es) = Len(es)
  <2>1. IsFiniteSet(1 .. Len(es)) /\ Cardinality(1 .. Len(es)) = Len(es)
    BY <1>1, FS_Interval
  <2> QED BY <1>1, <2>1
<1>4. ASSUME NEW f, NEW K \in SUBSET DOMAIN es, DOMAIN f = K
      PROVE  /\ IsFiniteSet({f[k] : k \in K} \ {Null})
             /\ Cardinality({f[k] : k \in K} \ {Null}) <= Len(es)
  <2> DEFINE T == {f[k] : k \in K}
  <2>1. IsFiniteSet(K) /\ Cardinality(K) <= Len(es)
    BY <1>3, FS_Subset
  <2>2. IsFiniteSet(T) /\ Cardinality(T) <= Cardinality(K)
    BY <1>4, <2>1, FiniteImage
  <2> HIDE DEF T
  <2>3. IsFiniteSet(T \ {Null}) /\ Cardinality(T \ {Null}) <= Cardinality(T)
    BY <2>2, FS_Subset
  <2>4. Cardinality(T \ {Null}) \in Nat /\ Cardinality(T) \in Nat /\ Cardinality(K) \in Nat
    BY <2>1, <2>2, <2>3, FS_CardinalityType
  <2>5. Cardinality(T \ {Null}) <= Len(es)
    BY <1>1, <2>1, <2>2, <2>3, <2>4
  <2> QED BY <2>3, <2>5 DEF T
<1>5. IsFiniteSet(CityItems(es)) /\ Cardinality(CityItems(es)) <= Len(es)
  <2> DEFINE f == [k \in DOMAIN es |-> es[k].city]
  <2>1. CityItems(es) = {f[k] : k \in DOMAIN es} \ {Null}
    BY DEF CityItems
  <2>2. DOMAIN f = DOMAIN es
    OBVIOUS
  <2> HIDE DEF f
  <2> QED BY <1>4, <2>1, <2>2
<1>6. IsFiniteSet(CitiesToResolve(es)) /\ Cardinality(CitiesToResolve(es)) <= Len(es)
  <2> DEFINE K == {k \in DOMAIN es : es[k].city = Null}
             f == [k \in K |-> es[k].cityName]
  <2>1. CitiesToResolve(es) = {f[k] : k \in K} \ {Null}
    BY DEF CitiesToResolve
  <2>2. DOMAIN f = K /\ K \in SUBSET DOMAIN es
    OBVIOUS
  <2> HIDE DEF f, K
  <2> QED BY <1>4, <2>1, <2>2
<1> QED BY <1>2, <1>5, <1>6 DEF CitiesToResolve, CityItems

LEMMA ListedOnce ==
    ASSUME NEW S, IsFiniteSet(S)
    PROVE  /\ SetToSeq(S) \in Seq(S)
           /\ Len(SetToSeq(S)) = Cardinality(S)
           /\ Range(SetToSeq(S)) = S
           /\ IsInjective(SetToSeq(S))
<1> DEFINE s == SetToSeq(S)
<1>1. s \in SetToSeqs(S)
  BY SetToSeqLists
<1> HIDE DEF s
<1>2. /\ s \in Seq(S) /\ Len(s) = Cardinality(S)
      /\ \A i, j \in DOMAIN s : s[i] = s[j] => i = j
      /\ \A x \in S : \E i \in DOMAIN s : s[i] = x
  BY <1>1, Listing
<1>3. Range(s) \subseteq S
  BY <1>2, RangeOfSeq
<1>4. Range(s) = S
  BY <1>2, <1>3 DEF Range
<1> QED BY <1>2, <1>4 DEF IsInjective, s

LEMMA MappedSeq ==
    ASSUME NEW S, NEW T, NEW s \in Seq(S), NEW f, DOMAIN f = DOMAIN s,
           f = [k \in DOMAIN s |-> f[k]], \A k \in DOMAIN s : f[k] \in T
    PROVE  f \in Seq(T) /\ Len(f) = Len(s)
<1>1. Len(s) \in Nat /\ DOMAIN s = 1 .. Len(s)
  BY LenProperties
<1>2. f \in [1 .. Len(s) -> T]
  BY <1>1
<1>3. f \in Seq(T)
  BY <1>1, <1>2, SeqDef
<1> QED BY <1>1, <1>2, <1>3, LenProperties

LEMMA EndFactsKeeps ==
    ASSUME FetchInv, world \in Worlds, EndFacts
    PROVE  FetchInv'
<1>1. /\ call = "enrich" /\ todo = <<>> /\ call' = "cities"
      /\ enrichments' = [k \in DOMAIN entries |-> Preliminary(entries[k])]
      /\ todo' = SetToSeq(CitiesToResolve(enrichments'))
      /\ UNCHANGED <<world, attempt, entries, mapping, rows, requests, malformed>>
  BY DEF EndFacts, Map
<1>2. /\ entries \in Seq(EntryType)
      /\ DOMAIN entries = 1 .. Len(entries) /\ Len(entries) \in Nat
      /\ \A k \in DOMAIN entries :
             /\ entries[k] \in EntryType
             /\ entries[k].count # Null /\ entries[k].year # Null
  <2>1. entries \in Seq(EntryType)
    BY DEF FetchInv, TypeOK
  <2> QED BY <1>1, <2>1, LenProperties, ElementOfSeq DEF FetchInv, EntriesInv, Enriching
<1>3. /\ rows \in Seq(world.facts) /\ rows \in Seq(Facts)
      /\ \A k \in DOMAIN entries : FactsOf(entries[k].title) \subseteq Range(rows)
  <2>1. rows \in Seq(world.facts)
    BY <1>1 DEF FetchInv, RowsInv
  <2>2. rows \in Seq(Facts)
    BY <2>1, WorldTypes, SeqMonotonic
  <2>3. Range(todo) = {}
    BY <1>1 DEF Range
  <2> QED BY <1>1, <2>1, <2>2, <2>3 DEF FetchInv, RowsInv
<1>4. \A k \in DOMAIN entries : /\ enrichments'[k] = Preliminary(entries[k])
                                /\ enrichments'[k] \in EnrichmentType
                                /\ enrichments'[k].visitors # NoCounts
  BY <1>1, <1>2, <1>3, PreliminaryType
<1>5. /\ enrichments' \in Seq(EnrichmentType) /\ Len(enrichments') = Len(entries)
      /\ DOMAIN enrichments' = DOMAIN entries
  <2>1. DOMAIN enrichments' = DOMAIN entries
        /\ enrichments' = [k \in DOMAIN entries |-> enrichments'[k]]
    BY <1>1
  <2> QED BY <1>2, <1>4, <2>1, MappedSeq
<1>6. /\ todo' \in Seq(CitiesToResolve(enrichments')) /\ todo' \in Seq(Pages)
      /\ Range(todo') = CitiesToResolve(enrichments')
      /\ Len(todo') <= Len(entries)
      /\ CitiesToResolve(enrichments') \in SUBSET Pages
  <2> DEFINE S == CitiesToResolve(enrichments')
  <2>1. S \in SUBSET Pages /\ IsFiniteSet(S) /\ Cardinality(S) <= Len(enrichments')
    BY <1>5, FewCities
  <2> HIDE DEF S
  <2>2. /\ SetToSeq(S) \in Seq(S)
        /\ Len(SetToSeq(S)) = Cardinality(S)
        /\ Range(SetToSeq(S)) = S
    BY <2>1, ListedOnce
  <2>3. SetToSeq(S) \in Seq(Pages)
    BY <2>1, <2>2, SeqMonotonic
  <2> QED BY <1>1, <1>5, <2>1, <2>2, <2>3 DEF S
<1>7. TypeOK'
  <2>1. todo' \in Seq(Pages \cup Items \cup {Null})
    BY <1>6, SeqMonotonic
  <2> QED BY <1>1, <1>5, <2>1 DEF FetchInv, TypeOK, Calls
<1>8. TodoInv'
  BY <1>1, <1>6 DEF FetchInv, TodoInv
<1>9. EntriesInv'
  BY <1>1, SameAnswers DEF FetchInv, EntriesInv, Enriching
<1>10. MappingInv'
  <2>1. mapping' = Unresolved
    BY <1>1 DEF FetchInv, MappingInv
  <2>2. mapping' \in [Pages -> Items \cup {Null}] /\ \A p \in Pages : mapping'[p] = Null
    BY <2>1 DEF Unresolved
  <2>3. Resolving(CityAnswers, CitiesToResolve(enrichments))'
    BY <1>6, <2>2 DEF Resolving
  <2> QED BY <1>1, <2>2, <2>3 DEF MappingInv
<1>11. RowsInv'
  BY <1>1 DEF RowsInv
<1>12. EnrichmentsInv'
  <2>1. ASSUME ~malformed, NEW k \in DOMAIN entries
        PROVE  DescribesWith(enrichments'[k], Listed[k], Null)
    <3>1. /\ Len(entries) = Len(Listed)
          /\ entries[k] = [Listed[k] EXCEPT !.title = KnownPage(@)]
      BY <1>1, <2>1 DEF FetchInv, EntriesInv, Enriching
    <3>2. Listed[k] \in EntryType
      <4>1. Listed \in Seq(EntryType)
        <5>1. /\ ListPage \in Seq(EntryType)
              /\ \A i \in DOMAIN ListPage : ListPage[i].count # Null => ListPage[i].year # Null
          BY ListPageType
        <5>2. OverThreshold(ListPage) \in Seq(EntryType)
          BY <5>1, OverThresholdEntries
        <5> QED BY <5>2 DEF Listed, ListPage
      <4> QED BY <1>2, <3>1, <4>1, ElementOfSeq
    <3>3. entries[k] \in EntryType /\ FactsOf(entries[k].title) \subseteq Range(rows)
      BY <1>2, <1>3
    <3> DEFINE e == entries[k]
               l == Listed[k]
    <3> HIDE DEF e, l
    <3>4. DescribesWith(Preliminary(e), l, Null)
      BY <1>3, <3>1, <3>2, <3>3, PreliminaryDescribes DEF e, l
    <3> QED BY <1>4, <3>4 DEF e, l
  <2>2. Listed' = Listed /\ \A k \in DOMAIN entries :
            DescribesWith(enrichments'[k], Listed[k], Null) =>
                DescribesWith(enrichments[k], Listed[k], Null)'
    <3>1. Listed' = Listed
      BY <1>1, SameAnswers
    <3>2. \A m, e : DescribesWith(m, e, Null) => DescribesWith(m, e, Null)'
      BY <1>1, SameDescriptions
    <3>3. ASSUME NEW k \in DOMAIN entries, DescribesWith(enrichments'[k], Listed[k], Null)
          PROVE  DescribesWith(enrichments[k], Listed[k], Null)'
      <4>1. PICK m, e : m = enrichments'[k] /\ e = Listed[k]
        OBVIOUS
      <4>2. DescribesWith(m, e, Null)'
        BY <3>2, <3>3, <4>1
      <4> QED BY <3>1, <4>1, <4>2 DEF DescribesWith
    <3> QED BY <3>1, <3>3
  <2> QED BY <1>1, <1>4, <1>5, <2>1, <2>2 DEF EnrichmentsInv, EnrichedAsListed
<1>13. PopulationsInv'
  BY <1>1 DEF PopulationsInv
<1>14. BudgetInv'
  <2>1. 2 \in 1 .. 3 /\ call = Chunked[2] /\ call' = Chunked[2 + 1]
    BY <1>1, Kinds
  <2>2. Len(entries) <= Len(ListPage) /\ Len(ListPage) \in Nat /\ Len(todo') \in Nat
    <3>1. Len(entries) <= Len(ListPage)
      BY <1>1 DEF FetchInv, EntriesInv, Enriching
    <3> QED BY <1>6, <3>1, ListPageType, LenProperties
  <2>3. Len(todo') <= Len(ListPage)
    BY <1>2, <1>6, <2>2
  <2> QED BY <1>1, <2>1, <2>2, <2>3, NextBudget
<1> QED BY <1>7, <1>8, <1>9, <1>10, <1>11, <1>12, <1>13, <1>14 DEF FetchInv

-----------------------------------------------------------------------------
(* The cities that Wikidata does not name.                                 *)
LEMMA ListedType ==
    ASSUME world \in Worlds
    PROVE  Listed \in Seq(EntryType) /\ Len(Listed) \in Nat
<1>1. /\ ListPage \in Seq(EntryType)
      /\ \A i \in DOMAIN ListPage : ListPage[i].count # Null => ListPage[i].year # Null
  BY ListPageType
<1>2. OverThreshold(ListPage) \in Seq(EntryType)
  BY <1>1, OverThresholdEntries
<1> QED BY <1>2, LenProperties DEF Listed, ListPage

LEMMA SameEnrichments ==
    ASSUME EnrichmentsInv, UNCHANGED <<world, entries, enrichments>>,
           call' = call \/ (call = "populations" /\ call' = "done"),
           malformed' \in {malformed, TRUE}
    PROVE  EnrichmentsInv'
<1>1. Listed' = Listed
  BY SameAnswers
<1>2. \A m, e : /\ DescribesWith(m, e, Null) => DescribesWith(m, e, Null)'
                /\ Describes(m, e) => Describes(m, e)'
  BY SameDescriptions
<1>3. ASSUME NEW k \in DOMAIN enrichments
      PROVE  /\ DescribesWith(enrichments[k], Listed[k], Null) =>
                    DescribesWith(enrichments[k], Listed[k], Null)'
             /\ Describes(enrichments[k], Listed[k]) =>
                    Describes(enrichments[k], Listed[k])'
  <2>1. PICK m, e : m = enrichments[k] /\ e = Listed[k]
    OBVIOUS
  <2>2. m = enrichments'[k] /\ e = Listed'[k]
    BY <1>1, <2>1
  <2>3. /\ DescribesWith(m, e, Null) => DescribesWith(m, e, Null)'
        /\ Describes(m, e) => Describes(m, e)'
    BY <1>2
  <2> QED BY <2>1, <2>2, <2>3 DEF DescribesWith, Describes
<1>4. ~malformed' => ~malformed
  OBVIOUS
<1> QED BY <1>1, <1>3, <1>4 DEF EnrichmentsInv, EnrichedAsListed

LEMMA AnswerCitiesKeeps ==
    ASSUME FetchInv, world \in Worlds, AnswerCities \/ NoQueryCities
    PROVE  FetchInv'
<1>1. /\ call = "cities" /\ todo # <<>> /\ Answered
      /\ UNCHANGED <<world, call, entries, rows, enrichments>>
      /\ malformed' \in BOOLEAN
      /\ malformed' \in {malformed, TRUE}
  BY DEF AnswerCities, NoQueryCities, Asking, FetchInv, TypeOK
<1>2. todo \in Seq(Pages) /\ mapping \in [Pages -> Items \cup {Null}]
  BY <1>1 DEF FetchInv, TodoInv, MappingInv
<1>3. todo' \in Seq(Pages) /\ attempt' = 1 /\ requests' = requests + 1
  BY <1>1, <1>2, RestOfTodo DEF Answered
<1>4. /\ mapping' \in [Pages -> Items \cup {Null}]
      /\ AnswerCities => mapping' = [p \in Pages |->
             IF p \in Range(Chunk) /\ CityAnswers[p] # Null
             THEN CityAnswers[p] ELSE mapping[p]]
  <2>1. \A p \in Pages : CityAnswers[p] \in Items \cup {Null}
    BY WorldTypes DEF CityAnswers
  <2>2. CASE AnswerCities
    <3>1. mapping' = [p \in Pages |->
              IF p \in Range(Chunk) /\ CityAnswers[p] # Null
              THEN CityAnswers[p] ELSE mapping[p]]
      BY <2>2 DEF AnswerCities, Update, CityAnswers
    <3> QED BY <1>2, <2>1, <3>1
  <2>3. CASE NoQueryCities /\ ~AnswerCities
    BY <1>2, <2>3 DEF NoQueryCities
  <2> QED BY <2>2, <2>3
<1>5. TypeOK'
  <2>1. todo' \in Seq(Pages \cup Items \cup {Null})
    BY <1>3, SeqMonotonic
  <2>2. mapping' \in [Pages -> Pages \cup Items \cup {Null}]
    BY <1>4
  <2>3. attempt' \in 1 .. MaxAttempts /\ requests' \in Nat
    BY <1>3, Settings DEF FetchInv, TypeOK
  <2> QED BY <1>1, <2>1, <2>2, <2>3 DEF FetchInv, TypeOK
<1>6. TodoInv'
  BY <1>1, <1>3 DEF TodoInv
<1>7. EntriesInv'
  <2>1. ~malformed' => ~malformed
    BY <1>1
  <2> QED BY <1>1, <2>1, SameAnswers DEF FetchInv, EntriesInv, Enriching
<1>8. MappingInv'
  <2>1. CASE AnswerCities
    <3>1. malformed' = malformed
      BY <2>1 DEF AnswerCities
    <3>2. ASSUME ~malformed PROVE Resolving(CityAnswers, CitiesToResolve(enrichments))'
      <4>1. Resolving(CityAnswers, CitiesToResolve(enrichments))
        BY <1>1, <3>2 DEF FetchInv, MappingInv
      <4>2. CitiesToResolve(enrichments) \in SUBSET Pages
        BY FewCities DEF FetchInv, TypeOK
      <4>3. /\ CityAnswers' = CityAnswers
            /\ CitiesToResolve(enrichments)' = CitiesToResolve(enrichments)
        BY <1>1, SameAnswers DEF CitiesToResolve
      <4>4. PICK answers, some : answers = CityAnswers /\ some = CitiesToResolve(enrichments)
        OBVIOUS
      <4>5. Resolving(answers, some)'
        BY <1>1, <1>2, <1>4, <2>1, <4>1, <4>2, <4>4, ResolvingStep
      <4> QED BY <4>3, <4>4, <4>5 DEF Resolving
    <3> QED BY <1>1, <1>4, <3>1, <3>2 DEF MappingInv
  <2>2. CASE NoQueryCities
    <3>1. malformed'
      BY <2>2 DEF NoQueryCities
    <3> QED BY <1>1, <1>4, <3>1 DEF MappingInv
  <2> QED BY <2>1, <2>2
<1>9. RowsInv' /\ PopulationsInv'
  BY <1>1 DEF RowsInv, PopulationsInv
<1>10. EnrichmentsInv'
  BY <1>1, SameEnrichments DEF FetchInv
<1>11. BudgetInv'
  <2>1. 3 \in DOMAIN Chunked /\ call = Chunked[3]
    BY <1>1, Kinds
  <2> QED BY <1>1, <1>2, <2>1, AnsweredBudget
<1> QED BY <1>5, <1>6, <1>7, <1>8, <1>9, <1>10, <1>11 DEF FetchInv

(* Only a city without an item is looked up by its name.                   *)
LEMMA WithCityType ==
    ASSUME mapping \in [Pages -> Items \cup {Null}], NEW m \in EnrichmentType
    PROVE  WithCity(m) \in EnrichmentType /\ WithCity(m).visitors = m.visitors
<1>1. CASE m.city # Null \/ m.cityName = Null
  BY <1>1 DEF WithCity
<1>2. CASE m.city = Null /\ m.cityName # Null
  <2>1. m.cityName \in Pages
    BY <1>2 DEF EnrichmentType
  <2>2. WithCity(m) = [m EXCEPT !.city = mapping[m.cityName]]
    BY <1>2 DEF WithCity
  <2> QED BY <2>1, <2>2 DEF EnrichmentType
<1> QED BY <1>1, <1>2

LEMMA WithCityDescribes ==
    ASSUME NEW m \in EnrichmentType, NEW l \in EntryType, DescribesWith(m, l, Null),
           m.city = Null /\ m.cityName # Null => mapping[m.cityName] = CityAnswers[m.cityName]
    PROVE  Describes(WithCity(m), l)
<1> DEFINE fs == FactsOf(KnownPage(l.title))
           found == IF l.city = Null THEN Null ELSE world.itemOf[Canonical(l.city)]
<1>1. \/ \E f \in fs : f.city # Null /\ m.city = f.city /\ m.cityName = f.cityName
      \/ /\ \A f \in fs : f.city = Null
         /\ m.cityName = l.city
         /\ m.city = Null
  BY DEF DescribesWith
<1>2. SUFFICES DescribesWith(WithCity(m), l, found)
  BY DEF Describes
<1> HIDE DEF found
<1>3. CASE \E f \in fs : f.city # Null /\ m.city = f.city /\ m.cityName = f.cityName
  <2>1. WithCity(m) = m
    BY <1>3 DEF WithCity
  <2> QED BY <1>3, <2>1 DEF DescribesWith
<1>4. CASE /\ \A f \in fs : f.city = Null
           /\ m.cityName = l.city
           /\ m.city = Null
  <2>1. CASE l.city = Null
    <3>1. WithCity(m) = m /\ found = Null
      BY <1>4, <2>1 DEF WithCity, found
    <3> QED BY <3>1
  <2>2. CASE l.city # Null
    <3>1. l.city \in Pages
      BY <2>2 DEF EntryType
    <3>2. mapping[l.city] = found
      BY <1>4, <2>2, <3>1 DEF CityAnswers, found
    <3>3. WithCity(m) = [m EXCEPT !.city = found]
      BY <1>4, <2>2, <3>2 DEF WithCity
    <3> DEFINE w == WithCity(m)
    <3>4. /\ w.title = m.title /\ w.item = m.item /\ w.name = m.name
          /\ w.city = found /\ w.cityName = m.cityName /\ w.visitors = m.visitors
      BY <3>3 DEF EnrichmentType
    <3> QED BY <1>4, <3>4 DEF DescribesWith
  <2> QED BY <2>1, <2>2
<1> QED BY <1>1, <1>3, <1>4

LEMMA EndCitiesKeeps ==
    ASSUME FetchInv, world \in Worlds, EndCities
    PROVE  FetchInv'
<1>1. /\ call = "cities" /\ todo = <<>> /\ call' = "populations"
      /\ enrichments' = [k \in DOMAIN enrichments |-> WithCity(enrichments[k])]
      /\ todo' = SetToSeq(CityItems(enrichments'))
      /\ rows' = <<>>
      /\ UNCHANGED <<world, attempt, entries, mapping, requests, malformed>>
  BY DEF EndCities, Map
<1>2. /\ enrichments \in Seq(EnrichmentType)
      /\ DOMAIN enrichments = 1 .. Len(enrichments) /\ Len(enrichments) \in Nat
      /\ mapping \in [Pages -> Items \cup {Null}]
      /\ \A k \in DOMAIN enrichments : enrichments[k] \in EnrichmentType
  <2>1. enrichments \in Seq(EnrichmentType)
    BY DEF FetchInv, TypeOK
  <2> QED BY <1>1, <2>1, LenProperties, ElementOfSeq DEF FetchInv, MappingInv
<1>3. /\ Len(enrichments) = Len(entries)
      /\ \A k \in DOMAIN enrichments : enrichments[k].visitors # NoCounts
  BY <1>1 DEF FetchInv, EnrichmentsInv
<1>4. \A k \in DOMAIN enrichments : /\ enrichments'[k] = WithCity(enrichments[k])
                                    /\ enrichments'[k] \in EnrichmentType
                                    /\ enrichments'[k].visitors # NoCounts
  BY <1>1, <1>2, <1>3, WithCityType
<1>5. /\ enrichments' \in Seq(EnrichmentType) /\ Len(enrichments') = Len(entries)
      /\ DOMAIN enrichments' = DOMAIN enrichments
  <2>1. DOMAIN enrichments' = DOMAIN enrichments
        /\ enrichments' = [k \in DOMAIN enrichments |-> enrichments'[k]]
    BY <1>1
  <2> QED BY <1>2, <1>3, <1>4, <2>1, MappedSeq
<1>6. /\ todo' \in Seq(Items)
      /\ Range(todo') = CityItems(enrichments')
      /\ IsInjective(todo')
      /\ Len(todo') <= Len(entries)
  <2> DEFINE S == CityItems(enrichments')
  <2>1. S \in SUBSET Items /\ IsFiniteSet(S) /\ Cardinality(S) <= Len(enrichments')
    BY <1>5, FewCities
  <2> HIDE DEF S
  <2>2. /\ SetToSeq(S) \in Seq(S)
        /\ Len(SetToSeq(S)) = Cardinality(S)
        /\ Range(SetToSeq(S)) = S
        /\ IsInjective(SetToSeq(S))
    BY <2>1, ListedOnce
  <2>3. SetToSeq(S) \in Seq(Items)
    BY <2>1, <2>2, SeqMonotonic
  <2> QED BY <1>1, <1>5, <2>1, <2>2, <2>3 DEF S
<1>7. TypeOK'
  <2>1. todo' \in Seq(Pages \cup Items \cup {Null})
    BY <1>6, SeqMonotonic
  <2>2. rows' \in Seq(Facts \cup Items)
    BY <1>1, EmptySeq
  <2> QED BY <1>1, <1>5, <2>1, <2>2 DEF FetchInv, TypeOK, Calls
<1>8. TodoInv'
  BY <1>1, <1>6 DEF FetchInv, TodoInv
<1>9. EntriesInv'
  BY <1>1, SameAnswers DEF FetchInv, EntriesInv, Enriching
<1>10. MappingInv' /\ RowsInv'
  BY <1>1 DEF MappingInv, RowsInv
<1>11. EnrichmentsInv'
  <2>1. ASSUME ~malformed, NEW k \in DOMAIN enrichments
        PROVE  Describes(enrichments'[k], Listed[k])
    <3>1. Len(entries) = Len(Listed)
      BY <1>1, <2>1 DEF FetchInv, EntriesInv, Enriching
    <3>2. Listed[k] \in EntryType
      BY <1>2, <1>3, <3>1, ListedType, ElementOfSeq
    <3> DEFINE m == enrichments[k]
               l == Listed[k]
    <3>3. DescribesWith(m, l, Null)
      BY <1>1, <2>1 DEF FetchInv, EnrichmentsInv
    <3>4. ASSUME m.city = Null, m.cityName # Null
          PROVE  mapping[m.cityName] = CityAnswers[m.cityName]
      <4>1. Resolving(CityAnswers, CitiesToResolve(enrichments))
        BY <1>1, <2>1 DEF FetchInv, MappingInv
      <4>2. m.cityName \in CitiesToResolve(enrichments)
        BY <3>4 DEF CitiesToResolve
      <4>3. Range(todo) = {}
        BY <1>1 DEF Range
      <4> QED BY <4>1, <4>2, <4>3 DEF Resolving
    <3>5. m \in EnrichmentType /\ enrichments'[k] = WithCity(m)
      BY <1>2, <1>4
    <3> HIDE DEF m, l
    <3>6. Describes(WithCity(m), l)
      BY <3>2, <3>3, <3>4, <3>5, WithCityDescribes DEF l
    <3> QED BY <3>5, <3>6 DEF l
  <2>2. Listed' = Listed
    BY <1>1, SameAnswers
  <2>3. \A m, e : Describes(m, e) => Describes(m, e)'
    BY <1>1, SameDescriptions
  <2>4. ASSUME ~malformed, NEW k \in DOMAIN enrichments
        PROVE  Describes(enrichments[k], Listed[k])'
    <3>1. PICK m, e : m = enrichments'[k] /\ e = Listed[k]
      OBVIOUS
    <3>2. Describes(m, e)'
      BY <2>1, <2>3, <2>4, <3>1
    <3> QED BY <2>2, <3>1, <3>2 DEF Describes, DescribesWith
  <2>5. ~malformed => Len(enrichments') = Len(Listed)
    BY <1>1, <1>5 DEF FetchInv, EntriesInv, Enriching
  <2> QED BY <1>1, <1>4, <1>5, <2>2, <2>4, <2>5 DEF EnrichmentsInv, EnrichedAsListed
<1>12. PopulationsInv'
  <2>1. IsInjective(rows') /\ Range(rows') = {}
    BY <1>1 DEF IsInjective, Range
  <2> QED BY <1>1, <1>6, <2>1 DEF PopulationsInv
<1>13. BudgetInv'
  <2>1. 3 \in 1 .. 3 /\ call = Chunked[3] /\ call' = Chunked[3 + 1]
    BY <1>1, Kinds
  <2>2. Len(entries) <= Len(ListPage) /\ Len(ListPage) \in Nat /\ Len(todo') \in Nat
    <3>1. Len(entries) <= Len(ListPage)
      BY <1>1 DEF FetchInv, EntriesInv, Enriching
    <3> QED BY <1>6, <3>1, ListPageType, LenProperties
  <2>3. Len(todo') <= Len(ListPage)
    BY <1>2, <1>3, <1>6, <2>2
  <2> QED BY <1>1, <2>1, <2>2, <2>3, NextBudget
<1> QED BY <1>7, <1>8, <1>9, <1>10, <1>11, <1>12, <1>13 DEF FetchInv

-----------------------------------------------------------------------------
(* The populations: every city is asked for once.                          *)
LEMMA AnswerPopulationsKeeps ==
    ASSUME FetchInv, world \in Worlds, AnswerPopulations
    PROVE  FetchInv'
<1> DEFINE F == Range(Chunk) \cap world.populated
           C == CityItems(enrichments)
<1>1. /\ call = "populations" /\ todo # <<>> /\ Answered
      /\ UNCHANGED <<world, call, entries, mapping, enrichments, malformed>>
  BY DEF AnswerPopulations, Asking
<1>2. PICK order \in SetToSeqs(F) : rows' = rows \o order
  BY DEF AnswerPopulations
<1>3. todo \in Seq(Items)
  BY <1>1 DEF FetchInv, TodoInv
<1>4. todo' \in Seq(Items) /\ attempt' = 1 /\ requests' = requests + 1
  BY <1>1, <1>3, RestOfTodo DEF Answered
<1>5. /\ IsInjective(todo) /\ IsInjective(rows)
      /\ Range(todo) \subseteq C
      /\ Range(rows) = (C \ Range(todo)) \cap world.populated
  BY <1>1 DEF FetchInv, PopulationsInv
<1>6. /\ Range(todo) = Range(Chunk) \cup Range(todo')
      /\ IsInjective(todo')
      /\ Range(Chunk) \cap Range(todo') = {}
  BY <1>1, <1>3, <1>5, RangeOfRest
<1>7. C \in SUBSET Items /\ IsFiniteSet(C)
  BY FewCities DEF FetchInv, TypeOK
<1> HIDE DEF C
<1>8. F \in SUBSET C /\ F \in SUBSET (Facts \cup Items) /\ Range(rows) \cap F = {}
  BY <1>5, <1>6, <1>7
<1>9. IsFiniteSet(F)
  BY <1>7, <1>8, FS_Subset
<1>10. /\ rows' \in Seq(Facts \cup Items)
       /\ Range(rows') = Range(rows) \cup F
       /\ IsInjective(rows')
  <2>1. rows \in Seq(Facts \cup Items)
    BY DEF FetchInv, TypeOK
  <2> HIDE DEF F
  <2> QED BY <1>2, <1>5, <1>8, <1>9, <2>1, RowsGrow
<1>11. TypeOK'
  <2>1. todo' \in Seq(Pages \cup Items \cup {Null})
    BY <1>4, SeqMonotonic
  <2> QED BY <1>1, <1>4, <1>10, <2>1, Settings DEF FetchInv, TypeOK
<1>12. TodoInv'
  BY <1>1, <1>4 DEF TodoInv
<1>13. EntriesInv'
  BY <1>1, SameAnswers DEF FetchInv, EntriesInv, Enriching
<1>14. MappingInv' /\ RowsInv'
  BY <1>1 DEF MappingInv, RowsInv
<1>15. EnrichmentsInv'
  BY <1>1, SameEnrichments DEF FetchInv, TypeOK
<1>16. PopulationsInv'
  <2>1. CityItems(enrichments') = C
    BY <1>1 DEF C
  <2>2. Range(todo') \subseteq C /\ Range(rows') = (C \ Range(todo')) \cap world.populated
    BY <1>5, <1>6, <1>10
  <2> QED BY <1>1, <1>6, <1>10, <2>1, <2>2 DEF PopulationsInv
<1>17. BudgetInv'
  <2>1. 4 \in DOMAIN Chunked /\ call = Chunked[4]
    BY <1>1, Kinds
  <2> QED BY <1>1, <1>3, <2>1, AnsweredBudget
<1> QED BY <1>11, <1>12, <1>13, <1>14, <1>15, <1>16, <1>17 DEF FetchInv

LEMMA EndPopulationsKeeps ==
    ASSUME FetchInv, world \in Worlds, EndPopulations
    PROVE  FetchInv'
<1>1. /\ call = "populations" /\ todo = <<>> /\ call' = "done"
      /\ UNCHANGED <<world, todo, attempt, entries, mapping, rows, enrichments,
                     requests, malformed>>
  BY DEF EndPopulations
<1>2. TypeOK' /\ TodoInv'
  BY <1>1 DEF FetchInv, TypeOK, TodoInv
<1>3. EntriesInv'
  BY <1>1, SameAnswers DEF FetchInv, EntriesInv, Enriching
<1>4. MappingInv' /\ RowsInv'
  BY <1>1 DEF MappingInv, RowsInv
<1>5. EnrichmentsInv'
  BY <1>1, SameEnrichments DEF FetchInv, TypeOK
<1>6. PopulationsInv'
  BY <1>1 DEF FetchInv, PopulationsInv, CityItems
<1>7. BudgetInv'
  <2>1. RequestsBounded'
    BY <1>1, Bounded DEF FetchInv, BudgetInv
  <2>2. \A j \in DOMAIN Chunked : call' # Chunked[j]
    BY <1>1, Kinds DEF Calls
  <2> QED BY <1>1, <2>1, <2>2 DEF BudgetInv
<1> QED BY <1>2, <1>3, <1>4, <1>5, <1>6, <1>7 DEF FetchInv

-----------------------------------------------------------------------------
LEMMA StartKeeps ==
    ASSUME Init
    PROVE  FetchInv
<1>1. /\ world \in Worlds /\ call = "list" /\ todo = <<Null>> /\ attempt = 1
      /\ entries = <<>> /\ mapping = Unresolved /\ rows = <<>> /\ enrichments = <<>>
      /\ requests = 0 /\ malformed = FALSE
  BY DEF Init
<1>2. TypeOK
  <2>1. <<Null>> \in Seq(Pages \cup Items \cup {Null})
    OBVIOUS
  <2>2. mapping \in [Pages -> Pages \cup Items \cup {Null}]
    BY <1>1 DEF Unresolved
  <2>3. world \in WorldType
    BY <1>1, WorldTypes
  <2>4. attempt \in 1 .. MaxAttempts /\ requests \in Nat
    BY <1>1, Settings
  <2>5. /\ entries \in Seq(EntryType) /\ enrichments \in Seq(EnrichmentType)
        /\ rows \in Seq(Facts \cup Items)
    BY <1>1, EmptySeq
  <2>6. call \in Calls /\ todo \in Seq(Pages \cup Items \cup {Null})
    BY <1>1, <2>1 DEF Calls
  <2>7. malformed \in BOOLEAN
    BY <1>1
  <2> QED BY <2>2, <2>3, <2>4, <2>5, <2>6, <2>7 DEF TypeOK
<1>3. TodoInv
  BY <1>1 DEF TodoInv
<1>4. EntriesInv /\ MappingInv /\ RowsInv /\ PopulationsInv
  BY <1>1 DEF EntriesInv, MappingInv, RowsInv, PopulationsInv, Enriching
<1>5. EnrichmentsInv
  BY <1>1 DEF EnrichmentsInv, EnrichedAsListed
<1>6. BudgetInv
  <2> DEFINE C == Chunks(Len(ListPage))
  <2>1. C \in Nat
    BY <1>1, ListPageType, ChunksCounted
  <2>2. RequestsBounded <=> requests <= MaxAttempts * (1 + 4 * C)
    BY DEF RequestsBounded, ListPage
  <2> HIDE DEF C
  <2>3. 0 * MaxAttempts <= (1 + 4 * C) * MaxAttempts /\ 0 * MaxAttempts = 0
    BY <2>1, Products, Settings
  <2>4. (1 + 4 * C) * MaxAttempts = MaxAttempts * (1 + 4 * C)
    BY <2>1, Settings
  <2>5. RequestsBounded
    BY <1>1, <2>2, <2>3, <2>4
  <2>6. \A j \in DOMAIN Chunked : call # Chunked[j]
    BY <1>1, Kinds
  <2> QED BY <1>1, <2>5, <2>6 DEF BudgetInv
<1> QED BY <1>2, <1>3, <1>4, <1>5, <1>6 DEF FetchInv

(* A request that fails for good, and rows that cannot be read.            *)
LEMMA ErrorsKeep ==
    ASSUME FetchInv, world \in Worlds,
           GiveUp \/ Refuse \/ Break \/ NoObject \/ Malformed \/ Unreadable
    PROVE  FetchInv'
<1>1. malformed \in BOOLEAN
  BY DEF FetchInv, TypeOK
<1>2. CASE GiveUp \/ Refuse \/ Break
  <2>1. /\ call \in Calls /\ todo # <<>> /\ call' \in Errors
        /\ UNCHANGED <<world, todo, attempt, entries, mapping, rows, enrichments>>
        /\ requests' = requests + 1
        /\ malformed' = malformed
    BY <1>2 DEF GiveUp, Refuse, Break, Raise, Errors
  <2> QED BY <1>1, <2>1, FailureKeeps
<1>3. CASE NoObject \/ Malformed
  <2>1. /\ call \in Calls /\ todo # <<>> /\ call' \in Errors
        /\ UNCHANGED <<world, todo, attempt, entries, mapping, rows, enrichments>>
        /\ requests' = requests + 1
        /\ malformed' = TRUE
    BY <1>3 DEF NoObject, Malformed, Raise, Errors, Calls
  <2>2. malformed' \in BOOLEAN
    BY <2>1
  <2> QED BY <2>1, <2>2, FailureKeeps
<1>4. CASE Unreadable
  <2>1. /\ call \in Calls /\ call' \in Errors
        /\ UNCHANGED <<world, todo, attempt, entries, mapping, rows, enrichments>>
        /\ requests' = requests
        /\ malformed' = malformed
    BY <1>4 DEF Unreadable, Errors, Calls
  <2> QED BY <1>1, <2>1, FailureKeeps
<1> QED BY <1>2, <1>3, <1>4

LEMMA StutterKeeps ==
    ASSUME FetchInv, UNCHANGED vars
    PROVE  FetchInv'
<1>1. UNCHANGED <<world, call, todo, attempt, entries, mapping, rows, enrichments,
                  requests, malformed>>
  BY DEF vars
<1>2. TypeOK' /\ TodoInv'
  BY <1>1 DEF FetchInv, TypeOK, TodoInv
<1>3. EntriesInv' /\ MappingInv' /\ RowsInv' /\ EnrichmentsInv' /\ PopulationsInv'
  BY <1>1, PartsKept
<1>4. BudgetInv'
  BY <1>1, SameAnswers DEF FetchInv, BudgetInv, RequestsBounded, ListPage
<1> QED BY <1>2, <1>3, <1>4 DEF FetchInv

LEMMA SameWorld == [Next]_vars => world' = world
<1>1. ASSUME Next PROVE world' = world
  BY <1>1 DEF Next, Retry, GiveUp, Refuse, Break, NoObject, Malformed, Raise,
     AnswerList, AnswerTitles, NoQueryTitles, EndTitles, AnswerFacts, EndFacts,
     AnswerCities, NoQueryCities, EndCities, AnswerPopulations, EndPopulations,
     Unreadable
<1> QED BY <1>1 DEF vars

(* What the services know does not change while they are asked, and the    *)
(* invariant of the fetch holds whatever they know, for every list page,   *)
(* chunk size and number of attempts, and whatever the requests suffer.    *)
THEOREM FetchCorrect == Spec => [](FetchInv /\ world \in Worlds)
<1>1. Init => FetchInv /\ world \in Worlds
  BY StartKeeps DEF Init
<1>2. FetchInv /\ world \in Worlds /\ [Next]_vars => (FetchInv /\ world \in Worlds)'
  <2> SUFFICES ASSUME FetchInv, world \in Worlds, [Next]_vars
               PROVE  FetchInv' /\ world' \in Worlds
    OBVIOUS
  <2>1. world' \in Worlds
    BY SameWorld
  <2>2. CASE Retry
    BY <2>1, <2>2, RetryKeeps
  <2>3. CASE GiveUp \/ Refuse \/ Break \/ NoObject \/ Malformed \/ Unreadable
    BY <2>1, <2>3, ErrorsKeep
  <2>4. CASE AnswerList
    BY <2>1, <2>4, AnswerListKeeps
  <2>5. CASE AnswerTitles \/ NoQueryTitles
    BY <2>1, <2>5, AnswerTitlesKeeps
  <2>6. CASE EndTitles
    BY <2>1, <2>6, EndTitlesKeeps
  <2>7. CASE AnswerFacts
    BY <2>1, <2>7, AnswerFactsKeeps
  <2>8. CASE EndFacts
    BY <2>1, <2>8, EndFactsKeeps
  <2>9. CASE AnswerCities \/ NoQueryCities
    BY <2>1, <2>9, AnswerCitiesKeeps
  <2>10. CASE EndCities
    BY <2>1, <2>10, EndCitiesKeeps
  <2>11. CASE AnswerPopulations
    BY <2>1, <2>11, AnswerPopulationsKeeps
  <2>12. CASE EndPopulations
    BY <2>1, <2>12, EndPopulationsKeeps
  <2>13. CASE UNCHANGED vars
    BY <2>1, <2>13, StutterKeeps
  <2> QED BY <2>1, <2>2, <2>3, <2>4, <2>5, <2>6, <2>7, <2>8, <2>9, <2>10, <2>11,
             <2>12, <2>13 DEF Next
<1> QED BY <1>1, <1>2, PTL DEF Spec

(* The invariant that the run "fetch" checks holds in every state.         *)
THEOREM FetchInvariant == Spec => []FetchInv
BY FetchCorrect, PTL

(* One enrichment per museum over the threshold, in the order of the list, *)
(* and each describes its own museum: neither chunks nor redirects nor the *)
(* order of SPARQL rows attach a fact to the wrong one.                    *)
THEOREM EveryEnrichmentAsListed == Spec => []EnrichedAsListed
<1>1. FetchInv => EnrichedAsListed
  BY DEF FetchInv, EnrichmentsInv
<1> QED BY <1>1, FetchCorrect, PTL

(* Every enrichment has a visitor record, even after malformed answers.    *)
THEOREM VisitorsOfEveryMuseum == Spec => []EveryMuseumHasVisitors
<1>1. FetchInv => EveryMuseumHasVisitors
  BY DEF FetchInv, EnrichmentsInv, EveryMuseumHasVisitors
<1> QED BY <1>1, FetchCorrect, PTL

(* In the end the populations received are those of the cities of the      *)
(* enrichments that Wikidata has one for, each once.                       *)
THEOREM PopulationsOnce == Spec => []PopulationsOfCities
<1>1. FetchInv => PopulationsOfCities
  <2> SUFFICES ASSUME FetchInv, call = "done"
               PROVE  IsInjective(rows) /\ Range(rows) = CityItems(enrichments) \cap world.populated
    BY DEF PopulationsOfCities
  <2>1. Range(todo) = {}
    BY DEF FetchInv, TodoInv, Range
  <2> QED BY <2>1 DEF FetchInv, PopulationsInv
<1> QED BY <1>1, FetchCorrect, PTL

(* The requests of one fetch are bounded by the length of the list page,   *)
(* whatever fails and is tried again.                                      *)
THEOREM BoundedRequests == Spec => []RequestsBounded
<1>1. FetchInv => RequestsBounded
  BY DEF FetchInv, BudgetInv
<1> QED BY <1>1, FetchCorrect, PTL
=============================================================================
