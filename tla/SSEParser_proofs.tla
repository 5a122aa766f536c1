--------------------------- MODULE SSEParser_proofs ---------------------------
(***************************************************************************)
(* Proofs about SSEParser, for any lines and bounds.                       *)
(***************************************************************************)
EXTENDS SSEParser, FiniteSetTheorems, SequenceTheorems, TLAPS

-----------------------------------------------------------------------------
(* Sizes *)

\* One cell for each byte.
Cells(sizes) == UNION {{i} \X (1 .. sizes[i]) : i \in DOMAIN sizes}

LEMMA Row ==
  ASSUME NEW i, NEW k \in Nat
  PROVE  IsFiniteSet({i} \X (1 .. k)) /\ Cardinality({i} \X (1 .. k)) = k
<1>1. IsFiniteSet({i}) /\ Cardinality({i}) = 1
  BY FS_Singleton
<1>2. IsFiniteSet(1 .. k) /\ Cardinality(1 .. k) = k
  <2>1. 1 \in Int /\ k \in Int
    OBVIOUS
  <2>2. Cardinality(1 .. k) = IF 1 > k THEN 0 ELSE k - 1 + 1
    BY <2>1, FS_Interval
  <2> QED
    BY <2>1, <2>2, FS_Interval
<1>3. /\ IsFiniteSet({i} \X (1 .. k))
      /\ Cardinality({i} \X (1 .. k)) = Cardinality({i}) * Cardinality(1 .. k)
  BY <1>1, <1>2, FS_Product
<1> QED
  BY <1>1, <1>2, <1>3

LEMMA CellsFinite ==
  ASSUME NEW n \in Nat, NEW f \in [1 .. n -> Nat]
  PROVE  IsFiniteSet(Cells(f)) /\ Total(f) \in Nat /\ Total(f) = Cardinality(Cells(f))
<1> DEFINE rows == {{i} \X (1 .. f[i]) : i \in 1 .. n}
           row == [i \in 1 .. n |-> {i} \X (1 .. f[i])]
<1>1. IsFiniteSet(1 .. n)
  BY FS_Interval
<1>2. row \in Surjection(1 .. n, rows)
  BY DEF Surjection
<1>3. IsFiniteSet(rows)
  <2> HIDE DEF row, rows
  <2> QED
    BY <1>1, <1>2, FS_Surjection
<1>4. \A r \in rows : IsFiniteSet(r)
  <2> SUFFICES ASSUME NEW i \in 1 .. n PROVE IsFiniteSet({i} \X (1 .. f[i]))
    OBVIOUS
  <2>1. f[i] \in Nat
    OBVIOUS
  <2> QED
    BY <2>1, Row
<1>5. IsFiniteSet(UNION rows)
  <2> HIDE DEF rows
  <2> QED
    BY <1>3, <1>4, FS_UNION
<1>6. Cells(f) = UNION rows
  BY DEF Cells
<1> QED
  BY <1>5, <1>6, FS_CardinalityType DEF Cells, Total

LEMMA TotalEmpty ==
  ASSUME NEW f, DOMAIN f = {}
  PROVE  Total(f) = 0
<1>1. UNION {{i} \X (1 .. f[i]) : i \in DOMAIN f} = {}
  OBVIOUS
<1> QED
  BY <1>1, FS_EmptySet DEF Total

LEMMA TotalAppend ==
  ASSUME NEW n \in Nat, NEW f \in [1 .. n -> Nat], NEW g \in [1 .. n + 1 -> Nat],
         \A i \in 1 .. n : g[i] = f[i]
  PROVE  Total(g) = Total(f) + g[n + 1]
<1>1. g[n + 1] \in Nat /\ n + 1 \in Nat
  OBVIOUS
<1> DEFINE new == {n + 1} \X (1 .. g[n + 1])
<1>2. /\ IsFiniteSet(Cells(f)) /\ Total(f) = Cardinality(Cells(f)) /\ Total(f) \in Nat
      /\ Total(g) = Cardinality(Cells(g))
  BY <1>1, CellsFinite
<1>3. IsFiniteSet(new) /\ Cardinality(new) = g[n + 1]
  BY <1>1, Row
<1>4. Cells(g) = Cells(f) \cup new
  <2>1. /\ DOMAIN f = 1 .. n /\ DOMAIN g = 1 .. n + 1
        /\ 1 .. n + 1 = (1 .. n) \cup {n + 1}
    OBVIOUS
  <2> QED
    BY <2>1 DEF Cells
<1>5. Cells(f) \cap new = {}
  <2>1. n + 1 \notin 1 .. n /\ DOMAIN f = 1 .. n
    OBVIOUS
  <2> QED
    BY <2>1 DEF Cells
<1> HIDE DEF new
<1>6. Cardinality(Cells(f) \cup new) = Cardinality(Cells(f)) + Cardinality(new) - Cardinality(Cells(f) \cap new)
  BY <1>2, <1>3, FS_Union
<1>7. Cardinality(Cells(f) \cap new) = 0
  BY <1>5, FS_EmptySet
<1> QED
  BY <1>1, <1>2, <1>3, <1>4, <1>6, <1>7

LEMMA TotalTail ==
  ASSUME NEW n \in Nat, NEW f \in [1 .. n + 1 -> Nat], NEW g \in [1 .. n -> Nat],
         \A i \in 1 .. n : g[i] = f[i + 1]
  PROVE  Total(f) = f[1] + Total(g)
<1>1. f[1] \in Nat /\ n + 1 \in Nat
  OBVIOUS
<1> DEFINE first == {1} \X (1 .. f[1])
           others == UNION {{i} \X (1 .. f[i]) : i \in 2 .. n + 1}
           shift == [cell \in Cells(g) |-> <<cell[1] + 1, cell[2]>>]
<1>2. /\ IsFiniteSet(Cells(g)) /\ Total(g) = Cardinality(Cells(g)) /\ Total(g) \in Nat
      /\ Total(f) = Cardinality(Cells(f))
  BY <1>1, CellsFinite
<1>3. IsFiniteSet(first) /\ Cardinality(first) = f[1]
  BY <1>1, Row
<1>4. Cells(f) = first \cup others
  <2>1. DOMAIN f = 1 .. n + 1 /\ 1 .. n + 1 = {1} \cup 2 .. n + 1
    OBVIOUS
  <2> QED
    BY <2>1 DEF Cells
<1>5. first \cap others = {}
  <2>1. 1 \notin 2 .. n + 1
    OBVIOUS
  <2> QED
    BY <2>1
<1>6. /\ \A x : x \in Cells(g) <=> \E i \in 1 .. n : \E b \in 1 .. f[i + 1] : x = <<i, b>>
      /\ \A x : x \in others <=> \E i \in 2 .. n + 1 : \E b \in 1 .. f[i] : x = <<i, b>>
  <2>1. DOMAIN g = 1 .. n
    OBVIOUS
  <2> QED
    BY <2>1 DEF Cells
<1>7. shift \in Bijection(Cells(g), others)
  <2>1. shift \in [Cells(g) -> others]
    <3> SUFFICES ASSUME NEW x \in Cells(g) PROVE <<x[1] + 1, x[2]>> \in others
      OBVIOUS
    <3>1. PICK i \in 1 .. n : \E b \in 1 .. f[i + 1] : x = <<i, b>>
      BY <1>6
    <3>2. PICK b \in 1 .. f[i + 1] : x = <<i, b>>
      BY <3>1
    <3>3. i + 1 \in 2 .. n + 1
      OBVIOUS
    <3> HIDE DEF others
    <3> QED
      BY <1>6, <3>2, <3>3
  <2>2. ASSUME NEW x \in Cells(g), NEW y \in Cells(g), shift[x] = shift[y] PROVE x = y
    <3>1. PICK i \in 1 .. n : \E b \in 1 .. f[i + 1] : x = <<i, b>>
      BY <1>6
    <3>2. PICK b \in 1 .. f[i + 1] : x = <<i, b>>
      BY <3>1
    <3>3. PICK j \in 1 .. n : \E c \in 1 .. f[j + 1] : y = <<j, c>>
      BY <1>6
    <3>4. PICK c \in 1 .. f[j + 1] : y = <<j, c>>
      BY <3>3
    <3>5. <<i + 1, b>> = <<j + 1, c>>
      BY <2>2, <3>2, <3>4
    <3> QED
      BY <3>2, <3>4, <3>5
  <2>3. ASSUME NEW y \in others PROVE \E x \in Cells(g) : shift[x] = y
    <3>1. PICK j \in 2 .. n + 1 : \E b \in 1 .. f[j] : y = <<j, b>>
      BY <1>6
    <3>2. PICK b \in 1 .. f[j] : y = <<j, b>>
      BY <3>1
    <3>3. j - 1 \in 1 .. n /\ (j - 1) + 1 = j
      OBVIOUS
    <3>4. <<j - 1, b>> \in Cells(g)
      BY <1>6, <3>2, <3>3
    <3> QED
      BY <3>2, <3>3, <3>4
  <2> HIDE DEF shift, others
  <2> QED
    BY <2>1, <2>2, <2>3 DEF Bijection, Injection, Surjection, IsInjective
<1> HIDE DEF first, others, shift
<1>8. IsFiniteSet(others) /\ Cardinality(others) = Cardinality(Cells(g))
  BY <1>2, <1>7, FS_Bijection DEF ExistsBijection
<1>9. Cardinality(first \cup others) = Cardinality(first) + Cardinality(others) - Cardinality(first \cap others)
  BY <1>3, <1>8, FS_Union
<1>10. Cardinality(first \cap others) = 0
  BY <1>5, FS_EmptySet
<1> QED
  BY <1>1, <1>2, <1>3, <1>4, <1>8, <1>9, <1>10

-----------------------------------------------------------------------------
(* The reference over a block that grows by a line *)

\* Places that have a last one, and an n-th one for every n up to their number.
HasLast(places) == places = {} \/ \E i \in places : \A j \in places : i >= j

Ranked(places) ==
  \A n \in 1 .. Cardinality(places) :
    \E p \in places : Cardinality({q \in places : q <= p}) = n

LEMMA NthIsPlace ==
  ASSUME NEW D, NEW n \in 1 .. Cardinality(D), Ranked(D)
  PROVE  Nth(D, n) \in D
<1> DEFINE here == {p \in D : Cardinality({q \in D : q <= p}) = n}
<1>1. here # {}
  BY DEF Ranked
<1> HIDE DEF here
<1>2. (CHOOSE i \in here : TRUE) \in here
  BY <1>1
<1> QED
  BY <1>2 DEF here, Nth

LEMMA NewPlace ==
  ASSUME NEW m \in Nat, NEW D, D \subseteq 1 .. m, Ranked(D)
  PROVE  /\ IsFiniteSet(D) /\ Cardinality(D) \in Nat
         /\ Cardinality(D \cup {m + 1}) = Cardinality(D) + 1
         /\ Ranked(D \cup {m + 1}) /\ HasLast(D \cup {m + 1})
         /\ \A n \in 1 .. Cardinality(D) : Nth(D \cup {m + 1}, n) = Nth(D, n)
         /\ Nth(D \cup {m + 1}, Cardinality(D) + 1) = m + 1
         /\ Seqs!Max(D \cup {m + 1}) = m + 1
<1> DEFINE E == D \cup {m + 1}
           Rank(p) == Cardinality({q \in D : q <= p})
           RankNew(p) == Cardinality({q \in E : q <= p})
<1>1. /\ m + 1 \notin D
      /\ \A p \in D : p \in Nat /\ p <= m /\ p < m + 1
  OBVIOUS
<1>2. IsFiniteSet(D) /\ Cardinality(D) \in Nat
  <2>1. IsFiniteSet(1 .. m)
    BY FS_Interval
  <2> QED
    BY <2>1, FS_Subset, FS_CardinalityType
<1>3. Cardinality(E) = Cardinality(D) + 1
  BY <1>1, <1>2, FS_AddElement
<1>4. \A p \in D : RankNew(p) = Rank(p) /\ Rank(p) \in Nat /\ Rank(p) <= Cardinality(D)
  <2> SUFFICES ASSUME NEW p \in D
               PROVE  RankNew(p) = Rank(p) /\ Rank(p) \in Nat /\ Rank(p) <= Cardinality(D)
    OBVIOUS
  <2>1. {q \in E : q <= p} = {q \in D : q <= p}
    BY <1>1
  <2>2. {q \in D : q <= p} \subseteq D
    OBVIOUS
  <2> QED
    BY <1>2, <2>1, <2>2, FS_Subset, FS_CardinalityType
<1>5. RankNew(m + 1) = Cardinality(D) + 1
  <2>1. ASSUME NEW q \in E PROVE q <= m + 1
    <3>1. CASE q = m + 1
      BY <3>1
    <3>2. CASE q \in D
      BY <1>1, <3>2
    <3> QED
      BY <3>1, <3>2
  <2>2. {q \in E : q <= m + 1} = E
    BY <2>1
  <2> QED
    BY <1>3, <2>2
<1>6. \A n \in 1 .. Cardinality(D) : {p \in E : RankNew(p) = n} = {p \in D : Rank(p) = n}
  <2> SUFFICES ASSUME NEW n \in 1 .. Cardinality(D)
               PROVE  {p \in E : RankNew(p) = n} = {p \in D : Rank(p) = n}
    OBVIOUS
  <2>1. RankNew(m + 1) # n
    BY <1>2, <1>5
  <2> HIDE DEF RankNew, Rank
  <2> QED
    BY <1>4, <2>1
<1>7. {p \in E : RankNew(p) = Cardinality(D) + 1} = {m + 1}
  <2>1. \A p \in D : RankNew(p) # Cardinality(D) + 1
    BY <1>2, <1>4
  <2> HIDE DEF RankNew, Rank
  <2> QED
    BY <1>5, <2>1
<1>8. \A n \in 1 .. Cardinality(D) : Nth(E, n) = Nth(D, n)
  BY <1>6 DEF Nth
<1>9. Nth(E, Cardinality(D) + 1) = m + 1
  BY <1>7 DEF Nth
<1>10. Ranked(E)
  <2> SUFFICES ASSUME NEW n \in 1 .. Cardinality(E) PROVE \E p \in E : RankNew(p) = n
    BY DEF Ranked
  <2>1. CASE n \in 1 .. Cardinality(D)
    <3>1. PICK p \in D : Rank(p) = n
      BY <2>1 DEF Ranked
    <3> QED
      BY <1>4, <3>1
  <2>2. CASE n = Cardinality(D) + 1
    BY <1>5, <2>2
  <2> QED
    BY <1>2, <1>3, <2>1, <2>2
<1>11. HasLast(E) /\ Seqs!Max(E) = m + 1
  <2>1. \A j \in E : m + 1 >= j
    BY <1>1
  <2>2. \A x \in E : (\A y \in E : x >= y) <=> x = m + 1
    BY <1>1, <2>1
  <2> QED
    BY <2>1, <2>2 DEF HasLast, Seqs!Max
<1> QED
  BY <1>2, <1>3, <1>8, <1>9, <1>10, <1>11

\* What is kept of a line.
AnyLine == [kind : Kinds, value : Seq(STRING), size : Nat, weight : Nat]

LEMMA LineFacts ==
  ASSUME NEW line \in Lines
  PROVE  /\ line \in AnyLine /\ line.kind \in Kinds /\ line.size \in Nat /\ line.weight \in Nat
         /\ line.kind \in {"data", "id", "event"} => line.value[1] \in STRING
         /\ line.kind # "blank"
<1>1. /\ line \in AnyLine
      /\ line.kind \in {"data", "id", "event"} => line.value # << >>
  BY LinesAssumption DEF AnyLine
<1>2. line.kind \in Kinds /\ line.size \in Nat /\ line.weight \in Nat /\ line.value \in Seq(STRING)
  BY <1>1 DEF AnyLine
<1>3. line.value # << >> => line.value[1] \in STRING
  BY <1>2
<1> QED
  BY <1>1, <1>2, <1>3 DEF Kinds

\* The places of a kind are those of the shorter block, and perhaps the new one.
LEMMA AppendLine ==
  ASSUME NEW b \in Seq(Lines), NEW line \in Lines
  PROVE  /\ Append(b, line) \in Seq(Lines)
         /\ Len(b) \in Nat /\ DOMAIN b = 1 .. Len(b)
         /\ DOMAIN Append(b, line) = 1 .. Len(b) + 1
         /\ \A i \in 1 .. Len(b) : Append(b, line)[i] = b[i] /\ b[i] \in Lines
         /\ Append(b, line)[Len(b) + 1] = line
         /\ \A kind : /\ Places(b, kind) \subseteq 1 .. Len(b)
                      /\ Places(Append(b, line), kind) =
                           IF line.kind = kind THEN Places(b, kind) \cup {Len(b) + 1}
                                               ELSE Places(b, kind)
<1> DEFINE r == Append(b, line)
<1>1. /\ r \in Seq(Lines)
      /\ Len(b) \in Nat /\ DOMAIN b = 1 .. Len(b) /\ DOMAIN r = 1 .. Len(b) + 1
      /\ \A i \in 1 .. Len(b) : r[i] = b[i] /\ b[i] \in Lines
      /\ r[Len(b) + 1] = line
  OBVIOUS
<1> HIDE DEF r
<1>2. 1 .. Len(b) + 1 = (1 .. Len(b)) \cup {Len(b) + 1} /\ Len(b) + 1 \notin 1 .. Len(b)
  BY <1>1
<1>3. ASSUME NEW kind
      PROVE  /\ Places(b, kind) \subseteq 1 .. Len(b)
             /\ Places(r, kind) =
                  IF line.kind = kind THEN Places(b, kind) \cup {Len(b) + 1} ELSE Places(b, kind)
  BY <1>1, <1>2 DEF Places
<1> QED
  BY <1>1, <1>3 DEF r

(* What a block must satisfy for the reference to be defined on it; every block
   does, because it grows by one line at a time. *)
BlockOK(b) ==
  /\ b \in Seq(Lines)
  /\ Ranked(Places(b, "data"))
  /\ \A kind \in {"id", "event", "crc"} : HasLast(Places(b, kind))

LEMMA EmptyBlock ==
  /\ BlockOK(<< >>)
  /\ \A kind : Places(<< >>, kind) = {}
  /\ Pieces(<< >>) = << >> /\ DataSize(<< >>) = 0
  /\ \A kind, default : LastOf(<< >>, kind, default) = default
<1>1. \A kind : Places(<< >>, kind) = {}
  BY DEF Places
<1>2. Cardinality({}) = 0 /\ 1 .. 0 = {}
  BY FS_EmptySet
<1>3. BlockOK(<< >>)
  <2>1. Ranked({}) /\ HasLast({})
    BY <1>2 DEF Ranked, HasLast
  <2>2. << >> \in Seq(Lines)
    OBVIOUS
  <2> QED
    BY <1>1, <2>1, <2>2 DEF BlockOK
<1>4. Pieces(<< >>) = << >>
  BY <1>1, <1>2 DEF Pieces
<1>5. DataSize(<< >>) = 0
  <2> DEFINE weights == [i \in DOMAIN << >> |-> IF i \in {} THEN << >>[i].weight ELSE 0]
  <2>1. DOMAIN weights = {}
    OBVIOUS
  <2> HIDE DEF weights
  <2>2. Total(weights) = 0
    BY <2>1, TotalEmpty
  <2> QED
    BY <1>1, <2>2 DEF DataSize, weights
<1>6. \A kind, default : LastOf(<< >>, kind, default) = default
  BY <1>1 DEF LastOf
<1> QED
  BY <1>1, <1>3, <1>4, <1>5, <1>6

LEMMA AppendBlock ==
  ASSUME NEW b, BlockOK(b), NEW line \in Lines
  PROVE  BlockOK(Append(b, line))
<1> DEFINE r == Append(b, line)
<1>1. b \in Seq(Lines)
  BY DEF BlockOK
<1>2. /\ r \in Seq(Lines) /\ Len(b) \in Nat
      /\ \A kind : /\ Places(b, kind) \subseteq 1 .. Len(b)
                   /\ Places(r, kind) = IF line.kind = kind THEN Places(b, kind) \cup {Len(b) + 1}
                                                            ELSE Places(b, kind)
  BY <1>1, AppendLine
<1> HIDE DEF r
<1>3. Ranked(Places(r, "data"))
  <2> DEFINE D == Places(b, "data")
  <2>1. D \subseteq 1 .. Len(b) /\ Ranked(D)
    BY <1>2 DEF BlockOK
  <2> HIDE DEF D
  <2>2. Ranked(D \cup {Len(b) + 1})
    BY <1>2, <2>1, NewPlace
  <2> QED
    BY <1>2, <2>1, <2>2 DEF D
<1>4. ASSUME NEW kind \in {"id", "event", "crc"} PROVE HasLast(Places(r, kind))
  <2>1. CASE line.kind = kind
    <3>1. Places(r, kind) = Places(b, kind) \cup {Len(b) + 1} /\ Places(b, kind) \subseteq 1 .. Len(b)
      BY <1>2, <2>1
    <3>2. \A j \in Places(r, kind) : Len(b) + 1 >= j
      BY <1>2, <3>1
    <3> QED
      BY <3>1, <3>2 DEF HasLast
  <2>2. CASE line.kind # kind
    BY <1>2, <2>2 DEF BlockOK
  <2> QED
    BY <2>1, <2>2
<1> QED
  BY <1>2, <1>3, <1>4 DEF BlockOK, r

LEMMA AppendLastOf ==
  ASSUME NEW b, BlockOK(b), NEW line \in Lines, NEW kind \in {"id", "event", "crc"}, NEW default
  PROVE  LastOf(Append(b, line), kind, default) =
           IF line.kind = kind THEN line.value ELSE LastOf(b, kind, default)
<1> DEFINE r == Append(b, line)
<1>1. b \in Seq(Lines)
  BY DEF BlockOK
<1>2. /\ r \in Seq(Lines) /\ Len(b) \in Nat
      /\ \A i \in 1 .. Len(b) : r[i] = b[i]
      /\ r[Len(b) + 1] = line
      /\ Places(b, kind) \subseteq 1 .. Len(b)
      /\ Places(r, kind) = IF line.kind = kind THEN Places(b, kind) \cup {Len(b) + 1}
                                               ELSE Places(b, kind)
  BY <1>1, AppendLine
<1> HIDE DEF r
<1>3. CASE line.kind = kind
  <2>1. \A x \in Places(r, kind) : (\A y \in Places(r, kind) : x >= y) <=> x = Len(b) + 1
    BY <1>2, <1>3
  <2>2. Seqs!Max(Places(r, kind)) = Len(b) + 1
    BY <1>2, <1>3, <2>1 DEF Seqs!Max
  <2> QED
    BY <1>2, <1>3, <2>2 DEF LastOf, r
<1>4. CASE line.kind # kind
  <2>1. Places(b, kind) # {} => Seqs!Max(Places(b, kind)) \in Places(b, kind)
    BY DEF BlockOK, HasLast, Seqs!Max
  <2> QED
    BY <1>2, <1>4, <2>1 DEF LastOf, r
<1> QED
  BY <1>3, <1>4

LEMMA AppendPieces ==
  ASSUME NEW b, BlockOK(b), NEW line \in Lines, Pieces(b) \in Seq(STRING)
  PROVE  Pieces(Append(b, line)) = IF line.kind = "data" THEN Append(Pieces(b), line.value[1])
                                                         ELSE Pieces(b)
<1> DEFINE r == Append(b, line)
           D == Places(b, "data")
           E == Places(r, "data")
<1>1. b \in Seq(Lines) /\ Ranked(D)
  BY DEF BlockOK
<1>2. /\ r \in Seq(Lines) /\ Len(b) \in Nat
      /\ \A i \in 1 .. Len(b) : r[i] = b[i]
      /\ r[Len(b) + 1] = line
      /\ D \subseteq 1 .. Len(b)
      /\ E = IF line.kind = "data" THEN D \cup {Len(b) + 1} ELSE D
  BY <1>1, AppendLine
<1>3. Pieces(b) = [n \in 1 .. Cardinality(D) |-> b[Nth(D, n)].value[1]]
  BY DEF Pieces
<1>4. Pieces(r) = [n \in 1 .. Cardinality(E) |-> r[Nth(E, n)].value[1]]
  BY DEF Pieces
<1> HIDE DEF r, D, E
<1>5. \A n \in 1 .. Cardinality(D) : r[Nth(D, n)] = b[Nth(D, n)]
  BY <1>1, <1>2, NthIsPlace
<1>6. CASE line.kind # "data"
  BY <1>2, <1>3, <1>4, <1>5, <1>6 DEF r
<1>7. CASE line.kind = "data"
  <2>1. E = D \cup {Len(b) + 1}
    BY <1>2, <1>7
  <2>2. /\ Cardinality(D) \in Nat /\ Cardinality(E) = Cardinality(D) + 1
        /\ \A n \in 1 .. Cardinality(D) : Nth(E, n) = Nth(D, n)
        /\ Nth(E, Cardinality(D) + 1) = Len(b) + 1
    <3>1. D \subseteq 1 .. Len(b) /\ Len(b) \in Nat
      BY <1>2
    <3>2. /\ Cardinality(D) \in Nat /\ Cardinality(D \cup {Len(b) + 1}) = Cardinality(D) + 1
          /\ \A n \in 1 .. Cardinality(D) : Nth(D \cup {Len(b) + 1}, n) = Nth(D, n)
          /\ Nth(D \cup {Len(b) + 1}, Cardinality(D) + 1) = Len(b) + 1
      BY <1>1, <3>1, NewPlace
    <3> QED
      BY <2>1, <3>2
  <2>3. Pieces(r) = [n \in 1 .. Cardinality(D) + 1 |->
                       IF n = Cardinality(D) + 1 THEN line.value[1] ELSE Pieces(b)[n]]
    <3>1. \A n \in 1 .. Cardinality(D) + 1 :
            r[Nth(E, n)].value[1] = IF n = Cardinality(D) + 1 THEN line.value[1] ELSE Pieces(b)[n]
      <4> TAKE n \in 1 .. Cardinality(D) + 1
      <4>1. CASE n = Cardinality(D) + 1
        BY <1>2, <2>2, <4>1
      <4>2. CASE n \in 1 .. Cardinality(D)
        BY <1>3, <1>5, <2>2, <4>2
      <4> QED
        BY <2>2, <4>1, <4>2
    <3> QED
      BY <1>4, <2>2, <3>1
  <2>4. Len(Pieces(b)) = Cardinality(D) /\ line.value[1] \in STRING
    BY <1>3, <1>7, <2>2, LineFacts
  <2>5. Pieces(r) = Append(Pieces(b), line.value[1])
    <3> DEFINE p == Pieces(b)
    <3>1. p \in Seq(STRING)
      OBVIOUS
    <3> HIDE DEF p
    <3>2. /\ Append(p, line.value[1]) = [n \in 1 .. Len(p) + 1 |-> IF n = Len(p) + 1 THEN line.value[1] ELSE p[n]]
      BY <2>4, <3>1
    <3> QED
      BY <2>3, <2>4, <3>2 DEF p
  <2> QED
    BY <1>7, <2>5 DEF r
<1> QED
  BY <1>6, <1>7

LEMMA AppendDataSize ==
  ASSUME NEW b, BlockOK(b), NEW line \in Lines
  PROVE  /\ DataSize(b) \in Nat
         /\ DataSize(Append(b, line)) =
              IF line.kind = "data"
                THEN DataSize(b) + line.weight + (IF Places(b, "data") = {} THEN 0 ELSE 1)
                ELSE DataSize(b)
<1> DEFINE r == Append(b, line)
           D == Places(b, "data")
           E == Places(r, "data")
           f == [i \in DOMAIN b |-> IF i \in D THEN b[i].weight ELSE 0]
           g == [i \in DOMAIN r |-> IF i \in E THEN r[i].weight ELSE 0]
<1>1. b \in Seq(Lines) /\ Ranked(D)
  BY DEF BlockOK
<1>2. /\ r \in Seq(Lines) /\ Len(b) \in Nat
      /\ DOMAIN b = 1 .. Len(b) /\ DOMAIN r = 1 .. Len(b) + 1
      /\ \A i \in 1 .. Len(b) : r[i] = b[i] /\ b[i] \in Lines
      /\ r[Len(b) + 1] = line
      /\ D \subseteq 1 .. Len(b)
      /\ E = IF line.kind = "data" THEN D \cup {Len(b) + 1} ELSE D
  BY <1>1, AppendLine
<1>3. /\ DataSize(b) = Total(f) + (IF D = {} THEN 0 ELSE Cardinality(D) - 1)
      /\ DataSize(r) = Total(g) + (IF E = {} THEN 0 ELSE Cardinality(E) - 1)
  BY DEF DataSize
<1> HIDE DEF r, D, E
<1>4. /\ f \in [1 .. Len(b) -> Nat]
      /\ g \in [1 .. Len(b) + 1 -> Nat]
      /\ \A i \in 1 .. Len(b) : g[i] = f[i]
      /\ g[Len(b) + 1] = IF line.kind = "data" THEN line.weight ELSE 0
  <2>1. /\ \A i \in 1 .. Len(b) : b[i].weight \in Nat
        /\ line.weight \in Nat
    BY <1>2, LineFacts
  <2>2. /\ \A i \in 1 .. Len(b) + 1 : i \in 1 .. Len(b) \/ i = Len(b) + 1
        /\ Len(b) + 1 \notin 1 .. Len(b) /\ Len(b) + 1 \in 1 .. Len(b) + 1
        /\ \A i \in 1 .. Len(b) : i \in 1 .. Len(b) + 1
    BY <1>2
  <2>3. \A i \in 1 .. Len(b) : i \in E <=> i \in D
    BY <1>2, <2>2
  <2>4. f \in [1 .. Len(b) -> Nat]
    BY <1>2, <2>1
  <2>5. g \in [1 .. Len(b) + 1 -> Nat]
    BY <1>2, <2>1, <2>2
  <2>6. \A i \in 1 .. Len(b) : g[i] = f[i]
    BY <1>2, <2>2, <2>3
  <2>7. g[Len(b) + 1] = IF line.kind = "data" THEN line.weight ELSE 0
    BY <1>2, <2>2
  <2> QED
    BY <2>4, <2>5, <2>6, <2>7
<1> HIDE DEF f, g
<1>5. Total(g) = Total(f) + g[Len(b) + 1] /\ Total(f) \in Nat
  BY <1>2, <1>4, TotalAppend, CellsFinite
<1>6. /\ Cardinality(D) \in Nat /\ IsFiniteSet(D)
      /\ Cardinality(D \cup {Len(b) + 1}) = Cardinality(D) + 1
  BY <1>1, <1>2, NewPlace
<1>7. Cardinality(D) = 0 <=> D = {}
  BY <1>6, FS_EmptySet
<1>8. DataSize(b) \in Nat
  BY <1>3, <1>5, <1>6, <1>7
<1>9. ASSUME line.kind = "data"
      PROVE  DataSize(r) = DataSize(b) + line.weight + (IF D = {} THEN 0 ELSE 1)
  <2>1. /\ E # {} /\ Cardinality(E) = Cardinality(D) + 1
        /\ Total(g) = Total(f) + line.weight /\ line.weight \in Nat
    BY <1>2, <1>4, <1>5, <1>6, <1>9, LineFacts
  <2>2. DataSize(r) = Total(f) + line.weight + Cardinality(D)
    BY <1>3, <1>5, <1>6, <2>1
  <2>3. CASE D = {}
    BY <1>3, <1>5, <1>6, <1>7, <2>1, <2>2, <2>3
  <2>4. CASE D # {}
    BY <1>3, <1>5, <1>6, <1>7, <2>1, <2>2, <2>4
  <2> QED
    BY <2>3, <2>4
<1>10. ASSUME line.kind # "data"
       PROVE  DataSize(r) = DataSize(b)
  <2>1. E = D /\ Total(g) = Total(f)
    BY <1>2, <1>4, <1>5, <1>10
  <2> QED
    BY <1>3, <2>1
<1> QED
  BY <1>8, <1>9, <1>10 DEF r, D

\* A block grows malformed with its new line only.
LEMMA AppendMalformed ==
  ASSUME NEW b, BlockOK(b), NEW line \in Lines, ~Malformed(b)
  PROVE  Malformed(Append(b, line)) <=>
           \/ line.kind \in {"bad_crc", "garbled"} \/ line.size > MaxBytes
           \/ DataSize(Append(b, line)) > MaxBytes
<1> DEFINE r == Append(b, line)
<1>1. b \in Seq(Lines)
  BY DEF BlockOK
<1>2. /\ DOMAIN b = 1 .. Len(b) /\ DOMAIN r = 1 .. Len(b) + 1 /\ Len(b) \in Nat
      /\ \A i \in 1 .. Len(b) : r[i] = b[i]
      /\ r[Len(b) + 1] = line
  BY <1>1, AppendLine
<1> HIDE DEF r
<1>3. 1 .. Len(b) + 1 = (1 .. Len(b)) \cup {Len(b) + 1}
  BY <1>2
<1>4. (\E i \in DOMAIN r : r[i].kind \in {"bad_crc", "garbled"} \/ r[i].size > MaxBytes)
        <=> line.kind \in {"bad_crc", "garbled"} \/ line.size > MaxBytes
  BY <1>2, <1>3 DEF Malformed
<1> QED
  BY <1>4 DEF Malformed, r

LEMMA NoPieces ==
  ASSUME NEW b, BlockOK(b)
  PROVE  Pieces(b) = << >> <=> Places(b, "data") = {}
<1> DEFINE D == Places(b, "data")
<1>1. D \subseteq 1 .. Len(b) /\ Len(b) \in Nat
  BY DEF BlockOK, Places
<1>2. IsFiniteSet(1 .. Len(b))
  BY <1>1, FS_Interval
<1>3. Cardinality(D) \in Nat /\ (Cardinality(D) = 0 <=> D = {})
  BY <1>1, <1>2, FS_Subset, FS_CardinalityType, FS_EmptySet
<1>4. DOMAIN Pieces(b) = 1 .. Cardinality(D)
  BY DEF Pieces
<1>5. DOMAIN << >> = {}
  OBVIOUS
<1> HIDE DEF D
<1>6. Pieces(b) = << >> => Cardinality(D) = 0
  BY <1>3, <1>4, <1>5
<1>7. Cardinality(D) = 0 => Pieces(b) = << >>
  BY DEF Pieces, D
<1> QED
  BY <1>3, <1>6, <1>7 DEF D

-----------------------------------------------------------------------------
(* The invariant *)

AnyAhead == Lines \cup {Blank}

LEMMA AheadFacts ==
  ASSUME NEW line \in AnyAhead
  PROVE  /\ line.size \in Nat /\ Bytes(line) \in Nat
         /\ line.kind # "blank" => line \in Lines
         /\ line.size > 0 => line \in Lines
<1>1. line \in Lines \/ line = Blank
  BY DEF AnyAhead
<1>2. CASE line \in Lines
  BY <1>2, LineFacts DEF Bytes
<1>3. CASE line = Blank
  BY <1>3 DEF Blank, Bytes
<1> QED
  BY <1>1, <1>2, <1>3

StreamInv ==
  /\ ahead \in Seq(AnyAhead) /\ Len(ahead) <= MaxAhead
  /\ got \in Nat /\ got <= Sent
  /\ reading \in BOOLEAN /\ failed \in BOOLEAN

BlockInv == BlockOK(block) /\ data \in Seq(STRING) /\ dataBytes \in Nat

(* While the parser runs, its fields are what the lines since the last blank line
   say. *)
FieldsInv ==
  ~failed =>
    /\ id = LastOf(block, "id", <<NoId>>)[1]
    /\ type = LastOf(block, "event", <<"message">>)[1]
    /\ checksum = LastOf(block, "crc", NoChecksum)
    /\ data = Pieces(block)
    /\ dataBytes = DataSize(block)
    /\ dataBytes <= MaxBytes

IInv == StreamInv /\ BlockInv /\ FieldsInv /\ DecodesBlocks

LEMMA NothingDecoded == Decoded(<< >>) = Skipped /\ ~Malformed(<< >>)
<1>1. Empty(Pieces(<< >>)) /\ DataSize(<< >>) = 0 /\ MaxBytes \in Nat
  BY EmptyBlock, BoundsAssumption DEF Empty
<1> QED
  BY <1>1 DEF Decoded, Malformed

\* The bytes of the lines ahead, as one more is sent and one is parsed.
LEMMA SentAppend ==
  ASSUME NEW s \in Seq(AnyAhead)
  PROVE  Total([i \in DOMAIN s |-> Bytes(s[i])]) \in Nat
<1>1. Len(s) \in Nat /\ DOMAIN s = 1 .. Len(s) /\ \A i \in 1 .. Len(s) : s[i] \in AnyAhead
  OBVIOUS
<1> DEFINE f == [i \in DOMAIN s |-> Bytes(s[i])]
<1>2. f \in [1 .. Len(s) -> Nat]
  BY <1>1, AheadFacts
<1> HIDE DEF f
<1>3. Total(f) \in Nat
  BY <1>1, <1>2, CellsFinite
<1> QED
  BY <1>3 DEF f

LEMMA SentTail ==
  ASSUME NEW s \in Seq(AnyAhead), s # << >>
  PROVE  /\ Head(s) \in AnyAhead /\ Tail(s) \in Seq(AnyAhead) /\ Len(Tail(s)) = Len(s) - 1
         /\ Total([i \in DOMAIN s |-> Bytes(s[i])])
              = Bytes(Head(s)) + Total([i \in DOMAIN Tail(s) |-> Bytes(Tail(s)[i])])
<1> DEFINE t == Tail(s)
           f == [i \in DOMAIN s |-> Bytes(s[i])]
           g == [i \in DOMAIN t |-> Bytes(t[i])]
<1>1. /\ Len(s) \in Nat \ {0} /\ Head(s) = s[1] /\ Head(s) \in AnyAhead
      /\ t \in Seq(AnyAhead) /\ Len(t) = Len(s) - 1
      /\ DOMAIN s = 1 .. Len(s) /\ DOMAIN t = 1 .. Len(s) - 1
      /\ \A i \in 1 .. Len(s) : s[i] \in AnyAhead
      /\ \A i \in 1 .. Len(s) - 1 : t[i] = s[i + 1]
  OBVIOUS
<1> HIDE DEF t
<1>2. PICK n \in Nat : Len(s) = n + 1
  <2>1. Len(s) - 1 \in Nat /\ Len(s) = (Len(s) - 1) + 1
    BY <1>1
  <2> QED
    BY <2>1
<1>3. n = Len(s) - 1 /\ DOMAIN s = 1 .. n + 1 /\ DOMAIN t = 1 .. n
  BY <1>1, <1>2
<1>4. \A i \in 1 .. n : i + 1 \in 1 .. n + 1 /\ i \in 1 .. n + 1
  OBVIOUS
<1>5. f \in [1 .. n + 1 -> Nat]
  BY <1>1, <1>2, <1>3, AheadFacts
<1>6. g \in [1 .. n -> Nat] /\ \A i \in 1 .. n : g[i] = f[i + 1]
  <2>1. \A i \in 1 .. n : t[i] = s[i + 1] /\ s[i + 1] \in AnyAhead
    BY <1>1, <1>2, <1>3, <1>4
  <2>2. \A i \in 1 .. n : Bytes(t[i]) \in Nat
    BY <2>1, AheadFacts
  <2> QED
    BY <1>3, <1>4, <2>1, <2>2
<1>7. f[1] = Bytes(Head(s))
  BY <1>1, <1>2, <1>3
<1> HIDE DEF f, g
<1>8. Total(f) = f[1] + Total(g)
  BY <1>5, <1>6, TotalTail
<1> QED
  BY <1>1, <1>7, <1>8 DEF f, g, t

LEMMA TypeOfParts ==
  ASSUME StreamInv, BlockInv, verdict.outcome \in {"skipped", "event", "checksum", "parse"}
  PROVE  TypeOK
<1>1. Sent \in Nat
  BY SentAppend DEF StreamInv, Sent
<1>2. got \in 0 .. Sent /\ Len(ahead) <= MaxAhead
  BY <1>1 DEF StreamInv
<1>3. {reading, failed} \subseteq BOOLEAN
  BY DEF StreamInv
<1> QED
  BY <1>2, <1>3 DEF BlockInv, TypeOK

LEMMA InitIInv == Init => IInv
<1> SUFFICES ASSUME Init PROVE IInv
  OBVIOUS
<1>1. /\ ahead = << >> /\ got = 0 /\ reading = FALSE /\ failed = FALSE
      /\ block = << >> /\ judged = << >> /\ verdict = Skipped
      /\ data = << >> /\ dataBytes = 0
  BY DEF Init
<1>2. << >> \in Seq(AnyAhead) /\ << >> \in Seq(STRING) /\ Len(<< >>) = 0
  OBVIOUS
<1>3. Sent \in Nat /\ MaxAhead \in Nat /\ MaxBytes \in Nat
  BY <1>1, <1>2, SentAppend, BoundsAssumption DEF Sent
<1>4. StreamInv
  <2>1. got \in Nat /\ got <= Sent /\ Len(ahead) <= MaxAhead
    BY <1>1, <1>2, <1>3
  <2>2. reading \in BOOLEAN /\ failed \in BOOLEAN
    BY <1>1
  <2>3. ahead \in Seq(AnyAhead)
    BY <1>1, <1>2
  <2> QED
    BY <2>1, <2>2, <2>3 DEF StreamInv
<1>5. BlockInv /\ FieldsInv
  BY <1>1, <1>2, <1>3, EmptyBlock DEF Init, BlockInv, FieldsInv
<1>6. TypeOK
  BY <1>1, <1>4, <1>5, TypeOfParts DEF Skipped
<1>7. DecodesBlocks
  BY <1>1, <1>3, <1>6, NothingDecoded DEF DecodesBlocks, Skipped
<1> QED
  BY <1>4, <1>5, <1>7 DEF IInv

-----------------------------------------------------------------------------
(* The steps *)

LEMMA ChunkKeepsIInv ==
  ASSUME IInv, NEW line \in AnyAhead, Chunk(line)
  PROVE  IInv'
<1>1. /\ ~failed /\ failed' = failed /\ reading' = TRUE
      /\ verdict' = Skipped /\ judged' = << >>
      /\ UNCHANGED <<id, type, data, dataBytes, checksum, block>>
  BY DEF Chunk, Forget, eventVars
<1>2. /\ ahead \in Seq(AnyAhead) /\ Len(ahead) <= MaxAhead /\ got \in Nat
      /\ MaxAhead \in Nat /\ Len(ahead) \in Nat
  BY BoundsAssumption DEF IInv, StreamInv
<1>3. ahead' \in Seq(AnyAhead) /\ Len(ahead') <= MaxAhead
  <2>1. CASE ahead' = Append(ahead, line) /\ Len(ahead) < MaxAhead
    <3>1. Append(ahead, line) \in Seq(AnyAhead) /\ Len(Append(ahead, line)) = Len(ahead) + 1
      BY <1>2
    <3> QED
      BY <1>2, <2>1, <3>1
  <2>2. CASE ahead' = ahead
    BY <1>2, <2>2
  <2> QED
    BY <2>1, <2>2 DEF Chunk
<1>4. Sent' \in Nat
  BY <1>3, SentAppend DEF Sent
<1>5. got' \in Nat /\ got' <= Sent'
  <2>1. PICK n \in got + 1 .. Sent' : got' = n
    BY DEF Chunk
  <2> QED
    BY <1>2, <1>4, <2>1
<1>6. StreamInv'
  <2>1. reading' \in BOOLEAN /\ failed' \in BOOLEAN
    BY <1>1 DEF IInv, StreamInv
  <2> QED
    BY <1>3, <1>5, <2>1 DEF StreamInv
<1>7. BlockInv' /\ FieldsInv'
  BY <1>1 DEF IInv, BlockInv, FieldsInv
<1>8. TypeOK'
  <2>1. verdict'.outcome = "skipped"
    BY <1>1 DEF Skipped
  <2> QED
    BY <1>4, <1>6, <1>7, <2>1 DEF StreamInv, BlockInv, TypeOK
<1>9. DecodesBlocks'
  <2>1. ~Malformed(block)
    BY <1>1 DEF IInv, DecodesBlocks
  <2> QED
    BY <1>1, <1>8, <2>1, NothingDecoded DEF DecodesBlocks, Skipped
<1> QED
  BY <1>6, <1>7, <1>9 DEF IInv

LEMMA ChunkDoneKeepsIInv ==
  ASSUME IInv, ChunkDone
  PROVE  IInv'
<1>1. /\ ~failed /\ ~LineComplete /\ reading' = FALSE
      /\ UNCHANGED <<ahead, got, id, type, data, dataBytes, checksum, verdict, block, judged>>
      /\ failed' = (got > MaxBytes)
  BY DEF ChunkDone, eventVars
<1>2. ahead \in Seq(AnyAhead) /\ got \in Nat /\ got <= Sent /\ MaxBytes \in Nat
  BY BoundsAssumption DEF IInv, StreamInv
<1>3. StreamInv'
  <2>1. reading' \in BOOLEAN /\ failed' \in BOOLEAN
    <3>1. (got > MaxBytes) \in BOOLEAN
      BY <1>2
    <3> QED
      BY <1>1, <3>1, Zenon
  <2>2. Sent' = Sent
    BY <1>1 DEF Sent
  <2> QED
    BY <1>1, <2>1, <2>2 DEF IInv, StreamInv
<1>4. BlockInv' /\ FieldsInv'
  BY <1>1 DEF IInv, BlockInv, FieldsInv
<1>5. TypeOK'
  <2>1. Sent' = Sent
    BY <1>1 DEF Sent
  <2>2. {reading', failed'} \subseteq BOOLEAN
    BY <1>3 DEF StreamInv
  <2> QED
    BY <1>1, <2>1, <2>2 DEF IInv, DecodesBlocks, TypeOK
<1>6. got > MaxBytes => ahead # << >> /\ Head(ahead).size > MaxBytes
  <2> SUFFICES ASSUME got > MaxBytes PROVE ahead # << >> /\ Head(ahead).size > MaxBytes
    OBVIOUS
  <2>1. ahead # << >>
    <3> SUFFICES ASSUME ahead = << >> PROVE FALSE
      OBVIOUS
    <3> DEFINE f == [i \in DOMAIN ahead |-> Bytes(ahead[i])]
    <3>1. DOMAIN f = {}
      OBVIOUS
    <3> HIDE DEF f
    <3>2. Total(f) = 0
      BY <3>1, TotalEmpty
    <3> QED
      BY <1>2, <3>2 DEF Sent, f
  <2>2. Head(ahead) \in AnyAhead
    BY <1>2, <2>1
  <2>3. Head(ahead).size \in Nat /\ ~(got >= Bytes(Head(ahead)))
    BY <1>1, <2>1, <2>2, AheadFacts DEF LineComplete
  <2> QED
    BY <1>2, <2>1, <2>3 DEF Bytes
<1>7. DecodesBlocks'
  <2>1. dataBytes <= MaxBytes
    BY <1>1 DEF IInv, FieldsInv
  <2>2. /\ verdict = Decoded(judged) /\ ~Malformed(judged)
        /\ ~Malformed(block) /\ verdict.outcome \in {"skipped", "event"}
    BY <1>1 DEF IInv, DecodesBlocks
  <2>3. ~(got > MaxBytes) => got <= MaxBytes
    BY <1>2
  <2> QED
    BY <1>1, <1>5, <1>6, <2>1, <2>2, <2>3 DEF DecodesBlocks
<1> QED
  BY <1>3, <1>4, <1>7 DEF IInv

\* What parsing a line does to the buffer.
LEMMA ParseLineStream ==
  ASSUME IInv, ParseLine, failed' \in BOOLEAN
  PROVE  StreamInv' /\ Sent' \in Nat /\ Head(ahead) \in AnyAhead /\ ahead # << >>
<1>1. /\ LineComplete /\ ahead' = Tail(ahead) /\ got' = got - Bytes(Head(ahead)) /\ reading' = reading
  BY DEF ParseLine
<1>2. /\ ahead \in Seq(AnyAhead) /\ Len(ahead) <= MaxAhead /\ got \in Nat /\ got <= Sent
      /\ reading \in BOOLEAN /\ ahead # << >> /\ MaxAhead \in Nat /\ Len(ahead) \in Nat
  BY <1>1, BoundsAssumption DEF IInv, StreamInv, LineComplete
<1>3. /\ Head(ahead) \in AnyAhead /\ ahead' \in Seq(AnyAhead) /\ Len(ahead') = Len(ahead) - 1
      /\ Sent = Bytes(Head(ahead)) + Sent'
  BY <1>1, <1>2, SentTail DEF Sent
<1>4. Sent' \in Nat /\ Bytes(Head(ahead)) \in Nat
  BY <1>3, SentAppend, AheadFacts DEF Sent
<1>5. got' \in Nat /\ got' <= Sent'
  BY <1>1, <1>2, <1>3, <1>4 DEF LineComplete
<1> QED
  BY <1>1, <1>2, <1>3, <1>4, <1>5 DEF StreamInv

LEMMA DispatchKeepsIInv ==
  ASSUME IInv, ParseLine, Dispatch
  PROVE  IInv'
<1>1. ~failed /\ reading /\ reading' = reading
  BY DEF ParseLine
<1>2. /\ id = LastOf(block, "id", <<NoId>>)[1]
      /\ type = LastOf(block, "event", <<"message">>)[1]
      /\ checksum = LastOf(block, "crc", NoChecksum)
      /\ data = Pieces(block)
      /\ ~Malformed(block)
  BY <1>1 DEF IInv, FieldsInv, DecodesBlocks
<1>3. /\ verdict' = Decoded(block) /\ judged' = block /\ block' = << >>
      /\ id' = NoId /\ type' = "message" /\ data' = << >> /\ dataBytes' = 0 /\ checksum' = NoChecksum
      /\ failed' = (verdict'.outcome \in {"checksum", "parse"})
      /\ verdict' = Dispatched
  BY <1>2 DEF Dispatch, Reset, Dispatched, Decoded
<1>4. verdict'.outcome \in {"skipped", "event", "checksum", "parse"}
  BY <1>3 DEF Dispatched, Skipped, ChecksumError, ParseError, Event
<1>5. failed' \in BOOLEAN
  BY <1>3
<1>6. StreamInv' /\ Sent' \in Nat
  BY <1>5, ParseLineStream
<1>7. BlockInv' /\ FieldsInv'
  <2>1. << >> \in Seq(STRING) /\ MaxBytes \in Nat
    BY BoundsAssumption
  <2> QED
    BY <1>3, <2>1, EmptyBlock DEF BlockInv, FieldsInv
<1>8. TypeOK'
  BY <1>4, <1>6, <1>7 DEF StreamInv, BlockInv, TypeOK
<1>9. DecodesBlocks'
  BY <1>1, <1>2, <1>3, <1>4, <1>8, NothingDecoded DEF DecodesBlocks
<1> QED
  BY <1>6, <1>7, <1>9 DEF IInv

LEMMA OversizedKeepsIInv ==
  ASSUME IInv, ParseLine, Head(ahead).size > MaxBytes, Oversized(Head(ahead))
  PROVE  IInv'
<1> DEFINE line == Head(ahead)
<1>1. /\ ~failed /\ reading /\ reading' = reading
      /\ failed' = TRUE /\ block' = Append(block, line)
      /\ verdict' = Skipped /\ judged' = << >>
      /\ data' = data /\ dataBytes' = dataBytes
  BY DEF ParseLine, Oversized, Forget, eventVars
<1>2. StreamInv' /\ Sent' \in Nat /\ line \in AnyAhead
  BY <1>1, ParseLineStream
<1>3. line \in Lines
  BY <1>2, AheadFacts, BoundsAssumption
<1>4. BlockOK(block) /\ ~Malformed(block)
  BY <1>1 DEF IInv, BlockInv, DecodesBlocks
<1> HIDE DEF line
<1>5. Malformed(block')
  BY <1>1, <1>3, <1>4, AppendMalformed DEF line
<1>6. BlockInv' /\ FieldsInv'
  BY <1>1, <1>3, <1>4, AppendBlock DEF IInv, BlockInv, FieldsInv
<1>7. TypeOK'
  BY <1>1, <1>2, <1>6 DEF StreamInv, BlockInv, TypeOK, Skipped
<1>8. DecodesBlocks'
  BY <1>1, <1>5, <1>7, NothingDecoded DEF DecodesBlocks
<1> QED
  BY <1>2, <1>6, <1>8 DEF IInv

LEMMA FieldKeepsIInv ==
  ASSUME IInv, ParseLine, Head(ahead).kind # "blank", Head(ahead).size <= MaxBytes,
         Field(Head(ahead))
  PROVE  IInv'
<1> DEFINE line == Head(ahead)
           longer == dataBytes + line.weight + (IF data = << >> THEN 0 ELSE 1)
<1>1. /\ ~failed /\ reading /\ reading' = reading
      /\ block' = Append(block, line)
      /\ verdict' = Skipped /\ judged' = << >>
      /\ failed' = (line.kind \in {"bad_crc", "garbled"} \/ (line.kind = "data" /\ longer > MaxBytes))
  BY DEF ParseLine, Field, Forget
<1>2. /\ id' = IF line.kind = "id" THEN line.value[1] ELSE id
      /\ type' = IF line.kind = "event" THEN line.value[1] ELSE type
      /\ checksum' = IF line.kind = "crc" THEN line.value ELSE checksum
      /\ IF line.kind = "data" /\ longer <= MaxBytes
           THEN data' = Append(data, line.value[1]) /\ dataBytes' = longer
           ELSE data' = data /\ dataBytes' = dataBytes
  BY DEF Field
<1>3. failed' \in BOOLEAN
  BY <1>1
<1>4. StreamInv' /\ Sent' \in Nat /\ line \in AnyAhead
  BY <1>3, ParseLineStream
<1>5. line \in Lines
  BY <1>4, AheadFacts
<1>6. line.kind # "blank" /\ ~(line.size > MaxBytes)
  BY <1>5, LineFacts, BoundsAssumption
<1> HIDE DEF line
<1>7. /\ BlockOK(block) /\ ~Malformed(block)
      /\ data \in Seq(STRING) /\ dataBytes \in Nat
      /\ id = LastOf(block, "id", <<NoId>>)[1]
      /\ type = LastOf(block, "event", <<"message">>)[1]
      /\ checksum = LastOf(block, "crc", NoChecksum)
      /\ data = Pieces(block) /\ dataBytes = DataSize(block) /\ dataBytes <= MaxBytes
  BY <1>1 DEF IInv, BlockInv, FieldsInv, DecodesBlocks
<1>8. /\ line.weight \in Nat
      /\ line.kind \in {"data", "id", "event"} => line.value[1] \in STRING
  BY <1>5, LineFacts
<1>9. longer \in Nat /\ MaxBytes \in Nat
  BY <1>7, <1>8, BoundsAssumption
<1>10. DataSize(block') = IF line.kind = "data" THEN longer ELSE dataBytes
  <2>1. data = << >> <=> Places(block, "data") = {}
    BY <1>7, NoPieces
  <2>2. DataSize(Append(block, line)) =
          IF line.kind = "data"
            THEN DataSize(block) + line.weight + (IF Places(block, "data") = {} THEN 0 ELSE 1)
            ELSE DataSize(block)
    BY <1>5, <1>7, AppendDataSize
  <2> QED
    BY <1>1, <1>7, <2>1, <2>2
<1> HIDE DEF longer
<1>11. Malformed(block') <=> failed'
  <2>1. Malformed(block') <=> line.kind \in {"bad_crc", "garbled"} \/ DataSize(block') > MaxBytes
    BY <1>1, <1>5, <1>6, <1>7, AppendMalformed
  <2>2. ~(dataBytes > MaxBytes)
    BY <1>7, <1>9
  <2> QED
    BY <1>1, <1>10, <2>1, <2>2
<1>12. BlockInv'
  <2>1. data' \in Seq(STRING) /\ dataBytes' \in Nat
    <3>1. CASE line.kind = "data" /\ longer <= MaxBytes
      <4>1. Append(data, line.value[1]) \in Seq(STRING)
        BY <1>7, <1>8, <3>1
      <4> QED
        BY <1>2, <1>9, <3>1, <4>1
    <3>2. CASE ~(line.kind = "data" /\ longer <= MaxBytes)
      BY <1>2, <1>7, <3>2
    <3> QED
      BY <3>1, <3>2
  <2> QED
    BY <1>1, <1>5, <1>7, <2>1, AppendBlock DEF BlockInv
<1>13. FieldsInv'
  <2> SUFFICES ASSUME ~failed'
               PROVE  /\ id' = LastOf(block', "id", <<NoId>>)[1]
                      /\ type' = LastOf(block', "event", <<"message">>)[1]
                      /\ checksum' = LastOf(block', "crc", NoChecksum)
                      /\ data' = Pieces(block')
                      /\ dataBytes' = DataSize(block') /\ dataBytes' <= MaxBytes
    BY DEF FieldsInv
  <2>1. id' = LastOf(block', "id", <<NoId>>)[1]
    BY <1>1, <1>2, <1>5, <1>7, AppendLastOf
  <2>2. type' = LastOf(block', "event", <<"message">>)[1]
    BY <1>1, <1>2, <1>5, <1>7, AppendLastOf
  <2>3. checksum' = LastOf(block', "crc", NoChecksum)
    BY <1>1, <1>2, <1>5, <1>7, AppendLastOf
  <2>4. line.kind = "data" => longer <= MaxBytes
    <3>1. line.kind = "data" => ~(longer > MaxBytes)
      BY <1>1
    <3> QED
      BY <1>9, <3>1
  <2>5. data' = Pieces(block')
    <3>1. Pieces(Append(block, line)) =
            IF line.kind = "data" THEN Append(Pieces(block), line.value[1]) ELSE Pieces(block)
      BY <1>5, <1>7, AppendPieces
    <3> QED
      BY <1>1, <1>2, <1>7, <2>4, <3>1
  <2>6. dataBytes' = DataSize(block') /\ dataBytes' <= MaxBytes
    BY <1>2, <1>7, <1>10, <2>4
  <2> QED
    BY <2>1, <2>2, <2>3, <2>5, <2>6
<1>14. TypeOK'
  BY <1>1, <1>4, <1>12 DEF StreamInv, BlockInv, TypeOK, Skipped
<1>15. DecodesBlocks'
  BY <1>1, <1>11, <1>14, NothingDecoded DEF DecodesBlocks, Skipped
<1> QED
  BY <1>4, <1>12, <1>13, <1>15 DEF IInv

LEMMA NextIInv == IInv /\ [Next]_vars => IInv'
<1> SUFFICES ASSUME IInv, [Next]_vars PROVE IInv'
  OBVIOUS
<1>1. ASSUME NEW line \in Lines \cup {Blank}, Chunk(line) PROVE IInv'
  BY <1>1, ChunkKeepsIInv DEF AnyAhead
<1>2. CASE ParseLine
  BY <1>2, DispatchKeepsIInv, OversizedKeepsIInv, FieldKeepsIInv DEF ParseLine
<1>3. CASE ChunkDone
  BY <1>3, ChunkDoneKeepsIInv
<1>4. CASE UNCHANGED vars
  BY <1>4 DEF vars, eventVars, IInv, StreamInv, BlockInv, FieldsInv, DecodesBlocks, TypeOK, Sent
<1> QED
  BY <1>1, <1>2, <1>3, <1>4 DEF Next

(* However the stream is cut, the parser gives for each block what the block says
   read as a whole, and fails for the blocks that are malformed. *)
THEOREM BlocksAreDecoded == Spec => []DecodesBlocks
<1>1. IInv => DecodesBlocks
  BY DEF IInv
<1> QED
  BY <1>1, InitIInv, NextIInv, PTL DEF Spec
=============================================================================
