--------------------------- MODULE EncodeLoopProofs ---------------------------
(***************************************************************************)
(* Proofs about EncodeLoop, for any GPUs, any number of flows and any two  *)
(* batch sizes: the pieces of a batch and their concatenation, type        *)
(* correctness, the count of blocked flows, the rows and ids of the        *)
(* messages and the life of the models.                                    *)
(***************************************************************************)
EXTENDS EncodeLoop, TLAPS, SequenceTheorems, FiniteSetTheorems, WellFoundedInduction

-----------------------------------------------------------------------------
(* The pieces of a batch *)

(* A product grows with its first factor. *)
LEMMA MulMono ==
  ASSUME NEW a \in Nat, NEW b \in Nat, NEW k \in Nat, a <= b
  PROVE  a * k \in Nat /\ a * k <= b * k
  OBVIOUS

(* The quotient of the code's division, from below and from above. *)
LEMMA DivBounds ==
  ASSUME NEW n \in Nat, NEW k \in Nat \ {0}
  PROVE  /\ n \div k \in Nat
         /\ (n \div k) * k <= n
         /\ n < (n \div k) * k + k
  OBVIOUS

(* (n + size - 1) / size is the number of pieces that begin before n. *)
LEMMA ChunkCount ==
  ASSUME NEW n \in Nat, NEW size \in Nat \ {0}
  PROVE  /\ NumChunks(n, size) \in 0 .. n
         /\ \A c \in Nat \ {0} : c \in 1 .. NumChunks(n, size) <=> (c - 1) * size < n
<1>1. PICK q : q = NumChunks(n, size)
  OBVIOUS
<1>2. q \in Nat /\ q * size <= n + size - 1 /\ n + size - 1 < q * size + size
  BY <1>1, DivBounds DEF NumChunks
<1>3. q <= n
  <2>1. ASSUME q >= n + 1 PROVE FALSE
    <3>1. (n + 1) * size <= q * size
      BY <1>2, <2>1, MulMono
    <3>2. (n + 1) * size = n * size + size /\ n * 1 <= n * size
      OBVIOUS
    <3> QED
      BY <1>2, <3>1, <3>2
  <2> QED
    BY <1>2, <2>1
<1>4. ASSUME NEW c \in Nat \ {0} PROVE c \in 1 .. q <=> (c - 1) * size < n
  <2>0. PICK d \in Nat : d = c - 1
    OBVIOUS
  <2>1. ASSUME c \in 1 .. q PROVE d * size < n
    <3>1. (d + 1) * size <= q * size
      BY <1>2, <2>0, <2>1, MulMono
    <3>2. (d + 1) * size = d * size + size
      OBVIOUS
    <3> QED
      BY <1>2, <3>1, <3>2
  <2>2. ASSUME c \notin 1 .. q PROVE ~(d * size < n)
    <3>1. q * size <= d * size
      BY <1>2, <2>0, <2>2, MulMono
    <3> QED
      BY <1>2, <3>1
  <2> QED
    BY <2>0, <2>1, <2>2
<1> QED
  BY <1>1, <1>2, <1>3, <1>4

(* Where the c-th piece ends. *)
PieceEnd(n, c, size) == IF c * size <= n THEN c * size ELSE n

(* A piece begins before the end of the list, is not longer than size and, *)
(* unless it is the last, ends where the next begins.                      *)
LEMMA PieceBounds ==
  ASSUME NEW n \in Nat, NEW size \in Nat \ {0}, NEW c \in 1 .. NumChunks(n, size)
  PROVE  /\ c \in Nat \ {0} /\ c \in 1 .. n
         /\ (c - 1) * size \in Nat /\ (c - 1) * size < n
         /\ c * size = (c - 1) * size + size
         /\ PieceEnd(n, c, size) \in (c - 1) * size + 1 .. n
         /\ PieceEnd(n, c, size) <= (c - 1) * size + size
         /\ c < NumChunks(n, size) => PieceEnd(n, c, size) = c * size
         /\ c = NumChunks(n, size) => PieceEnd(n, c, size) = n
<1>1. c \in Nat \ {0} /\ c \in 1 .. n /\ NumChunks(n, size) \in Nat
  BY ChunkCount
<1>2. PICK d \in Nat : d = c - 1
  BY <1>1
<1>3. d * size \in Nat /\ d * size < n /\ c * size = d * size + size
  <2>1. d * size < n
    BY <1>1, <1>2, ChunkCount
  <2>2. (d + 1) * size = d * size + size
    OBVIOUS
  <2> QED
    BY <1>1, <1>2, <2>1, <2>2
<1>4. c + 1 \in 1 .. NumChunks(n, size) <=> c * size < n
  <2>1. c + 1 \in Nat \ {0} /\ (c + 1) - 1 = c
    BY <1>1
  <2> QED
    BY <2>1, ChunkCount
<1> QED
  BY <1>1, <1>2, <1>3, <1>4 DEF PieceEnd

(* std::min of two numbers *)
LEMMA MinOfTwo ==
  ASSUME NEW a \in Int, NEW b \in Int
  PROVE  Min({a, b}) = IF a <= b THEN a ELSE b
  BY DEF Min

(* The c-th piece is the part of s up to its end. *)
LEMMA PieceIs ==
  ASSUME NEW S, NEW s \in Seq(S), NEW size \in Nat \ {0}, NEW c \in 1 .. NumChunks(Len(s), size)
  PROVE  /\ Piece(s, c, size) = SubSeq(s, (c - 1) * size + 1, PieceEnd(Len(s), c, size))
         /\ Piece(s, c, size) \in Seq(S)
         /\ Len(Piece(s, c, size)) = PieceEnd(Len(s), c, size) - (c - 1) * size
         /\ Len(Piece(s, c, size)) \in 1 .. size
         /\ \A i \in 1 .. Len(Piece(s, c, size)) :
              /\ (c - 1) * size + i \in 1 .. Len(s)
              /\ Piece(s, c, size)[i] = s[(c - 1) * size + i]
<1>1. Len(s) \in Nat
  BY LenProperties
<1>2. PICK lo : lo = (c - 1) * size
  OBVIOUS
<1>3. PICK hi : hi = PieceEnd(Len(s), c, size)
  OBVIOUS
<1>4. lo \in Nat /\ hi \in lo + 1 .. Len(s) /\ hi <= lo + size /\ c * size = lo + size
  BY <1>1, <1>2, <1>3, PieceBounds
<1>5. lo + Min({size, Len(s) - lo}) = hi
  <2>1. Min({size, Len(s) - lo}) = IF size <= Len(s) - lo THEN size ELSE Len(s) - lo
    BY <1>1, <1>4, MinOfTwo
  <2>2. hi = IF lo + size <= Len(s) THEN lo + size ELSE Len(s)
    BY <1>3, <1>4 DEF PieceEnd
  <2> QED
    BY <1>1, <1>4, <2>1, <2>2
<1>6. Piece(s, c, size) = SubSeq(s, lo + 1, hi)
  BY <1>2, <1>5 DEF Piece, PieceFrom
<1>7. \A i \in lo + 1 .. hi : s[i] \in S
  BY <1>1, <1>4, ElementOfSeq
<1>8. /\ SubSeq(s, lo + 1, hi) \in Seq(S)
      /\ Len(SubSeq(s, lo + 1, hi)) = IF lo + 1 <= hi THEN hi - (lo + 1) + 1 ELSE 0
      /\ \A i \in 1 .. hi - (lo + 1) + 1 : SubSeq(s, lo + 1, hi)[i] = s[(lo + 1) + i - 1]
  BY <1>4, <1>7, SubSeqProperties
<1>9. Len(SubSeq(s, lo + 1, hi)) = hi - lo /\ hi - lo \in 1 .. size
  BY <1>4, <1>8
<1>10. \A i \in 1 .. hi - lo : lo + i \in 1 .. Len(s) /\ SubSeq(s, lo + 1, hi)[i] = s[lo + i]
  BY <1>1, <1>4, <1>8
<1> QED
  BY <1>2, <1>3, <1>6, <1>8, <1>9, <1>10

(* The elements of a piece, and of all pieces. *)
LEMMA PieceMember ==
  ASSUME NEW S, NEW s \in Seq(S), NEW size \in Nat \ {0}, NEW c \in 1 .. NumChunks(Len(s), size), NEW x
  PROVE  x \in ToSet(Piece(s, c, size))
           <=> \E i \in 1 .. Len(s) : (c - 1) * size < i /\ i <= (c - 1) * size + size /\ s[i] = x
<1>1. PICK lo : lo = (c - 1) * size
  OBVIOUS
<1>2. PICK piece : piece = Piece(s, c, size)
  OBVIOUS
<1>3. Len(s) \in Nat /\ DOMAIN s = 1 .. Len(s)
  BY LenProperties
<1>4. lo \in Nat /\ lo < Len(s) /\ c * size = lo + size
  BY <1>1, <1>3, PieceBounds
<1>5. /\ piece \in Seq(S)
      /\ Len(piece) = PieceEnd(Len(s), c, size) - lo
      /\ Len(piece) \in 1 .. size
      /\ \A i \in 1 .. Len(piece) : lo + i \in 1 .. Len(s) /\ piece[i] = s[lo + i]
  BY <1>1, <1>2, PieceIs
<1>6. PieceEnd(Len(s), c, size) = IF lo + size <= Len(s) THEN lo + size ELSE Len(s)
  BY <1>4 DEF PieceEnd
<1>7. DOMAIN piece = 1 .. Len(piece)
  BY <1>5, LenProperties
<1>8. x \in ToSet(piece) <=> \E i \in 1 .. Len(piece) : piece[i] = x
  BY <1>7 DEF ToSet
<1>9. ASSUME NEW i \in 1 .. Len(piece), piece[i] = x
      PROVE  \E j \in 1 .. Len(s) : lo < j /\ j <= lo + size /\ s[j] = x
  <2>1. /\ lo + i \in 1 .. Len(s) /\ lo < lo + i /\ lo + i <= lo + size
        /\ s[lo + i] = x
    BY <1>4, <1>5, <1>9
  <2> QED
    BY <2>1
<1>10. ASSUME NEW j \in 1 .. Len(s), lo < j, j <= lo + size, s[j] = x
       PROVE  \E i \in 1 .. Len(piece) : piece[i] = x
  <2>1. j <= PieceEnd(Len(s), c, size) /\ PieceEnd(Len(s), c, size) \in Nat
    BY <1>3, <1>4, <1>6, <1>10
  <2>2. j - lo \in 1 .. Len(piece) /\ lo + (j - lo) = j
    BY <1>3, <1>4, <1>5, <1>10, <2>1
  <2> QED
    BY <1>5, <1>10, <2>2
<1> QED
  BY <1>1, <1>2, <1>8, <1>9, <1>10

(* Every position is in a piece. *)
LEMMA PieceOf ==
  ASSUME NEW n \in Nat, NEW size \in Nat \ {0}, NEW i \in 1 .. n
  PROVE  \E c \in 1 .. NumChunks(n, size) : (c - 1) * size < i /\ i <= (c - 1) * size + size
<1>1. PICK q : q = (i - 1) \div size
  OBVIOUS
<1>2. q \in Nat /\ q * size <= i - 1 /\ i - 1 < q * size + size
  BY <1>1, DivBounds
<1>3. q + 1 \in Nat \ {0} /\ (q + 1) - 1 = q /\ q * size < n
  BY <1>2
<1>4. q + 1 \in 1 .. NumChunks(n, size)
  BY <1>3, ChunkCount
<1> QED
  BY <1>2, <1>3, <1>4

(* No position is in two pieces. *)
LEMMA PieceUnique ==
  ASSUME NEW c \in Nat \ {0}, NEW d \in Nat \ {0}, NEW size \in Nat \ {0}, NEW i \in Nat,
         (c - 1) * size < i, i <= (c - 1) * size + size,
         (d - 1) * size < i, i <= (d - 1) * size + size
  PROVE  c = d
<1>1. ASSUME NEW a \in Nat, NEW b \in Nat, a < b, b * size < i, i <= a * size + size PROVE FALSE
  <2>1. (a + 1) * size <= b * size
    BY <1>1, MulMono
  <2>2. (a + 1) * size = a * size + size /\ a * size \in Nat
    OBVIOUS
  <2> QED
    BY <1>1, <2>1, <2>2
<1>2. c - 1 \in Nat /\ d - 1 \in Nat
  OBVIOUS
<1> QED
  BY <1>1, <1>2

(* The pieces cover the batch. *)
LEMMA PiecesCover ==
  ASSUME NEW S, NEW s \in Seq(S), NEW size \in Nat \ {0}
  PROVE  ToSet(s) = UNION {ToSet(Piece(s, c, size)) : c \in 1 .. NumChunks(Len(s), size)}
<1>1. Len(s) \in Nat /\ DOMAIN s = 1 .. Len(s)
  BY LenProperties
<1>2. ASSUME NEW x \in ToSet(s)
      PROVE  \E c \in 1 .. NumChunks(Len(s), size) : x \in ToSet(Piece(s, c, size))
  <2>1. PICK i \in 1 .. Len(s) : s[i] = x
    BY <1>1 DEF ToSet
  <2>2. PICK c \in 1 .. NumChunks(Len(s), size) : (c - 1) * size < i /\ i <= (c - 1) * size + size
    BY <1>1, PieceOf
  <2>3. x \in ToSet(Piece(s, c, size))
    BY <2>1, <2>2, PieceMember
  <2> QED
    BY <2>3
<1>3. ASSUME NEW c \in 1 .. NumChunks(Len(s), size), NEW x \in ToSet(Piece(s, c, size))
      PROVE  x \in ToSet(s)
  <2>1. PICK i \in 1 .. Len(s) : s[i] = x
    BY PieceMember
  <2> QED
    BY <1>1, <2>1 DEF ToSet
<1> QED
  BY <1>2, <1>3

(* Two pieces of a batch without duplicates share no flow. *)
LEMMA PiecesDisjoint ==
  ASSUME NEW S, NEW s \in Seq(S), IsInjective(s), NEW size \in Nat \ {0},
         NEW c \in 1 .. NumChunks(Len(s), size), NEW d \in 1 .. NumChunks(Len(s), size),
         NEW x, x \in ToSet(Piece(s, c, size)), x \in ToSet(Piece(s, d, size))
  PROVE  c = d
<1>1. Len(s) \in Nat /\ DOMAIN s = 1 .. Len(s)
  BY LenProperties
<1>2. PICK i \in 1 .. Len(s) : (c - 1) * size < i /\ i <= (c - 1) * size + size /\ s[i] = x
  BY PieceMember
<1>3. PICK j \in 1 .. Len(s) : (d - 1) * size < j /\ j <= (d - 1) * size + size /\ s[j] = x
  BY PieceMember
<1>4. i = j
  BY <1>1, <1>2, <1>3 DEF IsInjective
<1>5. c \in Nat \ {0} /\ d \in Nat \ {0}
  BY <1>1, PieceBounds
<1> QED
  BY <1>2, <1>3, <1>4, <1>5, PieceUnique

(* A piece of a batch without duplicates has none. *)
LEMMA PieceInjective ==
  ASSUME NEW S, NEW s \in Seq(S), IsInjective(s), NEW size \in Nat \ {0},
         NEW c \in 1 .. NumChunks(Len(s), size)
  PROVE  IsInjective(Piece(s, c, size))
<1>1. PICK lo : lo = (c - 1) * size
  OBVIOUS
<1>2. PICK piece : piece = Piece(s, c, size)
  OBVIOUS
<1>3. /\ piece \in Seq(S)
      /\ Len(piece) \in 1 .. size
      /\ \A i \in 1 .. Len(piece) : lo + i \in 1 .. Len(s) /\ piece[i] = s[lo + i]
  BY <1>1, <1>2, PieceIs
<1>4. DOMAIN piece = 1 .. Len(piece) /\ Len(piece) \in Nat /\ DOMAIN s = 1 .. Len(s) /\ Len(s) \in Nat
  BY <1>3, LenProperties
<1>5. lo \in Nat
  BY <1>1, <1>4, PieceBounds
<1>6. ASSUME NEW i \in 1 .. Len(piece), NEW j \in 1 .. Len(piece), piece[i] = piece[j] PROVE i = j
  <2>1. lo + i \in DOMAIN s /\ lo + j \in DOMAIN s /\ s[lo + i] = s[lo + j]
    BY <1>3, <1>4, <1>6
  <2>2. lo + i = lo + j
    BY <2>1 DEF IsInjective
  <2> QED
    BY <1>4, <1>5, <2>2
<1>7. IsInjective(piece)
  BY <1>4, <1>6 DEF IsInjective
<1> QED
  BY <1>2, <1>7

(* A sequence without duplicates has as many elements as positions. *)
LEMMA LenIsCardinality ==
  ASSUME NEW S, NEW s \in Seq(S), IsInjective(s)
  PROVE  IsFiniteSet(ToSet(s)) /\ Cardinality(ToSet(s)) = Len(s)
<1>1. Len(s) \in Nat /\ DOMAIN s = 1 .. Len(s) /\ s \in [1 .. Len(s) -> S]
  BY LenProperties
<1>2. s \in Bijection(1 .. Len(s), ToSet(s))
  <2>1. s \in [1 .. Len(s) -> ToSet(s)]
    BY <1>1 DEF ToSet
  <2>2. DOMAIN s = 1 .. Len(s) /\ IsInjective(s)
    BY <1>1
  <2>3. \A t \in ToSet(s) : \E a \in 1 .. Len(s) : s[a] = t
    BY <1>1 DEF ToSet
  <2> QED
    BY <2>1, <2>2, <2>3, Zenon DEF Bijection, Injection, Surjection
<1>3. IsFiniteSet(1 .. Len(s)) /\ Cardinality(1 .. Len(s)) = Len(s)
  BY <1>1, FS_Interval
<1>4. ExistsBijection(1 .. Len(s), ToSet(s))
  BY <1>2 DEF ExistsBijection
<1> QED
  BY <1>3, <1>4, FS_Bijection

-----------------------------------------------------------------------------
(* torch::concat of the pieces *)

(* Every set of naturals has a least element. *)
LEMMA Least ==
  ASSUME NEW T \in SUBSET Nat, T # {}
  PROVE  \E x \in T : \A y \in T : x <= y
<1>1. IsWellFoundedOn(OpToRel(<, Nat), Nat)
  BY NatLessThanWellFounded
<1>2. PICK x \in T : \A y \in T : ~ (<<y, x>> \in OpToRel(<, Nat))
  BY <1>1, WFMin
<1>3. \A y \in T : <<y, x>> \in Nat \X Nat
  OBVIOUS
<1>4. \A y \in T : ~ (<<y, x>>[1] < <<y, x>>[2])
  BY <1>2, <1>3, Zenon DEF OpToRel
<1> QED
  BY <1>4

(* h satisfies the recursion of FlattenSeq. *)
FlatPrefixes(h, seqs, k) ==
  \A i \in 1 .. k : h[i] = IF i = 1 THEN seqs[i] ELSE h[i-1] \o seqs[i]

(* FlattenSeq unfolds once a function satisfies its recursion: the CHOOSE  *)
(* behind it picks one that does, and no two differ.                       *)
LEMMA FlattenIs ==
  ASSUME NEW seqs, NEW k \in Nat \ {0}, Len(seqs) = k,
         NEW T, NEW h \in [1 .. k -> T], FlatPrefixes(h, seqs, k)
  PROVE  FlattenSeq(seqs) = h[k]
<1> DEFINE Fits(f) == f = [i \in 1 .. k |-> IF i = 1 THEN seqs[i] ELSE f[i-1] \o seqs[i]]
           g == CHOOSE f : Fits(f)
<1>1. FlattenSeq(seqs) = g[k]
  BY DEF FlattenSeq
<1>2. Fits(h)
  BY DEF FlatPrefixes
<1> HIDE DEF Fits
<1>3. Fits(g)
  BY <1>2
<1> HIDE DEF g
<1>4. \A i \in 1 .. k : g[i] = IF i = 1 THEN seqs[i] ELSE g[i-1] \o seqs[i]
  BY <1>3 DEF Fits
<1>5. \A i \in 1 .. k : h[i] = IF i = 1 THEN seqs[i] ELSE h[i-1] \o seqs[i]
  BY <1>2 DEF Fits
<1> DEFINE bad == {i \in 1 .. k : g[i] # h[i]}
<1>6. bad = {}
  <2> SUFFICES ASSUME bad # {} PROVE FALSE
    OBVIOUS
  <2>1. bad \in SUBSET Nat
    OBVIOUS
  <2>2. PICK i \in bad : \A j \in bad : i <= j
    BY <2>1, Least
  <2>3. i \in 1 .. k /\ g[i] # h[i]
    OBVIOUS
  <2>4. CASE i = 1
    BY <1>4, <1>5, <2>3, <2>4
  <2>5. CASE i # 1
    <3>1. i - 1 \in 1 .. k /\ ~(i <= i - 1)
      BY <2>3, <2>5
    <3>2. i - 1 \notin bad
      BY <2>2, <3>1
    <3>3. g[i-1] = h[i-1]
      BY <3>1, <3>2
    <3> QED
      BY <1>4, <1>5, <2>3, <2>5, <3>3
  <2> QED
    BY <2>4, <2>5
<1>7. g[k] = h[k]
  <2>1. k \in 1 .. k
    OBVIOUS
  <2> QED
    BY <1>6, <2>1
<1> QED
  BY <1>1, <1>7

(* The pieces of a batch, concatenated in order, are the batch. *)
LEMMA FlattenPieces ==
  ASSUME NEW S, NEW s \in Seq(S), NEW size \in Nat \ {0},
         NEW seqs \in [1 .. NumChunks(Len(s), size) -> Seq(S)],
         \A c \in 1 .. NumChunks(Len(s), size) : seqs[c] = Piece(s, c, size)
  PROVE  FlattenSeq(seqs) = s
<1>1. PICK k : k = NumChunks(Len(s), size)
  OBVIOUS
<1>2. PICK n : n = Len(s)
  OBVIOUS
<1>3. n \in Nat /\ k \in 0 .. n
  BY <1>1, <1>2, LenProperties, ChunkCount
<1>4. seqs \in [1 .. k -> Seq(S)] /\ \A c \in 1 .. k : seqs[c] = Piece(s, c, size)
  BY <1>1
<1>5. seqs \in Seq(Seq(S)) /\ Len(seqs) = k
  <2>1. seqs \in Seq(Seq(S))
    <3>1. k \in Nat
      BY <1>3
    <3>2. PICK T : T = Seq(S)
      OBVIOUS
    <3>3. seqs \in Seq(T)
      BY <1>4, <3>1, <3>2, SeqDef
    <3> QED
      BY <3>2, <3>3
  <2>2. DOMAIN seqs = 1 .. Len(seqs) /\ Len(seqs) \in Nat
    BY <2>1, LenProperties
  <2>3. DOMAIN seqs = 1 .. k
    BY <1>4
  <2>4. PICK m : m = Len(seqs)
    OBVIOUS
  <2>5. (k \in 1 .. k <=> k \in 1 .. m) /\ (m \in 1 .. k <=> m \in 1 .. m)
    BY <2>2, <2>3, <2>4, Zenon
  <2>6. m \in Nat /\ k \in Nat
    BY <1>3, <2>2, <2>4
  <2>7. m = k
    BY ONLY <2>5, <2>6
  <2> QED
    BY <2>1, <2>4, <2>7
<1>6. CASE k = 0
  <2>1. n = 0
    <3>1. 1 \in Nat \ {0} /\ 1 \notin 1 .. k /\ (1 - 1) * size = 0
      BY <1>6
    <3>2. ~((1 - 1) * size < n)
      BY <1>1, <1>2, <1>3, <3>1, ChunkCount
    <3> QED
      BY <1>3, <3>1, <3>2
  <2>2. s = <<>> /\ seqs = <<>>
    BY <1>2, <1>5, <1>6, <2>1, EmptySeq
  <2>3. FlattenSeq(seqs) = seqs
    BY <1>5, <1>6 DEF FlattenSeq
  <2> QED
    BY <2>2, <2>3
<1>7. CASE k # 0
  <2> DEFINE h == [i \in 1 .. k |-> SubSeq(s, 1, PieceEnd(n, i, size))]
  <2>1. ASSUME NEW i \in 1 .. k
        PROVE  h[i] = IF i = 1 THEN seqs[i] ELSE h[i-1] \o seqs[i]
    <3>1. PICK lo : lo = (i - 1) * size
      OBVIOUS
    <3>2. PICK hi : hi = PieceEnd(n, i, size)
      OBVIOUS
    <3>3. lo \in Nat /\ lo < n /\ hi \in lo + 1 .. n
      BY <1>1, <1>2, <1>3, <3>1, <3>2, PieceBounds
    <3>4. seqs[i] = SubSeq(s, lo + 1, hi)
      BY <1>1, <1>2, <1>4, <3>1, <3>2, PieceIs
    <3>5. h[i] = SubSeq(s, 1, hi)
      BY <3>2
    <3>6. CASE i = 1
      <4>1. lo + 1 = 1
        BY <3>1, <3>6
      <4> QED
        BY <3>4, <3>5, <3>6, <4>1
    <3>7. CASE i # 1
      <4>1. i - 1 \in 1 .. k /\ i - 1 < k
        BY <1>3, <3>7
      <4>2. PieceEnd(n, i - 1, size) = lo
        <5>1. PICK c : c = i - 1
          OBVIOUS
        <5>2. PieceEnd(n, c, size) = c * size
          BY <1>1, <1>2, <1>3, <4>1, <5>1, PieceBounds
        <5> QED
          BY <3>1, <5>1, <5>2
      <4>3. h[i-1] = SubSeq(s, 1, lo)
        BY <4>1, <4>2
      <4>4. SubSeq(s, 1, lo) \o SubSeq(s, lo + 1, hi) = SubSeq(s, 1, hi)
        <5>1. /\ 1 \in 1 .. Len(s) + 1 /\ lo \in 1 - 1 .. Len(s) /\ hi \in lo .. Len(s)
          BY <1>2, <1>3, <3>3
        <5> QED
          BY <5>1, ConcatAdjacentSubSeq
      <4> QED
        BY <3>4, <3>5, <3>7, <4>3, <4>4
    <3> QED
      BY <3>6, <3>7
  <2>2. h \in [1 .. k -> Range(h)]
    BY DEF Range
  <2>3. h[k] = s
    <3>1. k \in 1 .. k
      BY <1>3, <1>7
    <3>2. PieceEnd(n, k, size) = n
      BY <1>1, <1>2, <1>3, <3>1, PieceBounds
    <3>3. SubSeq(s, 1, n) = s
      BY <1>2, SubSeqFull
    <3> QED
      BY <3>1, <3>2, <3>3
  <2> HIDE DEF h
  <2>4. FlattenSeq(seqs) = h[k]
    <3>1. k \in Nat \ {0}
      BY <1>3, <1>7
    <3>2. \A i \in 1 .. k : h[i] = IF i = 1 THEN seqs[i] ELSE h[i-1] \o seqs[i]
      BY <2>1
    <3>3. Len(seqs) = k
      BY <1>5
    <3>4. FlatPrefixes(h, seqs, k)
      BY <3>2 DEF FlatPrefixes
    <3> QED
      BY <2>2, <3>1, <3>3, <3>4, FlattenIs
  <2> QED
    BY <2>3, <2>4
<1> QED
  BY <1>6, <1>7

-----------------------------------------------------------------------------
(* The invariant *)

(* The loops run until the destructor begins, and so do the models. *)
StopInv ==
  /\ mIsRunning <=> dtorPc = "none"
  /\ \A g \in Gpu : loopPc[g] = "exited" => ~mIsRunning
  /\ ModelAliveInUse

(* A loop holds flows from the read to AddTask; the batches added are      *)
(* numbered from 1, none is empty, and none is encoded before it starts.   *)
BatchInv ==
  /\ \A g \in Gpu : hold[g] # <<>> <=> loopPc[g] \in {"count", "add"}
  /\ \A b \in Batch :
       /\ b <= numBatches <=> list[b] # <<>>
       /\ b <= numBatches <=> taskPc[b] # "none"
       /\ taskPc[b] \in {"none", "queued"} => \A c \in Chunk : encPc[b][c] = "new"

(* The sequence s holds flows made so far, none twice. *)
Once(s) == IsInjective(s) /\ ToSet(s) \subseteq 1 .. made

Apart(s, t) == ToSet(s) \cap ToSet(t) = {}

(* No flow is in two places. *)
FlowInv ==
  /\ Once(doubleBufferQueue)
  /\ \A g \in Gpu : Once(hold[g]) /\ Apart(hold[g], doubleBufferQueue)
  /\ \A b \in Batch : Once(list[b]) /\ Apart(list[b], doubleBufferQueue)
  /\ \A g, h \in Gpu : g # h => Apart(hold[g], hold[h])
  /\ \A a, b \in Batch : a # b => Apart(list[a], list[b])
  /\ \A g \in Gpu, b \in Batch : Apart(hold[g], list[b])

(* Rows of torch::rand *)
RandRows(n) == [i \in 1 .. n |-> Rand]

(* What send_one_msg sends of the c-th piece of batch b. *)
Message(b, c) ==
  [ids |-> Piece(list[b], c, max_send_batch), rows |-> Piece(feature[b], c, max_send_batch)]

(* The messages are the pieces sent, of the batches that got that far. *)
SendInv ==
  /\ \A b \in Batch :
       /\ taskPc[b] = "send" => feature[b] \in {list[b], RandRows(Len(list[b]))}
       /\ taskPc[b] = "done" => \A c \in SendChunks(b) : sendPc[b][c] # "new"
       /\ \A c \in Chunk :
            /\ sendPc[b][c] # "new" => taskPc[b] \in {"send", "done", "failed"}
            /\ sendPc[b][c] = "sent" => Message(b, c) \in messages
  /\ \A m \in messages : \E b \in Batch : \E c \in SendChunks(b) :
       sendPc[b][c] = "sent" /\ m = Message(b, c)
  /\ RowsMatchIds

Inv == TypeOK /\ StopInv /\ BatchInv /\ FlowInv /\ SendInv /\ BlockedExact

-----------------------------------------------------------------------------
(* The flows and their places *)

(* The empty sequence, and one more flow. *)
LEMMA EmptyOnce == IsInjective(<<>>) /\ ToSet(<<>>) = {}
  BY DEF IsInjective, ToSet

(* A flow appended to a list without repetition that does not hold it. *)
LEMMA AppendOnce ==
  ASSUME NEW S, NEW s \in Seq(S), NEW e \in S, e \notin ToSet(s), IsInjective(s)
  PROVE  IsInjective(Append(s, e)) /\ ToSet(Append(s, e)) = ToSet(s) \cup {e}
<1>1. PICK t : t = Append(s, e)
  OBVIOUS
<1>2. /\ t \in Seq(S) /\ Len(t) = Len(s) + 1
      /\ \A i \in 1 .. Len(s) : t[i] = s[i]
      /\ t[Len(s) + 1] = e
  BY <1>1, AppendProperties
<1>3. DOMAIN t = 1 .. Len(s) + 1 /\ DOMAIN s = 1 .. Len(s) /\ Len(s) \in Nat
  BY <1>2, LenProperties
<1>4. \A i \in 1 .. Len(s) : s[i] # e
  BY <1>3 DEF ToSet
<1>5. IsInjective(t)
  BY <1>2, <1>3, <1>4 DEF IsInjective
<1>6. \A i \in 1 .. Len(s) + 1 : i \in 1 .. Len(s) \/ i = Len(s) + 1
  BY <1>3
<1>7. \A x : x \in ToSet(t) <=> x \in ToSet(s) \cup {e}
  BY <1>2, <1>3, <1>6 DEF ToSet
<1> QED
  BY <1>1, <1>5, <1>7

(* The lists of the batches, and their pieces. *)
LEMMA ListFacts ==
  ASSUME TypeOK, FlowInv, NEW b \in Batch
  PROVE  /\ list[b] \in Seq(FlowId) /\ IsInjective(list[b])
         /\ Len(list[b]) \in 0 .. MaxFlows
         /\ EncodeChunks(b) \subseteq Chunk /\ SendChunks(b) \subseteq Chunk
<1>1. list[b] \in Seq(FlowId) /\ IsInjective(list[b]) /\ Len(list[b]) \in Nat
  BY LenProperties DEF TypeOK, FlowInv, Once
<1>2. Len(list[b]) <= MaxFlows
  <2>1. ToSet(list[b]) \subseteq FlowId
    BY <1>1, LenProperties DEF ToSet
  <2>2. IsFiniteSet(FlowId) /\ Cardinality(FlowId) = MaxFlows
    BY MaxFlowsAssumption, FS_Interval DEF FlowId
  <2>3. Cardinality(ToSet(list[b])) <= MaxFlows
    BY <2>1, <2>2, FS_Subset
  <2>4. Cardinality(ToSet(list[b])) = Len(list[b])
    BY <1>1, LenIsCardinality
  <2> QED
    BY <2>3, <2>4
<1>3. \A size \in Nat \ {0} : 1 .. NumChunks(Len(list[b]), size) \subseteq Chunk
  <2> SUFFICES ASSUME NEW size \in Nat \ {0} PROVE 1 .. NumChunks(Len(list[b]), size) \subseteq Chunk
    OBVIOUS
  <2>1. NumChunks(Len(list[b]), size) \in 0 .. Len(list[b])
    BY <1>1, ChunkCount
  <2> QED
    BY <1>1, <1>2, <2>1, MaxFlowsAssumption DEF Chunk
<1> QED
  BY <1>1, <1>2, <1>3, BatchAssumption DEF EncodeChunks, SendChunks

(* There is room for one more batch: the batches are not empty and hold    *)
(* different flows.                                                        *)
LEMMA BatchRoom ==
  ASSUME TypeOK, BatchInv, FlowInv, NEW g \in Gpu, hold[g] # <<>>
  PROVE  numBatches + 1 \in Batch
<1>t. MaxFlows \in Nat /\ numBatches \in 0 .. MaxFlows
  BY MaxFlowsAssumption DEF TypeOK
<1> SUFFICES ASSUME numBatches = MaxFlows PROVE FALSE
  BY <1>t DEF Batch
<1>1. ASSUME NEW s \in Seq(FlowId), s # <<>> PROVE s[1] \in FlowId /\ s[1] \in ToSet(s)
  <2>1. Len(s) \in Nat \ {0} /\ DOMAIN s = 1 .. Len(s)
    BY <1>1, EmptySeq, LenProperties
  <2>2. 1 \in 1 .. Len(s)
    BY <2>1
  <2> QED
    BY <2>1, <2>2, ElementOfSeq DEF ToSet
<1>2. hold[g][1] \in FlowId /\ hold[g][1] \in ToSet(hold[g])
  BY <1>1 DEF TypeOK
<1>3. \A b \in 1 .. MaxFlows : b \in Batch /\ list[b][1] \in FlowId /\ list[b][1] \in ToSet(list[b])
  BY <1>1, <1>t DEF TypeOK, BatchInv, Batch
<1> DEFINE first == [b \in 1 .. MaxFlows + 1 |-> IF b <= MaxFlows THEN list[b][1] ELSE hold[g][1]]
<1>4. first \in [1 .. MaxFlows + 1 -> FlowId]
  BY <1>t, <1>2, <1>3
<1>5. \A a, b \in 1 .. MaxFlows + 1 : first[a] = first[b] => a = b
  <2> SUFFICES ASSUME NEW a \in 1 .. MaxFlows + 1, NEW b \in 1 .. MaxFlows + 1, a < b,
                      first[a] = first[b]
               PROVE  FALSE
    BY <1>t
  <2>1. a \in 1 .. MaxFlows /\ a \in Batch
    BY <1>t DEF Batch
  <2>2. CASE b <= MaxFlows
    <3>1. b \in 1 .. MaxFlows /\ b \in Batch /\ a # b
      BY <1>t, <2>2 DEF Batch
    <3>2. first[a] \in ToSet(list[a]) /\ first[b] \in ToSet(list[b])
      BY <1>3, <1>t, <2>1, <3>1
    <3> QED
      BY <2>1, <3>1, <3>2 DEF FlowInv, Apart
  <2>3. CASE ~(b <= MaxFlows)
    <3>1. first[a] \in ToSet(list[a]) /\ first[b] \in ToSet(hold[g])
      BY <1>2, <1>3, <1>t, <2>1, <2>3
    <3> QED
      BY <2>1, <3>1 DEF FlowInv, Apart
  <2> QED
    BY <2>2, <2>3
<1>6. IsFiniteSet(FlowId) /\ Cardinality(FlowId) = MaxFlows
  BY <1>t, FS_Interval DEF FlowId
<1>7. IsFiniteSet(1 .. MaxFlows + 1) /\ Cardinality(1 .. MaxFlows + 1) = MaxFlows + 1
  BY <1>t, FS_Interval
<1> HIDE DEF first
<1>8. \E a, b \in 1 .. MaxFlows + 1 : a # b /\ first[a] = first[b]
  BY <1>t, <1>4, <1>6, <1>7, FS_PigeonHole
<1> QED
  BY <1>5, <1>8

(* The models live until the destructor begins. *)
LEMMA NextStop == Inv /\ [Next]_vars => StopInv'
<1> SUFFICES ASSUME Inv, [Next]_vars PROVE StopInv'
  OBVIOUS
<1>t. /\ loopPc \in [Gpu -> {"load", "check", "read", "count", "add", "exited"}]
      /\ device \in Seq(Gpu) /\ Len(device) = numBatches
      /\ StopInv
  BY DEF Inv, TypeOK
<1>1. ASSUME UNCHANGED <<mIsRunning, dtorPc, usedDeleted>>,
             \A g \in Gpu : loopPc'[g] = "exited" => loopPc[g] = "exited" \/ ~mIsRunning
      PROVE  StopInv'
  <2>1. (mIsRunning <=> dtorPc = "none")'
    BY <1>t, <1>1 DEF StopInv
  <2>2. (\A g \in Gpu : loopPc[g] = "exited" => ~mIsRunning)'
    BY <1>t, <1>1 DEF StopInv
  <2>3. ModelAliveInUse'
    BY <1>t, <1>1 DEF StopInv, ModelAliveInUse
  <2> QED
    BY <2>1, <2>2, <2>3 DEF StopInv
<1>2. ASSUME UNCHANGED <<loopPc, usedDeleted>>, ~mIsRunning', dtorPc' # "none" PROVE StopInv'
  BY <1>2 DEF StopInv, ModelAliveInUse
<1>3. ASSUME NEW g \in Gpu, LoopTask(g) PROVE StopInv'
  <2>1. UNCHANGED <<mIsRunning, dtorPc, usedDeleted>>
    BY <1>3 DEF LoopTask, LoopLoad, LoopCheck, LoopRead, LoopCount, LoopAdd, sinkVars, taskVars, encodeVars
  <2>2. \/ loopPc' = loopPc
        \/ \E to \in {"check", "read", "count", "add", "exited"} :
             (to = "exited" => ~mIsRunning) /\ loopPc' = [loopPc EXCEPT ![g] = to]
    BY <1>3 DEF LoopTask, LoopLoad, LoopCheck, LoopRead, LoopCount, LoopAdd, AfterEmpty
  <2>3. \A h \in Gpu : loopPc'[h] = "exited" => loopPc[h] = "exited" \/ ~mIsRunning
    BY <1>t, <2>2
  <2> QED
    BY <1>1, <2>1, <2>3
<1>4. ASSUME NEW b \in Batch, NEW c \in Chunk,
             EncodeEnd(b, c) \/ EncodeCrash(b, c) \/ EncodeThrow(b, c)
      PROVE StopInv'
  <2>1. /\ encPc[b][c] = "run" /\ UNCHANGED <<loopPc, mIsRunning, dtorPc>>
        /\ usedDeleted' = (usedDeleted \/ loopPc[device[b]] = "exited")
    BY <1>4 DEF EncodeEnd, EncodeCrash, EncodeThrow, loopVars, sinkVars
  <2>2. b \in 1 .. numBatches
    BY <2>1, MaxFlowsAssumption DEF Inv, BatchInv, TypeOK, Batch
  <2>3. device[b] \in Gpu
    BY <1>t, <2>2, ElementOfSeq
  <2>4. loopPc[device[b]] = "exited" => dtorPc # "none"
    BY <1>t, <2>3 DEF StopInv
  <2>5. ModelAliveInUse'
    BY <1>t, <2>1, <2>4 DEF StopInv, ModelAliveInUse
  <2> QED
    BY <1>t, <2>1, <2>5 DEF StopInv
<1>5. CASE DtorStop
  BY <1>2, <1>5 DEF DtorStop, loopVars, taskVars, encodeVars
<1>6. CASE DtorStep
  <2>1. ~mIsRunning' /\ dtorPc' # "none" /\ UNCHANGED <<loopPc, usedDeleted>>
    <3>1. UNCHANGED <<mIsRunning, loopPc, usedDeleted>> /\ dtorPc # "none" /\ dtorPc' # "none"
      BY <1>6 DEF DtorStep, DtorJoinCleaner, DtorJoin, DtorExecutor, loopVars, taskVars, encodeVars
    <3> QED
      BY <1>t, <3>1 DEF StopInv
  <2> QED
    BY <1>2, <2>1
<1>7. \/ \E g \in Gpu : LoopTask(g)
      \/ \E b \in Batch, c \in Chunk : EncodeEnd(b, c) \/ EncodeCrash(b, c) \/ EncodeThrow(b, c)
      \/ DtorStop \/ DtorStep
      \/ UNCHANGED <<mIsRunning, dtorPc, usedDeleted, loopPc>>
  BY DEF Next, NewFlow, TaskStep, EncodeStep, TaskStart, EncodeJoin, SendJoin, EncodeBegin, SendOneMsg,
         vars, taskVars, encodeVars, loopVars, sinkVars
<1> QED
  BY <1>1, <1>3, <1>4, <1>5, <1>6, <1>7

(* The tasks move on; they are added and started in order. *)
LEMMA NextBatch == Inv /\ [Next]_vars => BatchInv'
<1> SUFFICES ASSUME Inv, [Next]_vars PROVE BatchInv'
  OBVIOUS
<1>t. /\ loopPc \in [Gpu -> {"load", "check", "read", "count", "add", "exited"}]
      /\ hold \in [Gpu -> Seq(FlowId)]
      /\ numBatches \in 0 .. MaxFlows /\ MaxFlows \in Nat
      /\ list \in [Batch -> Seq(FlowId)]
      /\ taskPc \in [Batch -> {"none", "queued", "encode", "send", "done", "failed", "dropped"}]
      /\ encPc \in [Batch -> [Chunk -> {"new", "run", "ok", "rand", "threw"}]]
      /\ BatchInv /\ FlowInv /\ TypeOK
  BY MaxFlowsAssumption DEF Inv, TypeOK
<1> DEFINE HoldPart == \A g \in Gpu : hold[g] # <<>> <=> loopPc[g] \in {"count", "add"}
           BatchPart(b) == /\ b <= numBatches <=> list[b] # <<>>
                           /\ b <= numBatches <=> taskPc[b] # "none"
                           /\ taskPc[b] \in {"none", "queued"} => \A c \in Chunk : encPc[b][c] = "new"
<1>s. SUFFICES HoldPart' /\ \A b \in Batch : BatchPart(b)'
  BY DEF BatchInv
<1>i. HoldPart /\ \A b \in Batch : BatchPart(b)
  BY <1>t DEF BatchInv
<1>1. ASSUME UNCHANGED <<hold, loopPc>> PROVE HoldPart'
  BY <1>1, <1>i
<1>2. ASSUME UNCHANGED batchVars, UNCHANGED <<taskPc, encPc>> PROVE \A b \in Batch : BatchPart(b)'
  BY <1>2, <1>i DEF batchVars
<1>3. ASSUME NEW g \in Gpu, LoopLoad(g) \/ LoopCheck(g) \/ LoopRead(g) \/ LoopCount(g)
      PROVE  HoldPart' /\ \A b \in Batch : BatchPart(b)'
  <2>1. UNCHANGED batchVars /\ UNCHANGED <<taskPc, encPc>>
    BY <1>3 DEF LoopLoad, LoopCheck, LoopRead, LoopCount, taskVars, encodeVars
  <2>2. HoldPart'
    <3>1. CASE LoopLoad(g)
      BY <1>t, <1>i, <3>1 DEF LoopLoad
    <3>2. CASE LoopCheck(g)
      BY <1>t, <1>i, <3>2 DEF LoopCheck
    <3>3. CASE LoopRead(g)
      BY <1>t, <1>i, <3>3 DEF LoopRead, AfterEmpty
    <3>4. CASE LoopCount(g)
      BY <1>t, <1>i, <3>4 DEF LoopCount
    <3> QED
      BY <1>3, <3>1, <3>2, <3>3, <3>4
  <2> QED
    BY <1>2, <2>1, <2>2
<1>4. ASSUME NEW g \in Gpu, LoopAdd(g) PROVE HoldPart' /\ \A b \in Batch : BatchPart(b)'
  <2>1. hold[g] # <<>>
    BY <1>i, <1>4 DEF LoopAdd
  <2>2. numBatches + 1 \in Batch
    BY <1>t, <2>1, BatchRoom
  <2>3. HoldPart'
    BY <1>t, <1>i, <1>4 DEF LoopAdd
  <2>4. /\ numBatches' = numBatches + 1 /\ encPc' = encPc
        /\ list' = [list EXCEPT ![numBatches + 1] = hold[g]]
        /\ taskPc' = [taskPc EXCEPT ![numBatches + 1] = "queued"]
    BY <1>4 DEF LoopAdd, encodeVars
  <2>5. ASSUME NEW b \in Batch PROVE BatchPart(b)'
    <3>1. b \in Nat /\ (b <= numBatches + 1 <=> b <= numBatches \/ b = numBatches + 1)
      BY <1>t DEF Batch
    <3>2. CASE b = numBatches + 1
      <4>1. list'[b] = hold[g] /\ taskPc'[b] = "queued" /\ b <= numBatches'
        BY <1>t, <2>2, <2>4, <3>1, <3>2
      <4>2. taskPc[b] = "none"
        BY <1>i, <1>t, <3>2
      <4>3. \A c \in Chunk : encPc[b][c] = "new"
        BY <1>i, <4>2
      <4> QED
        BY <2>1, <2>4, <4>1, <4>3
    <3>3. CASE b # numBatches + 1
      <4>1. list'[b] = list[b] /\ taskPc'[b] = taskPc[b] /\ (b <= numBatches' <=> b <= numBatches)
        BY <1>t, <2>4, <3>1, <3>3
      <4> QED
        BY <1>i, <2>4, <4>1
    <3> QED
      BY <3>2, <3>3
  <2> QED
    BY <2>3, <2>5
<1>5. ASSUME UNCHANGED <<hold, loopPc, numBatches, list, encPc>>,
             taskPc' \in [Batch -> {"none", "queued", "encode", "send", "done", "failed", "dropped"}],
             \A b \in Batch : /\ taskPc'[b] = "none" <=> taskPc[b] = "none"
                              /\ taskPc'[b] = "queued" => taskPc[b] = "queued"
      PROVE  HoldPart' /\ \A b \in Batch : BatchPart(b)'
  BY <1>5, <1>1, <1>i
<1>6. ASSUME NEW b \in Batch, NEW c \in Chunk, EncodeStep(b, c)
      PROVE  HoldPart' /\ \A a \in Batch : BatchPart(a)'
  <2>1. UNCHANGED <<hold, loopPc, numBatches, list>>
    BY <1>6 DEF EncodeStep, EncodeBegin, EncodeEnd, EncodeCrash, EncodeThrow, batchVars, loopVars
  <2>2. \/ taskPc' = taskPc
        \/ taskPc' = [taskPc EXCEPT ![b] = "failed"]
    BY <1>6 DEF EncodeStep, EncodeBegin, EncodeEnd, EncodeCrash, EncodeThrow
  <2>3. encPc' = encPc \/ \E e : encPc' = [encPc EXCEPT ![b][c] = e]
    BY <1>6 DEF EncodeStep, EncodeBegin, EncodeEnd, EncodeCrash, EncodeThrow
  <2>4. taskPc[b] \notin {"none", "queued"}
    <3>1. taskPc[b] = "encode" \/ encPc[b][c] = "run"
      BY <1>6 DEF EncodeStep, EncodeBegin, EncodeEnd, EncodeCrash, EncodeThrow
    <3> QED
      BY <1>i, <3>1
  <2>5. ASSUME NEW a \in Batch PROVE BatchPart(a)'
    <3>1. CASE a = b
      BY <1>i, <1>t, <2>1, <2>2, <2>4, <3>1
    <3>2. CASE a # b
      <4>1. taskPc'[a] = taskPc[a] /\ encPc'[a] = encPc[a]
        BY <1>t, <2>2, <2>3, <3>2
      <4> QED
        BY <1>i, <2>1, <4>1
    <3> QED
      BY <3>1, <3>2
  <2> QED
    BY <1>1, <2>1, <2>5
<1>7. ASSUME NEW b \in Batch, TaskStart(b) \/ EncodeJoin(b) \/ SendJoin(b)
      PROVE  HoldPart' /\ \A a \in Batch : BatchPart(a)'
  <2>1. UNCHANGED <<hold, loopPc, numBatches, list, encPc>>
    BY <1>7 DEF TaskStart, EncodeJoin, SendJoin, batchVars, loopVars, encodeVars
  <2>2. /\ taskPc[b] # "none"
        /\ \E to \in {"encode", "send", "failed", "done"} : taskPc' = [taskPc EXCEPT ![b] = to]
    BY <1>7 DEF TaskStart, EncodeJoin, SendJoin
  <2> QED
    BY <1>5, <1>t, <2>1, <2>2
<1>8. CASE DtorJoin
  <2>1. UNCHANGED <<hold, loopPc, numBatches, list, encPc>>
    BY <1>8 DEF DtorJoin, batchVars, loopVars, encodeVars
  <2>2. taskPc' = [b \in Batch |-> IF taskPc[b] = "queued" THEN "dropped" ELSE taskPc[b]]
    BY <1>8 DEF DtorJoin
  <2> QED
    BY <1>5, <1>t, <2>1, <2>2
<1>9. \/ \E g \in Gpu : LoopLoad(g) \/ LoopCheck(g) \/ LoopRead(g) \/ LoopCount(g)
      \/ \E g \in Gpu : LoopAdd(g)
      \/ \E b \in Batch, c \in Chunk : EncodeStep(b, c)
      \/ \E b \in Batch : TaskStart(b) \/ EncodeJoin(b) \/ SendJoin(b)
      \/ DtorJoin
      \/ UNCHANGED <<hold, loopPc>> /\ UNCHANGED batchVars /\ UNCHANGED <<taskPc, encPc>>
  BY DEF Next, LoopTask, NewFlow, TaskStep, SendOneMsg, DtorStop, DtorStep, DtorJoinCleaner, DtorExecutor,
         vars, taskVars, encodeVars, loopVars
<1> HIDE DEF HoldPart, BatchPart
<1> QED
  BY <1>1, <1>2, <1>3, <1>4, <1>6, <1>7, <1>8, <1>9

(* A flow moves from the queue to a loop and from there to a batch. *)
LEMMA NextFlowInv == Inv /\ [Next]_vars => FlowInv'
<1> SUFFICES ASSUME Inv, [Next]_vars PROVE FlowInv'
  OBVIOUS
<1>t. /\ made \in 0 .. MaxFlows /\ MaxFlows \in Nat
      /\ doubleBufferQueue \in Seq(FlowId)
      /\ hold \in [Gpu -> Seq(FlowId)]
      /\ list \in [Batch -> Seq(FlowId)]
      /\ BatchInv /\ FlowInv /\ TypeOK
  BY MaxFlowsAssumption DEF Inv, TypeOK
<1>1. CASE NewFlow
  <2>1. made' = made + 1 /\ doubleBufferQueue' = Append(doubleBufferQueue, made + 1) /\ hold' = hold /\ list' = list
    BY <1>1 DEF NewFlow, loopVars, taskVars, batchVars
  <2>2. /\ made + 1 \in FlowId /\ made + 1 \notin 1 .. made
        /\ 1 .. made \subseteq 1 .. made' /\ made + 1 \in 1 .. made'
    BY <1>1, <1>t, <2>1 DEF NewFlow, FlowId
  <2>3. \A x \in 1 .. made : x # made + 1
    BY <2>2
  <2>4. /\ IsInjective(doubleBufferQueue')
        /\ ToSet(doubleBufferQueue') = ToSet(doubleBufferQueue) \cup {made + 1}
    <3>1. IsInjective(doubleBufferQueue) /\ made + 1 \notin ToSet(doubleBufferQueue)
      BY <1>t, <2>3 DEF FlowInv, Once
    <3> QED
      BY <1>t, <2>1, <2>2, <3>1, AppendOnce
  <2>5. Once(doubleBufferQueue)'
    BY <1>t, <2>2, <2>4 DEF FlowInv, Once
  <2>6. (\A g \in Gpu : Once(hold[g]) /\ Apart(hold[g], doubleBufferQueue))'
    BY <1>t, <2>1, <2>2, <2>3, <2>4 DEF FlowInv, Once, Apart
  <2>7. (\A b \in Batch : Once(list[b]) /\ Apart(list[b], doubleBufferQueue))'
    BY <1>t, <2>1, <2>2, <2>3, <2>4 DEF FlowInv, Once, Apart
  <2> QED
    BY <1>t, <2>1, <2>5, <2>6, <2>7 DEF FlowInv, Apart
<1>2. ASSUME NEW g \in Gpu, LoopRead(g) PROVE FlowInv'
  <2>1. /\ hold' = [hold EXCEPT ![g] = doubleBufferQueue]
        /\ doubleBufferQueue' = <<>> /\ list' = list /\ made' = made
    BY <1>2 DEF LoopRead, taskVars, batchVars
  <2>2. \A h \in Gpu : hold'[h] = IF h = g THEN doubleBufferQueue ELSE hold[h]
    BY <1>t, <2>1
  <2>3. ToSet(doubleBufferQueue') = {} /\ IsInjective(doubleBufferQueue')
    BY <2>1, EmptyOnce
  <2>4. Once(doubleBufferQueue)'
    BY <2>3 DEF Once
  <2>5. (\A h \in Gpu : Once(hold[h]) /\ Apart(hold[h], doubleBufferQueue))'
    BY <1>t, <2>1, <2>2, <2>3 DEF FlowInv, Once, Apart
  <2>6. (\A b \in Batch : Once(list[b]) /\ Apart(list[b], doubleBufferQueue))'
    BY <1>t, <2>1, <2>3 DEF FlowInv, Once, Apart
  <2>7. (\A h, i \in Gpu : h # i => Apart(hold[h], hold[i]))'
    BY <1>t, <2>2 DEF FlowInv, Apart
  <2>8. (\A h \in Gpu, b \in Batch : Apart(hold[h], list[b]))'
    BY <1>t, <2>1, <2>2 DEF FlowInv, Apart
  <2> QED
    BY <1>t, <2>1, <2>4, <2>5, <2>6, <2>7, <2>8 DEF FlowInv, Apart
<1>3. ASSUME NEW g \in Gpu, LoopAdd(g) PROVE FlowInv'
  <2>1. hold[g] # <<>>
    BY <1>t, <1>3 DEF LoopAdd, BatchInv
  <2>2. numBatches + 1 \in Batch
    BY <1>t, <2>1, BatchRoom
  <2>3. PICK nb \in Batch : nb = numBatches + 1
    BY <2>2
  <2>4. /\ hold' = [hold EXCEPT ![g] = <<>>] /\ list' = [list EXCEPT ![nb] = hold[g]]
        /\ doubleBufferQueue' = doubleBufferQueue /\ made' = made
    BY <1>3, <2>3 DEF LoopAdd, queueVars
  <2>5. \A h \in Gpu : hold'[h] = IF h = g THEN <<>> ELSE hold[h]
    BY <1>t, <2>4
  <2>6. \A b \in Batch : list'[b] = IF b = nb THEN hold[g] ELSE list[b]
    BY <1>t, <2>4
  <2>7. ToSet(<<>>) = {} /\ IsInjective(<<>>)
    BY EmptyOnce
  <2> HIDE <2>4
  <2>8. doubleBufferQueue' = doubleBufferQueue /\ made' = made
    BY <2>4
  <2>9. Once(doubleBufferQueue)'
    BY <1>t, <2>8 DEF FlowInv, Once
  <2>10. (\A h \in Gpu : Once(hold[h]) /\ Apart(hold[h], doubleBufferQueue))'
    BY <1>t, <2>5, <2>7, <2>8 DEF FlowInv, Once, Apart
  <2>11. (\A b \in Batch : Once(list[b]) /\ Apart(list[b], doubleBufferQueue))'
    BY <1>t, <2>6, <2>8 DEF FlowInv, Once, Apart
  <2>12. (\A h, i \in Gpu : h # i => Apart(hold[h], hold[i]))'
    BY <1>t, <2>5, <2>7 DEF FlowInv, Apart
  <2>13. (\A a, b \in Batch : a # b => Apart(list[a], list[b]))'
    BY <1>t, <2>6 DEF FlowInv, Apart
  <2>14. (\A h \in Gpu, b \in Batch : Apart(hold[h], list[b]))'
    BY <1>t, <2>5, <2>6, <2>7 DEF FlowInv, Apart
  <2> QED
    BY <2>9, <2>10, <2>11, <2>12, <2>13, <2>14 DEF FlowInv
<1>4. CASE UNCHANGED <<made, doubleBufferQueue, hold, list>>
  BY <1>4, <1>t DEF FlowInv, Once, Apart
<1>5. \/ NewFlow \/ UNCHANGED <<made, doubleBufferQueue, hold, list>>
      \/ \E g \in Gpu : LoopRead(g) \/ LoopAdd(g)
  BY DEF Next, LoopTask, LoopLoad, LoopCheck, LoopCount, TaskStep, EncodeStep, TaskStart, EncodeJoin, SendJoin,
         EncodeBegin, EncodeEnd, EncodeCrash, EncodeThrow, SendOneMsg, DtorStop, DtorStep, DtorJoinCleaner, DtorJoin,
         DtorExecutor, vars, queueVars, loopVars, taskVars, batchVars
<1> QED
  BY <1>1, <1>2, <1>3, <1>4, <1>5

-----------------------------------------------------------------------------
(* The flows that wait *)

(* The flows NumBlockedFlows counts: those a loop has counted and not yet  *)
(* given to a task, and those of the chunks whose encoding has not begun.  *)
HeldSet(lp, h) == UNION {ToSet(h[g]) : g \in {g \in Gpu : lp[g] = "add"}}
NewPieces(l, e, b) ==
  UNION {ToSet(Piece(l[b], c, max_encode_batch)) :
           c \in {c \in 1 .. NumChunks(Len(l[b]), max_encode_batch) : e[b][c] = "new"}}
NewSet(l, e) == UNION {NewPieces(l, e, b) : b \in Batch}
BlockedSet(lp, h, l, e) == HeldSet(lp, h) \cup NewSet(l, e)

Waits(x, l, e, b, c) == e[b][c] = "new" /\ x \in ToSet(Piece(l[b], c, max_encode_batch))

HeldIn(x, lp, h) == \E g \in Gpu : lp[g] = "add" /\ x \in ToSet(h[g])
WaitsIn(x, l, e, b) == \E c \in 1 .. NumChunks(Len(l[b]), max_encode_batch) : Waits(x, l, e, b, c)

(* A flow is blocked in the hands of a loop or in a piece not yet encoded. *)
LEMMA BlockedMember ==
  ASSUME NEW lp, NEW h, NEW l, NEW e, NEW x
  PROVE  x \in BlockedSet(lp, h, l, e) <=> HeldIn(x, lp, h) \/ \E b \in Batch : WaitsIn(x, l, e, b)
<1>1. x \in HeldSet(lp, h) <=> HeldIn(x, lp, h)
  BY DEF HeldSet, HeldIn
<1>2. ASSUME NEW b \in Batch PROVE x \in NewPieces(l, e, b) <=> WaitsIn(x, l, e, b)
  BY DEF NewPieces, WaitsIn, Waits
<1>3. x \in NewSet(l, e) <=> \E b \in Batch : x \in NewPieces(l, e, b)
  BY DEF NewSet
<1>4. x \in BlockedSet(lp, h, l, e) <=> x \in HeldSet(lp, h) \/ x \in NewSet(l, e)
  BY DEF BlockedSet
<1> QED
  BY <1>1, <1>2, <1>3, <1>4, Zenon

(* BlockedExact in terms of BlockedSet, before and after a step. *)
LEMMA BlockedIs ==
  /\ BlockedExact <=> NumBlockedFlows = Cardinality(BlockedSet(loopPc, hold, list, encPc))
  /\ BlockedExact' <=> NumBlockedFlows' = Cardinality(BlockedSet(loopPc', hold', list', encPc'))
<1>1. \A b : FlowsOf(b, "new") = NewPieces(list, encPc, b)
  BY DEF FlowsOf, EncodeChunks, EncodePiece, NewPieces
<1>2. \A b : FlowsOf(b, "new")' = NewPieces(list', encPc', b)
  BY DEF FlowsOf, EncodeChunks, EncodePiece, NewPieces
<1>3. WaitingFlows = NewSet(list, encPc) /\ HeldFlows = HeldSet(loopPc, hold)
  BY <1>1 DEF NewSet, WaitingFlows, HeldSet, HeldFlows
<1>4. WaitingFlows' = NewSet(list', encPc') /\ HeldFlows' = HeldSet(loopPc', hold')
  BY <1>2 DEF NewSet, WaitingFlows, HeldSet, HeldFlows
<1> QED
  BY <1>3, <1>4, Zenon DEF BlockedExact, BlockedSet

(* They are flows, and so finitely many. *)
LEMMA BlockedFinite ==
  ASSUME NEW lp, NEW h \in [Gpu -> Seq(FlowId)], NEW l \in [Batch -> Seq(FlowId)], NEW e
  PROVE  /\ BlockedSet(lp, h, l, e) \subseteq FlowId
         /\ IsFiniteSet(BlockedSet(lp, h, l, e))
         /\ Cardinality(BlockedSet(lp, h, l, e)) \in 0 .. MaxFlows
<1>1. ASSUME NEW x \in BlockedSet(lp, h, l, e) PROVE x \in FlowId
  <2>1. CASE HeldIn(x, lp, h)
    <3>1. PICK g \in Gpu : x \in ToSet(h[g])
      BY <2>1 DEF HeldIn
    <3> QED
      BY <3>1, LenProperties DEF ToSet
  <2>2. CASE \E b \in Batch : WaitsIn(x, l, e, b)
    <3>0. PICK b \in Batch : \E c \in 1 .. NumChunks(Len(l[b]), max_encode_batch) :
            x \in ToSet(Piece(l[b], c, max_encode_batch))
      BY <2>2 DEF WaitsIn, Waits
    <3>1. PICK c \in 1 .. NumChunks(Len(l[b]), max_encode_batch) :
            x \in ToSet(Piece(l[b], c, max_encode_batch))
      BY <3>0
    <3>2. l[b] \in Seq(FlowId)
      OBVIOUS
    <3>3. PICK i \in 1 .. Len(l[b]) : l[b][i] = x
      BY <3>1, <3>2, PieceMember, BatchAssumption
    <3> QED
      BY <3>2, <3>3, ElementOfSeq
  <2> QED
    BY <1>1, <2>1, <2>2, BlockedMember
<1>2. IsFiniteSet(FlowId) /\ Cardinality(FlowId) = MaxFlows
  BY MaxFlowsAssumption, FS_Interval DEF FlowId
<1>3. PICK B : B = BlockedSet(lp, h, l, e)
  OBVIOUS
<1>4. B \subseteq FlowId
  BY <1>1, <1>3
<1>5. IsFiniteSet(B) /\ Cardinality(B) <= MaxFlows /\ Cardinality(B) \in Nat
  BY <1>2, <1>4, FS_Subset, FS_CardinalityType
<1> QED
  BY <1>3, <1>4, <1>5, MaxFlowsAssumption

(* A step that moves no flow into or out of the set. *)
LEMMA BlockedKept ==
  ASSUME TypeOK, FlowInv, BlockedExact,
         UNCHANGED <<list, NumBlockedFlows>>,
         \A g \in Gpu : /\ loopPc'[g] = "add" <=> loopPc[g] = "add"
                        /\ loopPc[g] = "add" => hold'[g] = hold[g],
         \A b \in Batch, c \in Chunk : encPc'[b][c] = "new" <=> encPc[b][c] = "new"
  PROVE  BlockedExact'
<1>1. \A b \in Batch : \A c \in 1 .. NumChunks(Len(list[b]), max_encode_batch) : c \in Chunk
  BY ListFacts DEF EncodeChunks
<1>2. ASSUME NEW x
      PROVE  x \in BlockedSet(loopPc', hold', list', encPc') <=> x \in BlockedSet(loopPc, hold, list, encPc)
  <2>1. HeldIn(x, loopPc', hold') <=> HeldIn(x, loopPc, hold)
    BY DEF HeldIn
  <2>2. \A b \in Batch : WaitsIn(x, list', encPc', b) <=> WaitsIn(x, list, encPc, b)
    BY <1>1 DEF WaitsIn, Waits
  <2> QED
    BY <2>1, <2>2, BlockedMember
<1>3. BlockedSet(loopPc', hold', list', encPc') = BlockedSet(loopPc, hold, list, encPc)
  BY <1>2
<1> QED
  BY <1>3, BlockedIs

(* NumBlockedFlows follows the set it counts. *)
LEMMA NextBlocked == Inv /\ [Next]_vars => BlockedExact'
<1> SUFFICES ASSUME Inv, [Next]_vars PROVE BlockedExact'
  OBVIOUS
<1>t. /\ loopPc \in [Gpu -> {"load", "check", "read", "count", "add", "exited"}]
      /\ hold \in [Gpu -> Seq(FlowId)]
      /\ list \in [Batch -> Seq(FlowId)]
      /\ encPc \in [Batch -> [Chunk -> {"new", "run", "ok", "rand", "threw"}]]
      /\ MaxFlows \in Nat /\ max_encode_batch \in Nat \ {0}
      /\ BatchInv /\ FlowInv /\ TypeOK /\ BlockedExact
  BY MaxFlowsAssumption, BatchAssumption DEF Inv, TypeOK
<1>f. \A b \in Batch : /\ list[b] \in Seq(FlowId) /\ IsInjective(list[b])
                       /\ 1 .. NumChunks(Len(list[b]), max_encode_batch) \subseteq Chunk
  BY <1>t, ListFacts DEF EncodeChunks
<1>p. ASSUME NEW b \in Batch, NEW c \in 1 .. NumChunks(Len(list[b]), max_encode_batch),
             NEW x \in ToSet(Piece(list[b], c, max_encode_batch))
      PROVE  x \in ToSet(list[b])
  BY <1>f, <1>t, PiecesCover
<1>c. PICK B : B = BlockedSet(loopPc, hold, list, encPc)
  OBVIOUS
<1>d. /\ NumBlockedFlows = Cardinality(B) /\ IsFiniteSet(B) /\ Cardinality(B) \in Nat
      /\ BlockedExact' <=> NumBlockedFlows' = Cardinality(BlockedSet(loopPc', hold', list', encPc'))
  <2>1. IsFiniteSet(B) /\ Cardinality(B) \in 0 .. MaxFlows
    BY <1>c, <1>t, BlockedFinite
  <2>2. NumBlockedFlows = Cardinality(B)
    BY <1>c, <1>t, BlockedIs
  <2> QED
    BY <1>t, <2>1, <2>2, BlockedIs
<1>m. \A x : x \in B <=> HeldIn(x, loopPc, hold) \/ \E b \in Batch : WaitsIn(x, list, encPc, b)
  BY <1>c, BlockedMember
<1>1. CASE UNCHANGED <<loopPc, hold, list, encPc, NumBlockedFlows>>
  BY <1>1, <1>t, BlockedKept
<1>2. ASSUME NEW g \in Gpu, LoopLoad(g) \/ LoopCheck(g) \/ LoopRead(g) PROVE BlockedExact'
  <2>1. UNCHANGED <<list, encPc, NumBlockedFlows>>
    BY <1>2 DEF LoopLoad, LoopCheck, LoopRead, taskVars, batchVars, encodeVars
  <2>2. \A h \in Gpu : /\ loopPc'[h] = "add" <=> loopPc[h] = "add"
                       /\ loopPc[h] = "add" => hold'[h] = hold[h]
    BY <1>2, <1>t DEF LoopLoad, LoopCheck, LoopRead, AfterEmpty
  <2> QED
    BY <1>t, <2>1, <2>2, BlockedKept
<1>3. ASSUME NEW g \in Gpu, LoopCount(g) PROVE BlockedExact'
  <2>1. /\ loopPc[g] = "count" /\ NumBlockedFlows' = NumBlockedFlows + Len(hold[g])
        /\ loopPc' = [loopPc EXCEPT ![g] = "add"] /\ UNCHANGED <<hold, list, encPc>>
    BY <1>3 DEF LoopCount, Counted, taskVars, batchVars, encodeVars
  <2>2. \A h \in Gpu : loopPc'[h] = IF h = g THEN "add" ELSE loopPc[h]
    BY <1>t, <2>1
  <2>3. PICK H : H = ToSet(hold[g])
    OBVIOUS
  <2>4. IsFiniteSet(H) /\ Cardinality(H) = Len(hold[g])
    <3>1. hold[g] \in Seq(FlowId) /\ IsInjective(hold[g])
      BY <1>t DEF FlowInv, Once
    <3> QED
      BY <2>3, <3>1, LenIsCardinality
  <2>5. BlockedSet(loopPc', hold', list', encPc') = B \cup H
    <3>1. ASSUME NEW x PROVE x \in BlockedSet(loopPc', hold', list', encPc') <=> x \in B \cup H
      <4>1. HeldIn(x, loopPc', hold') <=> HeldIn(x, loopPc, hold) \/ x \in H
        BY <2>1, <2>2, <2>3 DEF HeldIn
      <4>2. list' = list /\ encPc' = encPc
        BY <2>1
      <4> QED
        BY <1>m, <4>1, <4>2, BlockedMember
    <3> QED
      BY <3>1
  <2>6. B \cap H = {}
    <3> SUFFICES ASSUME NEW x \in B, x \in H PROVE FALSE
      OBVIOUS
    <3>1. CASE HeldIn(x, loopPc, hold)
      BY <1>t, <2>1, <2>3, <3>1 DEF FlowInv, Apart, HeldIn
    <3>2. CASE \E b \in Batch : WaitsIn(x, list, encPc, b)
      <4>1. PICK b \in Batch : x \in ToSet(list[b])
        BY <1>p, <3>2 DEF WaitsIn, Waits
      <4> QED
        BY <1>t, <2>3, <4>1 DEF FlowInv, Apart
    <3> QED
      BY <1>m, <3>1, <3>2
  <2>7. Cardinality(B \cup H) = Cardinality(B) + Cardinality(H)
    <3>1. Cardinality(B \cup H) = Cardinality(B) + Cardinality(H) - Cardinality(B \cap H)
      BY <1>d, <2>4, FS_Union
    <3>2. Cardinality(B \cap H) = 0
      BY <2>6, FS_EmptySet
    <3>3. Cardinality(H) \in Nat
      BY <2>4, FS_CardinalityType
    <3> QED
      BY <1>d, <3>1, <3>2, <3>3
  <2> QED
    BY <1>d, <2>1, <2>4, <2>5, <2>7
<1>4. ASSUME NEW g \in Gpu, LoopAdd(g) PROVE BlockedExact'
  <2>1. loopPc[g] = "add" /\ hold[g] # <<>>
    BY <1>t, <1>4 DEF LoopAdd, BatchInv
  <2>2. numBatches + 1 \in Batch
    BY <1>t, <2>1, BatchRoom
  <2>3. PICK nb \in Batch : nb = numBatches + 1
    BY <2>2
  <2>4. /\ hold' = [hold EXCEPT ![g] = <<>>] /\ list' = [list EXCEPT ![nb] = hold[g]]
        /\ loopPc' = [loopPc EXCEPT ![g] = "check"]
        /\ encPc' = encPc /\ NumBlockedFlows' = NumBlockedFlows
    BY <1>4, <2>3 DEF LoopAdd, encodeVars
  <2>5. \A h \in Gpu : /\ hold'[h] = IF h = g THEN <<>> ELSE hold[h]
                       /\ loopPc'[h] = IF h = g THEN "check" ELSE loopPc[h]
    BY <1>t, <2>4
  <2>6. \A b \in Batch : list'[b] = IF b = nb THEN hold[g] ELSE list[b]
    BY <1>t, <2>4
  <2>7. \A c \in Chunk : encPc[nb][c] = "new"
    <3>1. ~(nb <= numBatches)
      BY <1>t, <2>3 DEF TypeOK
    <3> QED
      BY <1>t, <3>1 DEF BatchInv
  <2>8. 1 .. NumChunks(Len(list[nb]), max_encode_batch) = {}
    <3>1. list[nb] = <<>>
      <4>1. ~(nb <= numBatches)
        BY <1>t, <2>3 DEF TypeOK
      <4> QED
        BY <1>t, <4>1 DEF BatchInv
    <3>2. Len(list[nb]) = 0
      BY <3>1, EmptySeq
    <3>3. NumChunks(0, max_encode_batch) \in 0 .. 0
      BY <1>t, ChunkCount
    <3> QED
      BY <3>2, <3>3
  <2>9. 1 .. NumChunks(Len(hold[g]), max_encode_batch) \subseteq Chunk
    <3>1. FlowInv' /\ list'[nb] = hold[g]
      BY <2>6, NextFlowInv
    <3>2. hold[g] \in Seq(FlowId) /\ IsInjective(hold[g]) /\ ToSet(hold[g]) \subseteq FlowId
      <4>1. hold[g] \in Seq(FlowId) /\ IsInjective(hold[g])
        BY <1>t DEF FlowInv, Once
      <4> QED
        BY <4>1, LenProperties DEF ToSet
    <3>3. Len(hold[g]) \in Nat /\ Len(hold[g]) <= MaxFlows
      <4>1. Cardinality(ToSet(hold[g])) = Len(hold[g])
        BY <3>2, LenIsCardinality
      <4>2. IsFiniteSet(FlowId) /\ Cardinality(FlowId) = MaxFlows
        BY <1>t, FS_Interval DEF FlowId
      <4>3. Cardinality(ToSet(hold[g])) <= MaxFlows
        BY <3>2, <4>2, FS_Subset
      <4> QED
        BY <3>2, <4>1, <4>3, LenProperties
    <3>4. NumChunks(Len(hold[g]), max_encode_batch) \in 0 .. Len(hold[g])
      BY <1>t, <3>3, ChunkCount
    <3> QED
      BY <1>t, <3>3, <3>4 DEF Chunk
  <2>10. ASSUME NEW x
         PROVE  x \in ToSet(hold[g]) <=> WaitsIn(x, list', encPc', nb)
    <3>1. hold[g] \in Seq(FlowId) /\ list'[nb] = hold[g]
      BY <1>t, <2>6
    <3>2. x \in ToSet(hold[g])
            <=> \E c \in 1 .. NumChunks(Len(hold[g]), max_encode_batch) :
                  x \in ToSet(Piece(hold[g], c, max_encode_batch))
      BY <1>t, <3>1, PiecesCover
    <3>3. \A c \in 1 .. NumChunks(Len(hold[g]), max_encode_batch) :
            Waits(x, list', encPc', nb, c) <=> x \in ToSet(Piece(hold[g], c, max_encode_batch))
      BY <2>4, <2>7, <2>9, <3>1 DEF Waits
    <3> QED
      BY <3>1, <3>2, <3>3, Zenon DEF WaitsIn
  <2>11. \A x : \A b \in Batch : b # nb => (WaitsIn(x, list', encPc', b) <=> WaitsIn(x, list, encPc, b))
    BY <2>4, <2>6 DEF WaitsIn, Waits
  <2>12. ASSUME NEW x PROVE x \in BlockedSet(loopPc', hold', list', encPc') <=> x \in B
    <3>1. HeldIn(x, loopPc, hold) <=> HeldIn(x, loopPc', hold') \/ x \in ToSet(hold[g])
      BY <2>1, <2>5 DEF HeldIn
    <3>2. ~WaitsIn(x, list, encPc, nb)
      BY <2>8 DEF WaitsIn
    <3>3. (\E b \in Batch : WaitsIn(x, list', encPc', b))
            <=> (\E b \in Batch : WaitsIn(x, list, encPc, b)) \/ x \in ToSet(hold[g])
      BY <2>10, <2>11, <3>2
    <3> QED
      BY <1>m, <3>1, <3>3, BlockedMember
  <2>13. BlockedSet(loopPc', hold', list', encPc') = B
    BY <2>12
  <2> QED
    BY <1>d, <2>4, <2>13
<1>5. ASSUME NEW b \in Batch, NEW c \in Chunk, EncodeBegin(b, c) PROVE BlockedExact'
  <2>1. /\ c \in 1 .. NumChunks(Len(list[b]), max_encode_batch) /\ encPc[b][c] = "new"
        /\ NumBlockedFlows' = NumBlockedFlows - Len(Piece(list[b], c, max_encode_batch))
        /\ encPc' = [encPc EXCEPT ![b][c] = "run"] /\ UNCHANGED <<loopPc, hold, list>>
    BY <1>5 DEF EncodeBegin, EncodeChunks, Unblocked, EncodePiece, batchVars
  <2>2. PICK P : P = ToSet(Piece(list[b], c, max_encode_batch))
    OBVIOUS
  <2>3. IsFiniteSet(P) /\ Cardinality(P) = Len(Piece(list[b], c, max_encode_batch))
    <3>1. /\ Piece(list[b], c, max_encode_batch) \in Seq(FlowId)
          /\ IsInjective(Piece(list[b], c, max_encode_batch))
      BY <1>f, <1>t, <2>1, PieceIs, PieceInjective
    <3> QED
      BY <2>2, <3>1, LenIsCardinality
  <2>4. P \subseteq B
    BY <1>m, <2>1, <2>2 DEF WaitsIn, Waits
  <2>5. /\ encPc'[b][c] = "run"
        /\ \A a \in Batch, d \in Chunk : a # b \/ d # c => encPc'[a][d] = encPc[a][d]
    BY <1>t, <2>1
  <2>6. ASSUME NEW x, NEW a \in Batch, NEW d \in 1 .. NumChunks(Len(list[a]), max_encode_batch)
        PROVE  Waits(x, list', encPc', a, d) <=> Waits(x, list, encPc, a, d) /\ x \notin P
    <3>1. d \in Chunk
      BY <1>f
    <3>2. CASE a = b /\ d = c
      BY <2>1, <2>2, <2>5, <3>2 DEF Waits
    <3>3. CASE a = b /\ d # c
      <4>1. encPc'[a][d] = encPc[a][d]
        BY <2>5, <3>1, <3>3
      <4>2. ~(x \in ToSet(Piece(list[a], d, max_encode_batch)) /\ x \in P)
        BY <1>f, <1>t, <2>1, <2>2, <3>3, PiecesDisjoint
      <4> QED
        BY <2>1, <4>1, <4>2 DEF Waits
    <3>4. CASE a # b
      <4>1. encPc'[a][d] = encPc[a][d]
        BY <2>5, <3>1, <3>4
      <4>2. ~(x \in ToSet(Piece(list[a], d, max_encode_batch)) /\ x \in P)
        <5>1. Apart(list[a], list[b])
          BY <1>t, <3>4 DEF FlowInv
        <5> QED
          BY <1>p, <2>1, <2>2, <5>1 DEF Apart
      <4> QED
        BY <2>1, <4>1, <4>2 DEF Waits
    <3> QED
      BY <3>2, <3>3, <3>4
  <2>7. ASSUME NEW x, NEW g \in Gpu, x \in ToSet(hold[g]) PROVE x \notin P
    <3>1. Apart(hold[g], list[b])
      BY <1>t DEF FlowInv
    <3> QED
      BY <1>p, <2>1, <2>2, <2>7, <3>1 DEF Apart
  <2>8. ASSUME NEW x PROVE x \in BlockedSet(loopPc', hold', list', encPc') <=> x \in B /\ x \notin P
    <3>1. /\ list' = list /\ loopPc' = loopPc /\ hold' = hold
      BY <2>1
    <3>2. \A a \in Batch : WaitsIn(x, list', encPc', a) <=> WaitsIn(x, list, encPc, a) /\ x \notin P
      BY <2>6, <3>1 DEF WaitsIn
    <3>3. HeldIn(x, loopPc', hold') <=> HeldIn(x, loopPc, hold) /\ x \notin P
      BY <2>7, <3>1 DEF HeldIn
    <3> QED
      BY <1>m, <3>2, <3>3, BlockedMember
  <2>9. BlockedSet(loopPc', hold', list', encPc') = B \ P
    BY <2>8
  <2>10. Cardinality(B \ P) = Cardinality(B) - Cardinality(P)
    <3>1. Cardinality(B \ P) = Cardinality(B) - Cardinality(B \cap P)
      BY <1>d, FS_Difference
    <3>2. B \cap P = P
      BY <2>4
    <3> QED
      BY <3>1, <3>2
  <2> QED
    BY <1>d, <2>1, <2>3, <2>9, <2>10
<1>6. ASSUME NEW b \in Batch, NEW c \in Chunk,
             EncodeEnd(b, c) \/ EncodeCrash(b, c) \/ EncodeThrow(b, c)
      PROVE BlockedExact'
  <2>1. /\ encPc[b][c] = "run" /\ UNCHANGED <<loopPc, hold, list, NumBlockedFlows>>
        /\ \/ encPc' = encPc
           \/ \E e \in {"ok", "rand", "threw"} : encPc' = [encPc EXCEPT ![b][c] = e]
    BY <1>6 DEF EncodeEnd, EncodeCrash, EncodeThrow, loopVars, batchVars
  <2>2. \A a \in Batch, d \in Chunk : encPc'[a][d] = "new" <=> encPc[a][d] = "new"
    <3>1. CASE encPc' = encPc
      BY <3>1
    <3>2. CASE \E e \in {"ok", "rand", "threw"} : encPc' = [encPc EXCEPT ![b][c] = e]
      BY <1>t, <2>1, <3>2
    <3> QED
      BY <2>1, <3>1, <3>2
  <2> QED
    BY <1>t, <2>1, <2>2, BlockedKept
<1>7. \/ UNCHANGED <<loopPc, hold, list, encPc, NumBlockedFlows>>
      \/ \E g \in Gpu : LoopLoad(g) \/ LoopCheck(g) \/ LoopRead(g) \/ LoopCount(g) \/ LoopAdd(g)
      \/ \E b \in Batch, c \in Chunk : EncodeBegin(b, c) \/ EncodeEnd(b, c) \/ EncodeCrash(b, c) \/ EncodeThrow(b, c)
  BY DEF Next, NewFlow, LoopTask, TaskStep, EncodeStep, TaskStart, EncodeJoin, SendJoin, SendOneMsg,
         DtorStop, DtorStep, DtorJoinCleaner, DtorJoin, DtorExecutor,
         vars, loopVars, taskVars, batchVars, encodeVars
<1> QED
  BY <1>1, <1>2, <1>3, <1>4, <1>5, <1>6, <1>7

-----------------------------------------------------------------------------
(* Rows and messages *)

(* Random rows, cut like a batch. *)
LEMMA RandFacts ==
  ASSUME NEW n \in Nat
  PROVE  RandRows(n) \in Seq({Rand}) /\ Len(RandRows(n)) = n
<1>1. PICK r : r = RandRows(n)
  OBVIOUS
<1>2. r \in [1 .. n -> {Rand}]
  BY <1>1 DEF RandRows
<1>3. r \in Seq({Rand})
  BY <1>2, SeqDef
<1>4. DOMAIN r = 1 .. n /\ DOMAIN r = 1 .. Len(r) /\ Len(r) \in Nat
  BY <1>2, <1>3, LenProperties
<1>5. PICK m : m = Len(r)
  OBVIOUS
<1>6. (n \in 1 .. n <=> n \in 1 .. m) /\ (m \in 1 .. n <=> m \in 1 .. m) /\ m \in Nat
  BY <1>4, <1>5, Zenon
<1>7. m = n
  BY ONLY <1>6, n \in Nat
<1> QED
  BY <1>1, <1>3, <1>5, <1>7

(* A piece of random rows is as many random rows. *)
LEMMA RandPiece ==
  ASSUME NEW S, NEW s \in Seq(S), NEW size \in Nat \ {0}, NEW c \in 1 .. NumChunks(Len(s), size)
  PROVE  Piece(RandRows(Len(s)), c, size) = RandRows(Len(Piece(s, c, size)))
<1>1. Len(s) \in Nat
  BY LenProperties
<1>2. PICK r : r = RandRows(Len(s))
  OBVIOUS
<1>3. r \in Seq({Rand}) /\ Len(r) = Len(s)
  BY <1>1, <1>2, RandFacts
<1>4. PICK q : q = Piece(r, c, size)
  OBVIOUS
<1>5. PICK k : k = Len(Piece(s, c, size))
  OBVIOUS
<1>6. c \in 1 .. NumChunks(Len(r), size)
  BY <1>3
<1>7. q \in Seq({Rand}) /\ Len(q) = k /\ k \in Nat
  <2>1. q \in Seq({Rand}) /\ Len(q) = PieceEnd(Len(r), c, size) - (c - 1) * size
    BY <1>3, <1>4, <1>6, PieceIs
  <2>2. k = PieceEnd(Len(s), c, size) - (c - 1) * size
    BY <1>5, PieceIs
  <2>3. k \in 1 .. size
    BY <1>5, PieceIs
  <2> QED
    BY <1>3, <2>1, <2>2, <2>3
<1>8. RandRows(k) \in Seq({Rand}) /\ Len(RandRows(k)) = k
  BY <1>7, RandFacts
<1>9. \A i \in 1 .. k : q[i] = RandRows(k)[i]
  BY <1>7, <1>8, ElementOfSeq
<1>10. q = RandRows(k)
  BY <1>7, <1>8, <1>9, SeqEqual
<1> QED
  BY <1>2, <1>4, <1>5, <1>10

(* torch::concat of results that are alike gives one row for each flow of  *)
(* the batch, in its order, whichever chunk ended first.                   *)
LEMMA ConcatIs ==
  ASSUME TypeOK, FlowInv, NEW b \in Batch, NEW outcome \in {"ok", "rand"},
         \A c \in EncodeChunks(b) : encPc[b][c] = outcome
  PROVE  Concat(b) = IF outcome = "ok" THEN list[b] ELSE RandRows(Len(list[b]))
<1>1. /\ list[b] \in Seq(FlowId) /\ max_encode_batch \in Nat \ {0} /\ Len(list[b]) \in Nat
      /\ EncodeChunks(b) = 1 .. NumChunks(Len(list[b]), max_encode_batch)
  BY BatchAssumption, LenProperties DEF TypeOK, EncodeChunks
<1>2. PICK seqs : seqs = [c \in EncodeChunks(b) |-> Result(b, c)]
  OBVIOUS
<1>3. Concat(b) = FlattenSeq(seqs)
  BY <1>2 DEF Concat
<1>4. DOMAIN seqs = EncodeChunks(b) /\ seqs = [c \in EncodeChunks(b) |-> seqs[c]]
      /\ \A c \in EncodeChunks(b) : seqs[c] = Result(b, c)
  BY <1>2
<1> HIDE <1>2
<1>5. CASE outcome = "ok"
  <2>1. \A c \in EncodeChunks(b) : seqs[c] = Piece(list[b], c, max_encode_batch)
    BY <1>4, <1>5 DEF Result, EncodePiece
  <2>2. \A c \in EncodeChunks(b) : seqs[c] \in Seq(FlowId)
    BY <1>1, <2>1, PieceIs
  <2>3. seqs \in [EncodeChunks(b) -> Seq(FlowId)]
    BY <1>4, <2>2
  <2>4. FlattenSeq(seqs) = list[b]
    BY <1>1, <2>1, <2>3, FlattenPieces
  <2> QED
    BY <1>3, <1>5, <2>4
<1>6. CASE outcome = "rand"
  <2>1. PICK r : r = RandRows(Len(list[b]))
    OBVIOUS
  <2>2. r \in Seq({Rand}) /\ Len(r) = Len(list[b])
    BY <1>1, <2>1, RandFacts
  <2>3. ASSUME NEW c \in EncodeChunks(b) PROVE seqs[c] = Piece(r, c, max_encode_batch)
    <3>1. seqs[c] = RandRows(Len(EncodePiece(b, c)))
      BY <1>4, <1>6 DEF Result, RandRows
    <3>2. Piece(r, c, max_encode_batch) = RandRows(Len(EncodePiece(b, c)))
      BY <1>1, <2>1, RandPiece DEF EncodePiece
    <3> QED
      BY <3>1, <3>2
  <2>4. \A c \in EncodeChunks(b) : seqs[c] \in Seq({Rand})
    BY <1>1, <2>2, <2>3, PieceIs
  <2>5. seqs \in [EncodeChunks(b) -> Seq({Rand})]
    BY <1>4, <2>4
  <2>6. FlattenSeq(seqs) = r
    BY <1>1, <2>2, <2>3, <2>5, FlattenPieces
  <2> QED
    BY <1>3, <1>6, <2>1, <2>6
<1> QED
  BY <1>5, <1>6

(* A step that sends nothing. *)
LEMMA SendKept ==
  ASSUME Inv, UNCHANGED <<sendPc, messages>>,
         \A b \in Batch :
           /\ taskPc[b] \in {"send", "done", "failed"} =>
                taskPc'[b] \in {"send", "done", "failed"} /\ list'[b] = list[b] /\ feature'[b] = feature[b]
           /\ taskPc'[b] = "send" => feature'[b] \in {list'[b], RandRows(Len(list'[b]))}
           /\ taskPc'[b] = "done" =>
                \A c \in 1 .. NumChunks(Len(list'[b]), max_send_batch) : sendPc[b][c] # "new"
  PROVE  SendInv'
<1>s. SendInv /\ \A b \in Batch : SendChunks(b) \subseteq Chunk
  BY ListFacts DEF Inv
<1>1. ASSUME NEW b \in Batch, NEW c \in Chunk, sendPc[b][c] # "new"
      PROVE  /\ taskPc'[b] \in {"send", "done", "failed"}
             /\ Message(b, c)' = Message(b, c) /\ SendChunks(b)' = SendChunks(b)
  BY <1>s, <1>1 DEF SendInv, Message, SendChunks
<1>2. (\A b \in Batch : taskPc[b] = "send" => feature[b] \in {list[b], RandRows(Len(list[b]))})'
  BY DEF RandRows
<1>3. (\A b \in Batch : taskPc[b] = "done" => \A c \in SendChunks(b) : sendPc[b][c] # "new")'
  BY DEF SendChunks
<1>4. (\A b \in Batch : \A c \in Chunk :
         /\ sendPc[b][c] # "new" => taskPc[b] \in {"send", "done", "failed"}
         /\ sendPc[b][c] = "sent" => Message(b, c) \in messages)'
  BY <1>s, <1>1 DEF SendInv
<1>5. (\A m \in messages : \E b \in Batch : \E c \in SendChunks(b) :
         sendPc[b][c] = "sent" /\ m = Message(b, c))'
  <2> SUFFICES ASSUME NEW m \in messages
               PROVE  \E b \in Batch : \E c \in SendChunks(b)' : sendPc[b][c] = "sent" /\ m = Message(b, c)'
    OBVIOUS
  <2>1. PICK b \in Batch : \E c \in SendChunks(b) : sendPc[b][c] = "sent" /\ m = Message(b, c)
    BY <1>s DEF SendInv
  <2>2. PICK c \in SendChunks(b) : sendPc[b][c] = "sent" /\ m = Message(b, c)
    BY <2>1
  <2>3. c \in Chunk /\ sendPc[b][c] # "new"
    BY <1>s, <2>2
  <2> QED
    BY <1>1, <2>2, <2>3
<1>6. RowsMatchIds'
  BY <1>s DEF SendInv, RowsMatchIds
<1> QED
  BY <1>2, <1>3, <1>4, <1>5, <1>6 DEF SendInv

(* What a task sends is well formed. *)
LEMMA MessageFacts ==
  ASSUME Inv, NEW b \in Batch, taskPc[b] = "send", NEW c \in SendChunks(b)
  PROVE  /\ Message(b, c).ids \in Seq(FlowId)
         /\ Message(b, c).rows \in Seq(FlowId \cup {Rand})
         /\ Len(Message(b, c).ids) \in 1 .. max_send_batch
         /\ \/ Message(b, c).rows = Message(b, c).ids
            \/ Message(b, c).rows = [n \in 1 .. Len(Message(b, c).ids) |-> Rand]
<1>1. /\ list[b] \in Seq(FlowId) /\ max_send_batch \in Nat \ {0}
      /\ c \in 1 .. NumChunks(Len(list[b]), max_send_batch)
  BY BatchAssumption DEF Inv, TypeOK, SendChunks
<1>2. PICK ids : ids = Piece(list[b], c, max_send_batch)
  OBVIOUS
<1>3. ids \in Seq(FlowId) /\ Len(ids) \in 1 .. max_send_batch
  BY <1>1, <1>2, PieceIs
<1>4. Message(b, c).ids = ids /\ Message(b, c).rows = Piece(feature[b], c, max_send_batch)
  BY <1>2 DEF Message
<1>5. ids \in Seq(FlowId \cup {Rand})
  BY <1>3, SeqMonotonic
<1>6. CASE feature[b] = list[b]
  BY <1>2, <1>3, <1>4, <1>5, <1>6
<1>7. CASE feature[b] = RandRows(Len(list[b]))
  <2>1. Message(b, c).rows = RandRows(Len(ids))
    BY <1>1, <1>2, <1>4, <1>7, RandPiece
  <2>2. RandRows(Len(ids)) \in Seq({Rand})
    BY <1>3, LenProperties, RandFacts
  <2>3. RandRows(Len(ids)) \in Seq(FlowId \cup {Rand})
    BY <2>2, SeqMonotonic
  <2> QED
    BY <1>3, <1>4, <2>1, <2>3 DEF RandRows
<1> QED
  BY <1>6, <1>7 DEF Inv, SendInv

(* Only send_one_msg adds to the messages, and it adds a piece. *)
LEMMA NextSend == Inv /\ [Next]_vars => SendInv'
<1> SUFFICES ASSUME Inv, [Next]_vars PROVE SendInv'
  OBVIOUS
<1>t. /\ list \in [Batch -> Seq(FlowId)]
      /\ taskPc \in [Batch -> {"none", "queued", "encode", "send", "done", "failed", "dropped"}]
      /\ sendPc \in [Batch -> [Chunk -> {"new", "sent", "lost"}]]
      /\ feature \in [Batch -> Seq(FlowId \cup {Rand})]
      /\ numBatches \in 0 .. MaxFlows /\ MaxFlows \in Nat
      /\ TypeOK /\ BatchInv /\ FlowInv /\ SendInv
  BY MaxFlowsAssumption DEF Inv, TypeOK
<1>i. ASSUME NEW b \in Batch
      PROVE  /\ taskPc[b] = "send" => feature[b] \in {list[b], RandRows(Len(list[b]))}
             /\ taskPc[b] = "done" =>
                  \A c \in 1 .. NumChunks(Len(list[b]), max_send_batch) : sendPc[b][c] # "new"
  BY <1>t DEF SendInv, SendChunks
<1>1. ASSUME UNCHANGED <<sendPc, messages, list, feature>>, NEW b \in Batch,
             NEW to \in {"encode", "failed", "done"}, taskPc' = [taskPc EXCEPT ![b] = to],
             to = "encode" => taskPc[b] = "queued",
             to = "done" => \A c \in 1 .. NumChunks(Len(list[b]), max_send_batch) : sendPc[b][c] # "new"
      PROVE  SendInv'
  <2>1. \A a \in Batch : taskPc'[a] = IF a = b THEN to ELSE taskPc[a]
    BY <1>t, <1>1
  <2>2. list' = list /\ feature' = feature
    BY <1>1
  <2> QED
    BY <1>1, <1>i, <2>1, <2>2, SendKept
<1>2. ASSUME UNCHANGED <<sendPc, messages, list, feature>>,
             \A b \in Batch : taskPc'[b] = taskPc[b] \/ (taskPc[b] = "queued" /\ taskPc'[b] = "dropped")
      PROVE  SendInv'
  <2>1. list' = list /\ feature' = feature
    BY <1>2
  <2> QED
    BY <1>2, <1>i, <2>1, SendKept
<1>3. ASSUME NEW g \in Gpu, LoopAdd(g) PROVE SendInv'
  <2>1. hold[g] # <<>>
    BY <1>t, <1>3 DEF LoopAdd, BatchInv
  <2>2. PICK nb \in Batch : nb = numBatches + 1
    BY <1>t, <2>1, BatchRoom
  <2>3. /\ list' = [list EXCEPT ![nb] = hold[g]] /\ taskPc' = [taskPc EXCEPT ![nb] = "queued"]
        /\ UNCHANGED <<feature, sendPc, messages>>
    BY <1>3, <2>2 DEF LoopAdd, encodeVars, sendVars
  <2>4. taskPc[nb] = "none"
    <3>1. ~(nb <= numBatches)
      BY <1>t, <2>2
    <3> QED
      BY <1>t, <3>1 DEF BatchInv
  <2>5. /\ taskPc'[nb] = "queued"
        /\ \A a \in Batch : a # nb => taskPc'[a] = taskPc[a] /\ list'[a] = list[a]
    BY <1>t, <2>3
  <2>6. feature' = feature /\ UNCHANGED <<sendPc, messages>>
    BY <2>3
  <2> QED
    BY <1>i, <2>4, <2>5, <2>6, SendKept
<1>4. ASSUME NEW b \in Batch, EncodeJoin(b) PROVE SendInv'
  <2>1. UNCHANGED <<sendPc, messages, list>> /\ taskPc[b] = "encode"
    BY <1>4 DEF EncodeJoin, batchVars, sendVars
  <2>2. CASE taskPc' = [taskPc EXCEPT ![b] = "failed"] /\ UNCHANGED feature
    BY <1>1, <2>1, <2>2
  <2>3. CASE /\ \E outcome \in {"ok", "rand"} : \A c \in EncodeChunks(b) : encPc[b][c] = outcome
             /\ feature' = [feature EXCEPT ![b] = Concat(b)]
             /\ taskPc' = [taskPc EXCEPT ![b] = "send"]
    <3>1. PICK outcome \in {"ok", "rand"} : \A c \in EncodeChunks(b) : encPc[b][c] = outcome
      BY <2>3
    <3>2. Concat(b) \in {list[b], RandRows(Len(list[b]))}
      BY <1>t, <3>1, ConcatIs
    <3>3. /\ taskPc'[b] = "send" /\ feature'[b] = Concat(b)
          /\ \A a \in Batch : a # b => taskPc'[a] = taskPc[a] /\ feature'[a] = feature[a]
      BY <1>t, <2>3
    <3>4. list' = list
      BY <2>1
    <3> QED
      BY <1>i, <2>1, <3>2, <3>3, <3>4, SendKept
  <2> QED
    BY <1>4, <2>2, <2>3 DEF EncodeJoin
<1>5. ASSUME NEW b \in Batch, NEW c \in Chunk, SendOneMsg(b, c) PROVE SendInv'
  <2>1. /\ taskPc[b] = "send" /\ c \in SendChunks(b) /\ sendPc[b][c] = "new"
        /\ UNCHANGED <<list, feature, taskPc>>
    BY <1>5 DEF SendOneMsg, batchVars, encodeVars
  <2>2. PICK msg : msg = Message(b, c)
    OBVIOUS
  <2>3. \/ messages' = messages \cup {msg} /\ sendPc' = [sendPc EXCEPT ![b][c] = "sent"]
        \/ messages' = messages /\ sendPc' = [sendPc EXCEPT ![b][c] = "lost"]
    BY <1>5, <2>2 DEF SendOneMsg, Message
  <2>4. \A a \in Batch, d \in Chunk : a # b \/ d # c => sendPc'[a][d] = sendPc[a][d]
    BY <1>t, <2>3
  <2>5. \/ messages' = messages \cup {msg} /\ sendPc'[b][c] = "sent"
        \/ messages' = messages /\ sendPc'[b][c] = "lost"
    BY <1>t, <2>3
  <2>6. \A a \in Batch, d \in Chunk : Message(a, d)' = Message(a, d)
    BY <2>1 DEF Message
  <2>7. \A a \in Batch : SendChunks(a)' = SendChunks(a) /\ SendChunks(a) \subseteq Chunk
    BY <1>t, <2>1, ListFacts DEF SendChunks
  <2>8. (\A a \in Batch : taskPc[a] = "send" => feature[a] \in {list[a], RandRows(Len(list[a]))})'
    BY <1>i, <2>1 DEF RandRows
  <2>9. (\A a \in Batch : taskPc[a] = "done" => \A d \in SendChunks(a) : sendPc[a][d] # "new")'
    <3> SUFFICES ASSUME NEW a \in Batch, taskPc[a] = "done", NEW d \in SendChunks(a)
                 PROVE  sendPc'[a][d] # "new"
      BY <2>1, <2>7
    <3>1. a # b /\ d \in Chunk
      BY <2>1, <2>7
    <3>2. sendPc[a][d] # "new"
      BY <1>t DEF SendInv
    <3> QED
      BY <2>4, <3>1, <3>2
  <2>10. (\A a \in Batch, d \in Chunk :
            /\ sendPc[a][d] # "new" => taskPc[a] \in {"send", "done", "failed"}
            /\ sendPc[a][d] = "sent" => Message(a, d) \in messages)'
    <3> SUFFICES ASSUME NEW a \in Batch, NEW d \in Chunk
                 PROVE  /\ sendPc'[a][d] # "new" => taskPc[a] \in {"send", "done", "failed"}
                        /\ sendPc'[a][d] = "sent" => Message(a, d) \in messages'
      BY <2>1, <2>6
    <3>1. CASE a = b /\ d = c
      BY <2>1, <2>2, <2>5, <3>1
    <3>2. CASE a # b \/ d # c
      BY <1>t, <2>4, <2>5, <3>2 DEF SendInv
    <3> QED
      BY <3>1, <3>2
  <2>11. (\A m \in messages : \E a \in Batch : \E d \in SendChunks(a) :
            sendPc[a][d] = "sent" /\ m = Message(a, d))'
    <3> SUFFICES ASSUME NEW m \in messages'
                 PROVE  \E a \in Batch : \E d \in SendChunks(a)' : sendPc'[a][d] = "sent" /\ m = Message(a, d)'
      OBVIOUS
    <3>1. CASE m \in messages
      <4>1. PICK a \in Batch : \E d \in SendChunks(a) : sendPc[a][d] = "sent" /\ m = Message(a, d)
        BY <1>t, <3>1 DEF SendInv
      <4>2. PICK d \in SendChunks(a) : sendPc[a][d] = "sent" /\ m = Message(a, d)
        BY <4>1
      <4>3. d \in Chunk /\ (a # b \/ d # c)
        BY <2>1, <2>7, <4>2
      <4>4. sendPc'[a][d] = "sent" /\ m = Message(a, d)' /\ d \in SendChunks(a)'
        BY <2>4, <2>6, <2>7, <4>2, <4>3
      <4> QED
        BY <4>4
    <3>2. CASE m \notin messages
      <4>1. m = msg /\ sendPc'[b][c] = "sent"
        BY <2>5, <3>2
      <4>2. sendPc'[b][c] = "sent" /\ m = Message(b, c)' /\ c \in SendChunks(b)'
        BY <2>1, <2>2, <2>6, <2>7, <4>1
      <4> QED
        BY <4>2
    <3> QED
      BY <3>1, <3>2
  <2>12. RowsMatchIds'
    <3>1. /\ Len(msg.ids) \in 1 .. max_send_batch
          /\ msg.rows = msg.ids \/ msg.rows = [n \in 1 .. Len(msg.ids) |-> Rand]
      BY <2>1, <2>2, MessageFacts
    <3>2. \A m \in messages' : m \in messages \/ m = msg
      BY <2>5
    <3> QED
      BY <1>t, <3>1, <3>2 DEF SendInv, RowsMatchIds
  <2> QED
    BY <2>8, <2>9, <2>10, <2>11, <2>12 DEF SendInv
<1>6. ASSUME NEW b \in Batch, TaskStart(b) \/ SendJoin(b) PROVE SendInv'
  <2>1. CASE TaskStart(b)
    BY <1>1, <2>1 DEF TaskStart, batchVars, encodeVars, sendVars
  <2>2. CASE SendJoin(b)
    BY <1>1, <2>2 DEF SendJoin, SendChunks, batchVars, encodeVars, sendVars
  <2> QED
    BY <1>6, <2>1, <2>2
<1>7. ASSUME NEW b \in Batch, NEW c \in Chunk, EncodeThrow(b, c) PROVE SendInv'
  <2>1. UNCHANGED <<sendPc, messages, list, feature>>
        /\ (taskPc' = taskPc \/ taskPc' = [taskPc EXCEPT ![b] = "failed"])
    BY <1>7 DEF EncodeThrow, batchVars, sendVars
  <2> QED
    BY <1>1, <1>2, <2>1
<1>8. CASE DtorJoin
  <2>1. UNCHANGED <<sendPc, messages, list, feature>>
    BY <1>8 DEF DtorJoin, batchVars, encodeVars, sendVars
  <2>2. taskPc' = [b \in Batch |-> IF taskPc[b] = "queued" THEN "dropped" ELSE taskPc[b]]
    BY <1>8 DEF DtorJoin
  <2>3. \A b \in Batch : taskPc'[b] = taskPc[b] \/ (taskPc[b] = "queued" /\ taskPc'[b] = "dropped")
    BY <2>2
  <2> QED
    BY <1>2, <2>1, <2>3
<1>9. \/ \E g \in Gpu : LoopAdd(g)
      \/ \E b \in Batch : TaskStart(b) \/ EncodeJoin(b) \/ SendJoin(b)
      \/ \E b \in Batch, c \in Chunk : EncodeThrow(b, c) \/ SendOneMsg(b, c)
      \/ DtorJoin
      \/ UNCHANGED <<sendPc, messages, list, feature, taskPc>>
  BY DEF Next, NewFlow, LoopTask, LoopLoad, LoopCheck, LoopRead, LoopCount, TaskStep, EncodeStep,
         EncodeBegin, EncodeEnd, EncodeCrash, DtorStop, DtorStep, DtorJoinCleaner, DtorExecutor,
         vars, taskVars, batchVars, encodeVars, sendVars
<1> QED
  BY <1>2, <1>3, <1>4, <1>5, <1>6, <1>7, <1>8, <1>9

-----------------------------------------------------------------------------
(* Type correctness *)

(* Every step keeps the types. *)
LEMMA NextType == Inv /\ [Next]_vars => TypeOK'
<1> SUFFICES ASSUME Inv, [Next]_vars PROVE TypeOK'
  OBVIOUS
<1>i. TypeOK /\ BatchInv /\ FlowInv /\ SendInv /\ MaxFlows \in Nat
  BY MaxFlowsAssumption DEF Inv
<1> USE DEF TypeOK
<1>1. made' \in 0 .. MaxFlows /\ doubleBufferQueue' \in Seq(FlowId) /\ hold' \in [Gpu -> Seq(FlowId)]
  <2>1. CASE NewFlow
    <3>1. /\ made < MaxFlows /\ made' = made + 1 /\ hold' = hold
          /\ doubleBufferQueue' = Append(doubleBufferQueue, made + 1)
      BY <2>1 DEF NewFlow, loopVars
    <3>2. made + 1 \in FlowId
      BY <1>i, <3>1 DEF FlowId
    <3> QED
      BY <1>i, <3>1, <3>2, AppendProperties
  <2>2. ASSUME NEW g \in Gpu, LoopRead(g)
        PROVE  /\ made' \in 0 .. MaxFlows /\ doubleBufferQueue' \in Seq(FlowId)
               /\ hold' \in [Gpu -> Seq(FlowId)]
    <3>1. /\ made' = made /\ doubleBufferQueue' = <<>>
          /\ hold' = [hold EXCEPT ![g] = doubleBufferQueue]
      BY <2>2 DEF LoopRead
    <3> QED
      BY <1>i, <3>1
  <2>3. ASSUME NEW g \in Gpu, LoopAdd(g)
        PROVE  /\ made' \in 0 .. MaxFlows /\ doubleBufferQueue' \in Seq(FlowId)
               /\ hold' \in [Gpu -> Seq(FlowId)]
    <3>1. UNCHANGED <<made, doubleBufferQueue>> /\ hold' = [hold EXCEPT ![g] = <<>>]
      BY <2>3 DEF LoopAdd, queueVars
    <3> QED
      BY <1>i, <3>1
  <2>4. CASE UNCHANGED <<made, doubleBufferQueue, hold>>
    BY <1>i, <2>4
  <2>5. \/ NewFlow \/ UNCHANGED <<made, doubleBufferQueue, hold>>
        \/ \E g \in Gpu : LoopRead(g) \/ LoopAdd(g)
    BY DEF Next, LoopTask, LoopLoad, LoopCheck, LoopCount, TaskStep, EncodeStep, TaskStart, EncodeJoin,
           SendJoin, EncodeBegin, EncodeEnd, EncodeCrash, EncodeThrow, SendOneMsg, DtorStop, DtorStep, DtorJoinCleaner,
           DtorJoin, DtorExecutor, vars, queueVars, loopVars
  <2> QED
    BY <2>1, <2>2, <2>3, <2>4, <2>5
<1>2. mIsRunning' \in BOOLEAN /\ dtorPc' \in {"none", "cleaner", "loops", "executor", "destroyed"}
  <2>1. \/ UNCHANGED <<mIsRunning, dtorPc>>
        \/ mIsRunning' = FALSE /\ dtorPc' = "cleaner"
        \/ mIsRunning' = mIsRunning /\ dtorPc' \in {"loops", "executor", "destroyed"}
    BY DEF Next, NewFlow, LoopTask, LoopLoad, LoopCheck, LoopRead, LoopCount, LoopAdd, TaskStep, EncodeStep,
           TaskStart, EncodeJoin, SendJoin, EncodeBegin, EncodeEnd, EncodeCrash, EncodeThrow, SendOneMsg, DtorStop,
           DtorStep, DtorJoinCleaner, DtorJoin, DtorExecutor, vars, sinkVars
  <2> QED
    BY <1>i, <2>1
<1>3. aborted' \in BOOLEAN /\ usedDeleted' \in BOOLEAN
  <2>1. aborted' = aborted \/ aborted' = TRUE
    BY DEF Next, NewFlow, LoopTask, LoopLoad, LoopCheck, LoopRead, LoopCount, LoopAdd, TaskStep, EncodeStep,
           TaskStart, EncodeJoin, SendJoin, EncodeBegin, EncodeEnd, EncodeCrash, EncodeThrow, SendOneMsg, DtorStop,
           DtorStep, DtorJoinCleaner, DtorJoin, DtorExecutor, vars, sinkVars
  <2>2. \/ usedDeleted' = usedDeleted
        \/ \E b \in Batch : usedDeleted' = (usedDeleted \/ loopPc[device[b]] = "exited")
    BY DEF Next, NewFlow, LoopTask, LoopLoad, LoopCheck, LoopRead, LoopCount, LoopAdd, TaskStep, EncodeStep,
           TaskStart, EncodeJoin, SendJoin, EncodeBegin, EncodeEnd, EncodeCrash, EncodeThrow, SendOneMsg, DtorStop,
           DtorStep, DtorJoinCleaner, DtorJoin, DtorExecutor, vars, taskVars, encodeVars
  <2> QED
    BY <1>i, <2>1, <2>2
<1>4. loopPc' \in [Gpu -> {"load", "check", "read", "count", "add", "exited"}]
  <2>1. \/ loopPc' = loopPc
        \/ \E g \in Gpu : \E to \in {"check", "read", "count", "add", "exited"} :
             loopPc' = [loopPc EXCEPT ![g] = to]
    BY DEF Next, NewFlow, LoopTask, LoopLoad, LoopCheck, LoopRead, LoopCount, LoopAdd, AfterEmpty, TaskStep,
           EncodeStep, TaskStart, EncodeJoin, SendJoin, EncodeBegin, EncodeEnd, EncodeCrash, EncodeThrow, SendOneMsg,
           DtorStop, DtorStep, DtorJoinCleaner, DtorJoin, DtorExecutor, vars, loopVars
  <2> QED
    BY <1>i, <2>1
<1>5. /\ numBatches' \in 0 .. MaxFlows /\ list' \in [Batch -> Seq(FlowId)]
      /\ device' \in Seq(Gpu) /\ Len(device') = numBatches'
  <2>1. ASSUME NEW g \in Gpu, LoopAdd(g)
        PROVE  /\ numBatches' \in 0 .. MaxFlows /\ list' \in [Batch -> Seq(FlowId)]
               /\ device' \in Seq(Gpu) /\ Len(device') = numBatches'
    <3>1. /\ loopPc[g] = "add" /\ numBatches' = numBatches + 1 /\ device' = Append(device, g)
          /\ list' = [list EXCEPT ![numBatches + 1] = hold[g]]
      BY <2>1 DEF LoopAdd
    <3>2. numBatches + 1 \in Batch
      BY <1>i, <3>1, BatchRoom DEF BatchInv
    <3>3. numBatches' \in 0 .. MaxFlows /\ list' \in [Batch -> Seq(FlowId)]
      BY <1>i, <3>1, <3>2 DEF Batch
    <3>4. device' \in Seq(Gpu) /\ Len(device') = numBatches'
      BY <1>i, <3>1, AppendProperties
    <3> QED
      BY <3>3, <3>4
  <2>2. CASE UNCHANGED <<numBatches, list, device>>
    BY <1>i, <2>2
  <2>3. UNCHANGED <<numBatches, list, device>> \/ \E g \in Gpu : LoopAdd(g)
    BY DEF Next, NewFlow, LoopTask, LoopLoad, LoopCheck, LoopRead, LoopCount, TaskStep, EncodeStep,
           TaskStart, EncodeJoin, SendJoin, EncodeBegin, EncodeEnd, EncodeCrash, EncodeThrow, SendOneMsg, DtorStop,
           DtorStep, DtorJoinCleaner, DtorJoin, DtorExecutor, vars, taskVars, batchVars
  <2> QED
    BY <2>1, <2>2, <2>3
<1>6. NumBlockedFlows' \in 0 .. MaxFlows
  <2>1. NumBlockedFlows' = Cardinality(BlockedSet(loopPc', hold', list', encPc'))
    BY NextBlocked, BlockedIs
  <2> QED
    BY <1>1, <1>5, <2>1, BlockedFinite
<1>7. taskPc' \in [Batch -> {"none", "queued", "encode", "send", "done", "failed", "dropped"}]
  <2>1. \/ taskPc' = taskPc
        \/ \E b \in Batch : \E to \in {"encode", "send", "done", "failed"} : taskPc' = [taskPc EXCEPT ![b] = to]
        \/ taskPc' = [taskPc EXCEPT ![numBatches + 1] = "queued"]
        \/ taskPc' = [b \in Batch |-> IF taskPc[b] = "queued" THEN "dropped" ELSE taskPc[b]]
    BY DEF Next, NewFlow, LoopTask, LoopLoad, LoopCheck, LoopRead, LoopCount, LoopAdd, TaskStep, EncodeStep,
           TaskStart, EncodeJoin, SendJoin, EncodeBegin, EncodeEnd, EncodeCrash, EncodeThrow, SendOneMsg, DtorStop,
           DtorStep, DtorJoinCleaner, DtorJoin, DtorExecutor, vars, taskVars
  <2> QED
    BY <1>i, <2>1
<1>8. /\ encPc' \in [Batch -> [Chunk -> {"new", "run", "ok", "rand", "threw"}]]
      /\ sendPc' \in [Batch -> [Chunk -> {"new", "sent", "lost"}]]
  <2>1. \/ encPc' = encPc
        \/ \E b \in Batch, c \in Chunk : \E to \in {"run", "ok", "rand", "threw"} :
             encPc' = [encPc EXCEPT ![b][c] = to]
    BY DEF Next, NewFlow, LoopTask, LoopLoad, LoopCheck, LoopRead, LoopCount, LoopAdd, TaskStep, EncodeStep,
           TaskStart, EncodeJoin, SendJoin, EncodeBegin, EncodeEnd, EncodeCrash, EncodeThrow, SendOneMsg, DtorStop,
           DtorStep, DtorJoinCleaner, DtorJoin, DtorExecutor, vars, taskVars, encodeVars
  <2>2. \/ sendPc' = sendPc
        \/ \E b \in Batch, c \in Chunk : \E to \in {"sent", "lost"} : sendPc' = [sendPc EXCEPT ![b][c] = to]
    BY DEF Next, NewFlow, LoopTask, LoopLoad, LoopCheck, LoopRead, LoopCount, LoopAdd, TaskStep, EncodeStep,
           TaskStart, EncodeJoin, SendJoin, EncodeBegin, EncodeEnd, EncodeCrash, EncodeThrow, SendOneMsg, DtorStop,
           DtorStep, DtorJoinCleaner, DtorJoin, DtorExecutor, vars, taskVars, sendVars
  <2>3. encPc' \in [Batch -> [Chunk -> {"new", "run", "ok", "rand", "threw"}]]
    <3>1. encPc \in [Batch -> [Chunk -> {"new", "run", "ok", "rand", "threw"}]]
      BY <1>i
    <3> QED
      BY ONLY <2>1, <3>1
  <2>4. sendPc' \in [Batch -> [Chunk -> {"new", "sent", "lost"}]]
    <3>1. sendPc \in [Batch -> [Chunk -> {"new", "sent", "lost"}]]
      BY <1>i
    <3> QED
      BY ONLY <2>2, <3>1
  <2> QED
    BY <2>3, <2>4
<1>9. feature' \in [Batch -> Seq(FlowId \cup {Rand})]
  <2>1. ASSUME NEW b \in Batch, EncodeJoin(b), feature' # feature
        PROVE  feature' \in [Batch -> Seq(FlowId \cup {Rand})]
    <3>1. /\ feature' = [feature EXCEPT ![b] = Concat(b)]
          /\ \E outcome \in {"ok", "rand"} : \A c \in EncodeChunks(b) : encPc[b][c] = outcome
      BY <2>1 DEF EncodeJoin
    <3>2. PICK outcome \in {"ok", "rand"} : \A c \in EncodeChunks(b) : encPc[b][c] = outcome
      BY <3>1
    <3>3. Concat(b) \in {list[b], RandRows(Len(list[b]))}
      BY <1>i, <3>2, ConcatIs
    <3>4. list[b] \in Seq(FlowId) /\ Len(list[b]) \in Nat
      BY <1>i, LenProperties
    <3>5. RandRows(Len(list[b])) \in Seq({Rand})
      BY <3>4, RandFacts
    <3>6. Concat(b) \in Seq(FlowId \cup {Rand})
      BY <3>3, <3>4, <3>5, SeqMonotonic
    <3> QED
      BY <1>i, <3>1, <3>6
  <2>2. feature' = feature \/ \E b \in Batch : EncodeJoin(b)
    BY DEF Next, NewFlow, LoopTask, LoopLoad, LoopCheck, LoopRead, LoopCount, LoopAdd, TaskStep, EncodeStep,
           TaskStart, SendJoin, EncodeBegin, EncodeEnd, EncodeCrash, EncodeThrow, SendOneMsg, DtorStop,
           DtorStep, DtorJoinCleaner, DtorJoin, DtorExecutor, vars, taskVars, encodeVars
  <2> QED
    BY <1>i, <2>1, <2>2
<1>10. \A m \in messages' : m.ids \in Seq(FlowId) /\ m.rows \in Seq(FlowId \cup {Rand})
  <2>1. ASSUME NEW b \in Batch, NEW c \in Chunk, SendOneMsg(b, c), NEW m \in messages', m \notin messages
        PROVE  m.ids \in Seq(FlowId) /\ m.rows \in Seq(FlowId \cup {Rand})
    <3>1. m = Message(b, c) /\ taskPc[b] = "send" /\ c \in SendChunks(b)
      BY <2>1 DEF SendOneMsg, Message
    <3> QED
      BY <3>1, MessageFacts
  <2>2. messages' = messages \/ \E b \in Batch, c \in Chunk : SendOneMsg(b, c)
    BY DEF Next, NewFlow, LoopTask, LoopLoad, LoopCheck, LoopRead, LoopCount, LoopAdd, TaskStep, EncodeStep,
           TaskStart, EncodeJoin, SendJoin, EncodeBegin, EncodeEnd, EncodeCrash, EncodeThrow, DtorStop,
           DtorStep, DtorJoinCleaner, DtorJoin, DtorExecutor, vars, taskVars, sendVars
  <2>3. \A m \in messages : m.ids \in Seq(FlowId) /\ m.rows \in Seq(FlowId \cup {Rand})
    BY <1>i
  <2> QED
    BY <2>1, <2>2, <2>3
<1> QED
  BY <1>1, <1>2, <1>3, <1>4, <1>5, <1>6, <1>7, <1>8, <1>9, <1>10

-----------------------------------------------------------------------------
(* The theorems *)

(* The invariant is inductive: the sink begins in it, and every step of    *)
(* the loops, the tasks and the destructor preserves it.                   *)
LEMMA InitInv == Init => Inv
<1> SUFFICES ASSUME Init PROVE Inv
  OBVIOUS
<1>0. MaxFlows \in Nat
  BY MaxFlowsAssumption
<1>1. TypeOK
  <2>1. made \in 0 .. MaxFlows /\ NumBlockedFlows \in 0 .. MaxFlows /\ numBatches \in 0 .. MaxFlows
    BY <1>0 DEF Init
  <2>2. doubleBufferQueue \in Seq(FlowId) /\ device \in Seq(Gpu) /\ Len(device) = numBatches
    BY EmptySeq DEF Init
  <2>3. mIsRunning \in BOOLEAN /\ usedDeleted \in BOOLEAN /\ aborted \in BOOLEAN
    BY DEF Init
  <2>4. hold \in [Gpu -> Seq(FlowId)] /\ list \in [Batch -> Seq(FlowId)]
    BY EmptySeq DEF Init
  <2>5. feature \in [Batch -> Seq(FlowId \cup {Rand})]
    BY EmptySeq DEF Init
  <2>6. /\ encPc \in [Batch -> [Chunk -> {"new", "run", "ok", "rand", "threw"}]]
        /\ sendPc \in [Batch -> [Chunk -> {"new", "sent", "lost"}]]
    BY DEF Init
  <2> QED
    BY <2>1, <2>2, <2>3, <2>4, <2>5, <2>6 DEF Init, TypeOK
<1>2. StopInv
  BY DEF Init, StopInv, ModelAliveInUse
<1>3. BatchInv
  BY <1>0 DEF Init, BatchInv, Batch
<1>4. FlowInv
  <2>1. \A g \in Gpu : hold[g] = <<>>
    BY DEF Init
  <2>2. \A b \in Batch : list[b] = <<>>
    BY DEF Init
  <2> QED
    BY <2>1, <2>2, EmptyOnce DEF Init, FlowInv, Once, Apart
<1>5. SendInv
  BY DEF Init, SendInv, RowsMatchIds
<1>6. BlockedExact
  <2>1. \A g \in Gpu : loopPc[g] = "load"
    BY DEF Init
  <2>2. ASSUME NEW b \in Batch PROVE 1 .. NumChunks(Len(list[b]), max_encode_batch) = {}
    <3>1. list[b] = <<>>
      BY DEF Init
    <3>2. Len(list[b]) = 0
      BY <3>1, EmptySeq
    <3>3. NumChunks(0, max_encode_batch) \in 0 .. 0
      BY BatchAssumption, ChunkCount
    <3> QED
      BY <3>2, <3>3
  <2>3. \A x : x \notin BlockedSet(loopPc, hold, list, encPc)
    BY <2>1, <2>2, BlockedMember DEF HeldIn, WaitsIn
  <2>4. BlockedSet(loopPc, hold, list, encPc) = {}
    BY <2>3
  <2>5. NumBlockedFlows = 0
    BY DEF Init
  <2> QED
    BY <2>4, <2>5, FS_EmptySet, BlockedIs
<1> QED
  BY <1>1, <1>2, <1>3, <1>4, <1>5, <1>6 DEF Inv

(* Every step preserves the invariant. *)
LEMMA NextInv == Inv /\ [Next]_vars => Inv'
  BY NextType, NextStop, NextBatch, NextFlowInv, NextSend, NextBlocked DEF Inv

(* The inductive invariant of KafkaSink's loops and encoding tasks. *)
THEOREM Invariance == Spec => []Inv
  BY InitInv, NextInv, PTL DEF Spec

(* The messages sent determine their pieces, and the pieces of one batch   *)
(* or of two hold different flows.                                         *)
LEMMA InvSentOnce == Inv => EachFlowSentOnce
<1> SUFFICES ASSUME Inv PROVE EachFlowSentOnce
  OBVIOUS
<1>i. /\ FlowInv /\ SendInv /\ TypeOK /\ max_send_batch \in Nat \ {0}
      /\ \A b \in Batch : /\ list[b] \in Seq(FlowId) /\ IsInjective(list[b])
                          /\ SendChunks(b) = 1 .. NumChunks(Len(list[b]), max_send_batch)
                          /\ SendChunks(b) \subseteq Chunk
  BY BatchAssumption, ListFacts DEF Inv, SendChunks
<1>p. \A b \in Batch : \A c \in SendChunks(b) : Message(b, c).ids = Piece(list[b], c, max_send_batch)
  BY DEF Message
<1>c. ASSUME NEW b \in Batch, NEW f
      PROVE  f \in ToSet(list[b]) <=> \E c \in SendChunks(b) : f \in ToSet(Piece(list[b], c, max_send_batch))
  <2>1. ToSet(list[b]) = UNION {ToSet(Piece(list[b], c, max_send_batch)) :
                                  c \in 1 .. NumChunks(Len(list[b]), max_send_batch)}
    BY <1>i, PiecesCover
  <2>2. SendChunks(b) = 1 .. NumChunks(Len(list[b]), max_send_batch)
    BY <1>i
  <2> QED
    BY <2>1, <2>2
<1>1. ASSUME NEW f \in FlowId PROVE Cardinality({m \in messages : f \in ToSet(m.ids)}) <= 1
  <2>1. ASSUME NEW m \in messages, NEW n \in messages, f \in ToSet(m.ids), f \in ToSet(n.ids) PROVE m = n
    <3>1. PICK a \in Batch : \E c \in SendChunks(a) : m = Message(a, c)
      BY <1>i DEF SendInv
    <3>2. PICK c \in SendChunks(a) : m = Message(a, c)
      BY <3>1
    <3>3. PICK b \in Batch : \E d \in SendChunks(b) : n = Message(b, d)
      BY <1>i DEF SendInv
    <3>4. PICK d \in SendChunks(b) : n = Message(b, d)
      BY <3>3
    <3>5. /\ f \in ToSet(Piece(list[a], c, max_send_batch))
          /\ f \in ToSet(Piece(list[b], d, max_send_batch))
      BY <1>p, <2>1, <3>2, <3>4
    <3>6. f \in ToSet(list[a]) /\ f \in ToSet(list[b])
      BY <1>c, <3>5
    <3>7. a = b
      BY <1>i, <3>6 DEF FlowInv, Apart
    <3>8. c = d
      <4>1. /\ c \in 1 .. NumChunks(Len(list[a]), max_send_batch)
            /\ d \in 1 .. NumChunks(Len(list[a]), max_send_batch)
            /\ list[a] \in Seq(FlowId) /\ IsInjective(list[a])
        BY <1>i, <3>7
      <4>2. f \in ToSet(Piece(list[a], d, max_send_batch))
        BY <3>5, <3>7
      <4> QED
        BY <1>i, <3>5, <4>1, <4>2, PiecesDisjoint
    <3> QED
      BY <3>2, <3>4, <3>7, <3>8
  <2>2. PICK F : F = {m \in messages : f \in ToSet(m.ids)}
    OBVIOUS
  <2>3. \A m, n \in F : m = n
    BY <2>1, <2>2
  <2>4. CASE F = {}
    BY <2>2, <2>4, FS_EmptySet
  <2>5. CASE F # {}
    <3>1. PICK m : F = {m}
      BY <2>3, <2>5
    <3>2. Cardinality(F) = 1
      BY <3>1, FS_Singleton
    <3> QED
      BY <2>2, <3>2
  <2> QED
    BY <2>4, <2>5
<1>2. ASSUME NEW b \in Batch, taskPc[b] = "done", \A c \in Chunk : sendPc[b][c] # "lost",
             NEW f \in ToSet(list[b])
      PROVE  \E m \in messages : f \in ToSet(m.ids)
  <2>1. PICK c \in SendChunks(b) : f \in ToSet(Piece(list[b], c, max_send_batch))
    BY <1>c
  <2>2. c \in Chunk /\ sendPc[b][c] # "new" /\ sendPc[b][c] # "lost"
    BY <1>i, <1>2 DEF SendInv
  <2>3. sendPc[b][c] = "sent"
    BY <1>i, <2>2 DEF TypeOK
  <2>4. Message(b, c) \in messages
    BY <1>i, <2>2, <2>3 DEF SendInv
  <2> QED
    BY <1>p, <2>1, <2>4
<1> QED
  BY <1>1, <1>2 DEF EachFlowSentOnce

(* Type correctness of the loops and their tasks: there is always room for *)
(* the next batch, and NumBlockedFlows is never negative.                  *)
THEOREM TypeCorrect == Spec => []TypeOK
<1>1. Inv => TypeOK
  BY DEF Inv
<1> QED
  BY <1>1, Invariance, PTL

(* NumBlockedFlows is the number of flows read by a loop whose encoding    *)
(* has not begun, for any interleaving of LoopTask, EncodeFlowList and its *)
(* chunk threads.                                                          *)
THEOREM BlockedCounted == Spec => []BlockedExact
<1>1. Inv => BlockedExact
  BY DEF Inv
<1> QED
  BY <1>1, Invariance, PTL

(* Each message of send_one_msg has one row per id, in the order of the    *)
(* ids: torch::concat puts the chunks of encode_flow_concurrently back in  *)
(* order, and send_concurrently cuts rows and ids alike.                   *)
THEOREM RowsMatch == Spec => []RowsMatchIds
<1>1. Inv => RowsMatchIds
  BY DEF Inv, SendInv
<1> QED
  BY <1>1, Invariance, PTL

(* No flow is in two messages of send_one_msg, and the pieces of           *)
(* send_concurrently leave none out, for any two batch sizes.              *)
THEOREM FlowsSentOnce == Spec => []EachFlowSentOnce
  BY InvSentOnce, Invariance, PTL

(* Until ~KafkaSink begins no encoding uses a model its loop has deleted.  *)
THEOREM ModelsAliveInUse == Spec => []ModelAliveInUse
<1>1. Inv => ModelAliveInUse
  BY DEF Inv, StopInv
<1> QED
  BY <1>1, Invariance, PTL

=============================================================================
