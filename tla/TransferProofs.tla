--------------------------- MODULE TransferProofs ---------------------------
(***************************************************************************)
(* That client and source mean the same bytes, for every torrent whose     *)
(* pieces have fewer than BLOCK_LENGTH blocks.                             *)
(***************************************************************************)
EXTENDS Transfer, OrderProofs, WellFoundedInduction

(* With the numbers of the code, BLOCK_LENGTH = 2^14 and words of 32 bits, *)
(* this says that a piece is shorter than 256 MiB.                         *)
OrdinarySizes ==
    /\ Word >= BlockLength * (BlockLength + 2)
    /\ \A t \in Torrents : t.pieceLength < BlockLength * BlockLength

-----------------------------------------------------------------------------
(* The inductive invariant *)

(* Regular blocks of a piece, and what is left for a shorter one. *)
Quot(p) == PieceLength(p) \div BlockLength
Rest(p) == PieceLength(p) % BlockLength

Asked(p, i) == PieceBlocks(p)[i]
Req(p, i) == BuildPeerRequestMsg(Asked(p, i))
Bytes(p, i) == ReadFile((p * BlockCount(p) + (i - 1)) * BlockLength, BlockLength)
Ans(p, i) == BuildPeerPieceMsg(Asked(p, i), IF IsSeeding THEN Bytes(p, i) ELSE <<>>)

(* Piece c is the one being fetched: those before it are marked, those     *)
(* after it queued.                                                        *)
OrderPart(c) ==
    /\ c \in done
    /\ queue \in Seq(Nat)
    /\ \A j, k \in 1 .. Len(queue) : j < k => queue[j] < queue[k]
    /\ \A k \in 1 .. Len(queue) : c < queue[k]
    /\ \A p \in marked : p < c
    /\ done = marked \cup {c} \cup ToSet(queue)

(* Its first n blocks were asked for: of these those in A are being asked, *)
(* those in S answered and those in G saved.                               *)
WirePart(c, n, A, S, G) ==
    /\ n \in 0 .. BlockCount(c)
    /\ todo = [k \in 1 .. BlockCount(c) - n |-> Asked(c, n + k)]
    /\ A \cup S \cup G = 1 .. n
    /\ A \cap S = {} /\ A \cap G = {} /\ S \cap G = {}
    /\ S \subseteq 1 .. Quot(c) /\ G \subseteq 1 .. Quot(c)
    /\ wire = {Req(c, i) : i \in A} \cup {Ans(c, i) : i \in S}

(* The requester counts by the first piece.  A marked piece is like it.    *)
CountPart(c, G) ==
    /\ total \in Nat /\ left \in Nat /\ left >= 1
    /\ left = total - Cardinality(G)
    /\ \A p \in done : BlockCount(p) <= total
    /\ \A p \in marked : BlockCount(p) = total /\ Rest(p) = 0
    /\ marked = {} => BlockCount(c) = total
    /\ marked # {} \/ G # {} => IsSeeding

AskedPart(c, n) ==
    /\ \A b \in requested : b.piece \in marked \cup {c}
    /\ \A p \in marked : Asked(p, 1) \in requested
    /\ \A i \in 1 .. n : Asked(c, i) \in requested

Names(c, G) ==
    {x \in Pieces \X (0 .. total - 1) : x[1] \in marked \/ (x[1] = c /\ x[2] + 1 \in G)}

SavedPart(c, G) ==
    /\ DOMAIN saved = Names(c, G)
    /\ \A x \in DOMAIN saved : saved[x] = Bytes(x[1], x[2] + 1)
    /\ final = <<>>

Working(c, n, A, S, G) ==
    /\ OrderPart(c)
    /\ WirePart(c, n, A, S, G)
    /\ CountPart(c, G)
    /\ AskedPart(c, n)
    /\ SavedPart(c, G)

Started ==
    /\ queue = <<>> /\ todo = <<>> /\ total = 0 /\ marked = {} /\ requested = {}
    /\ saved = <<>> /\ final = <<>>
    /\ wire \subseteq {[kind |-> "BITFIELD", bytes |-> FieldBytes, bits |-> done]}

Fetching ==
    \E c \in done : \E n \in 0 .. BlockCount(c) :
        \E A \in SUBSET (1 .. n) : \E S \in SUBSET (1 .. n) : \E G \in SUBSET (1 .. n) :
            Working(c, n, A, S, G)

Finished ==
    /\ total # 0 /\ wire = {} /\ todo = <<>> /\ queue = <<>>
    /\ IsSeeding
    /\ \A p \in Pieces : LikeTheFirst(p)
    /\ \A b \in requested : b.piece \in done
    /\ \A p \in done : Asked(p, 1) \in requested
    /\ final = [i \in 1 .. torrent.length |-> i]

Typed == torrent \in Torrents /\ done \in SUBSET Pieces /\ done # {}

Safe == AnswersAreExact /\ AnswerFindsItsSlot /\ AsksForWhatIsThere /\ FileIdentical

TransferInv ==
    /\ Typed
    /\ failure = "none" => Started \/ Fetching \/ Finished
    /\ failure # "none" => Safe

-----------------------------------------------------------------------------
(* Arithmetic *)

LEMMA Product ==
    ASSUME NEW a \in Nat, NEW b \in Nat
    PROVE  a * b \in Nat /\ a * b = b * a
OBVIOUS

LEMMA ProductOrder ==
    ASSUME NEW a \in Int, NEW b \in Int, NEW c \in Nat \ {0}
    PROVE  /\ a * c \in Int /\ b * c \in Int
           /\ (a * c < b * c) <=> (a < b)
           /\ (a * c <= b * c) <=> (a <= b)
           /\ (a * c = b * c) <=> (a = b)
OBVIOUS

LEMMA DivMod ==
    ASSUME NEW a \in Int, NEW b \in Nat \ {0}
    PROVE  /\ a \div b \in Int /\ a % b \in 0 .. b - 1
           /\ a = (a \div b) * b + (a % b)
OBVIOUS

LEMMA DivModNat ==
    ASSUME NEW a \in Nat, NEW b \in Nat \ {0}
    PROVE  /\ a \div b \in Nat /\ a % b \in 0 .. b - 1
           /\ a = (a \div b) * b + (a % b)
OBVIOUS

LEMMA DivModUnique ==
    ASSUME NEW a \in Int, NEW b \in Nat \ {0}, NEW d \in Int, NEW r \in 0 .. b - 1,
           a = d * b + r
    PROVE  a \div b = d /\ a % b = r
<1>1. /\ a \div b \in Int /\ a % b \in 0 .. b - 1
      /\ a = (a \div b) * b + (a % b)
  BY DivMod
<1> DEFINE e == a \div b
           s == a % b
<1>2. e \in Int /\ s \in 0 .. b - 1 /\ e * b + s = d * b + r
  BY <1>1
<1> HIDE DEF e, s
<1>3. e * b \in Int /\ d * b \in Int /\ (e + 1) * b = e * b + b /\ (d + 1) * b = d * b + b
  BY <1>2
<1>4. e * b < (d + 1) * b /\ d * b < (e + 1) * b
  BY <1>2, <1>3
<1>5. e < d + 1 /\ d < e + 1
  BY <1>2, <1>4, ProductOrder
<1>6. e = d
  BY <1>2, <1>5
<1>7. s = r
  BY <1>2, <1>3, <1>6
<1> QED
  BY <1>6, <1>7 DEF e, s

LEMMA CeilFacts ==
    ASSUME NEW a \in Nat, NEW b \in Nat \ {0}
    PROVE  /\ CeilDiv(a, b) \in Nat
           /\ a <= CeilDiv(a, b) * b
           /\ CeilDiv(a, b) * b < a + b
           /\ a # 0 => CeilDiv(a, b) # 0
<1>1. a + b - 1 \in Nat
  OBVIOUS
<1> DEFINE n == (a + b - 1) \div b
           r == (a + b - 1) % b
<1>2. n \in Nat /\ r \in 0 .. b - 1 /\ a + b - 1 = n * b + r
  BY <1>1, DivModNat
<1>3. CeilDiv(a, b) = n
  BY DEF CeilDiv
<1> HIDE DEF n, r
<1>4. n * b \in Nat
  BY <1>2
<1>5. a <= n * b /\ n * b < a + b
  BY <1>2, <1>4
<1>6. n = 0 => n * b = 0
  OBVIOUS
<1> QED
  BY <1>2, <1>3, <1>4, <1>5, <1>6

-----------------------------------------------------------------------------
(* Geometry *)

LEMMA Shape ==
    ASSUME Typed
    PROVE  /\ torrent.length \in Nat \ {0} /\ torrent.pieceLength \in Nat \ {0}
           /\ NumPieces \in Nat \ {0}
           /\ torrent.length <= NumPieces * torrent.pieceLength
           /\ NumPieces * torrent.pieceLength < torrent.length + torrent.pieceLength
           /\ done \in SUBSET Nat /\ Pieces \in SUBSET Nat
<1>1. torrent.length \in Nat \ {0} /\ torrent.pieceLength \in Nat \ {0}
  BY TransferAssumption DEF Typed
<1>2. /\ NumPieces \in Nat /\ torrent.length <= NumPieces * torrent.pieceLength
      /\ NumPieces * torrent.pieceLength < torrent.length + torrent.pieceLength
      /\ NumPieces # 0
  BY <1>1, CeilFacts DEF NumPieces
<1>3. Pieces \in SUBSET Nat
  BY <1>2 DEF Pieces
<1> QED
  BY <1>1, <1>2, <1>3 DEF Typed

LEMMA PieceLengthFacts ==
    ASSUME Typed, NEW p \in Pieces
    PROVE  /\ PieceLength(p) \in 1 .. torrent.pieceLength
           /\ p # NumPieces - 1 => PieceLength(p) = torrent.pieceLength
           /\ p * torrent.pieceLength + PieceLength(p) <= torrent.length
           /\ p = NumPieces - 1 => p * torrent.pieceLength + PieceLength(p) = torrent.length
<1> DEFINE L == torrent.length
           P == torrent.pieceLength
           N == NumPieces
           d == L \div P
           r == L % P
<1>1. /\ L \in Nat \ {0} /\ P \in Nat \ {0} /\ N \in Nat \ {0}
      /\ L <= N * P /\ N * P < L + P
  BY Shape
<1>2. d \in Nat /\ r \in 0 .. P - 1 /\ L = d * P + r
  BY <1>1, DivModNat
<1>3. p \in Nat /\ p <= N - 1
  BY <1>1 DEF Pieces
<1>4. PieceLength(p) = IF p = N - 1 /\ r # 0 THEN r ELSE P
  BY DEF PieceLength
<1> HIDE DEF L, P, N, d, r
<1>5. /\ (p + 1) * P = p * P + P /\ (N - 1) * P = N * P - P
      /\ (d + 1) * P = d * P + P /\ (d + 2) * P = d * P + P + P
      /\ p * P \in Int /\ N * P \in Int /\ d * P \in Int
  BY <1>1, <1>2, <1>3
<1>6. CASE p # N - 1
  <2>1. p + 1 <= N - 1 /\ p + 1 \in Int /\ N - 1 \in Int
    BY <1>1, <1>3, <1>6
  <2>2. (p + 1) * P <= (N - 1) * P
    BY <1>1, <2>1, ProductOrder
  <2>3. p * P + P <= L
    BY <1>1, <1>5, <2>2
  <2> QED
    BY <1>1, <1>4, <1>6, <2>3 DEF P, L, N
<1>7. CASE p = N - 1 /\ r = 0
  <2>1. d * P <= N * P /\ N * P < (d + 1) * P
    BY <1>1, <1>2, <1>5, <1>7
  <2>2. d <= N /\ N < d + 1
    BY <1>1, <1>2, <2>1, ProductOrder
  <2>3. N = d
    BY <1>1, <1>2, <2>2
  <2>4. p * P + P = L
    BY <1>1, <1>2, <1>5, <1>7, <2>3
  <2> QED
    BY <1>1, <1>4, <1>7, <2>4 DEF P, L, N
<1>8. CASE p = N - 1 /\ r # 0
  <2>1. d * P < N * P /\ N * P < (d + 2) * P
    BY <1>1, <1>2, <1>5, <1>8
  <2>2. d < N /\ N < d + 2
    BY <1>1, <1>2, <2>1, ProductOrder
  <2>3. N = d + 1
    BY <1>1, <1>2, <2>2
  <2>4. p * P + r = L
    BY <1>1, <1>2, <1>5, <1>8, <2>3
  <2> QED
    BY <1>1, <1>2, <1>4, <1>8, <2>4 DEF P, L, N
<1> QED
  BY <1>6, <1>7, <1>8

LEMMA BlockFacts ==
    ASSUME Typed, NEW p \in Pieces
    PROVE  /\ Quot(p) \in Nat /\ Rest(p) \in 0 .. BlockLength - 1
           /\ PieceLength(p) = Quot(p) * BlockLength + Rest(p)
           /\ BlockCount(p) \in Nat \ {0}
           /\ Rest(p) = 0 => BlockCount(p) = Quot(p)
           /\ Rest(p) # 0 => BlockCount(p) = Quot(p) + 1
           /\ PieceBlocks(p) = [k \in 1 .. BlockCount(p) |-> Asked(p, k)]
           /\ \A i \in 1 .. Quot(p) :
                 Asked(p, i) = Block(p, i - 1, (i - 1) * BlockLength, BlockLength)
           /\ Rest(p) # 0 =>
                 Asked(p, Quot(p) + 1) = Block(p, Quot(p) - 1, Quot(p) - BlockLength, Rest(p))
<1> DEFINE R == [i \in 1 .. Quot(p) |-> Block(p, i - 1, (i - 1) * BlockLength, BlockLength)]
           E == Block(p, Quot(p) - 1, Quot(p) - 1 * BlockLength, Rest(p))
<1>1. BlockLength \in Nat \ {0} /\ PieceLength(p) \in Nat \ {0}
  BY TransferAssumption, PieceLengthFacts, Shape
<1>2. /\ Quot(p) \in Nat /\ Rest(p) \in 0 .. BlockLength - 1
      /\ PieceLength(p) = Quot(p) * BlockLength + Rest(p)
  BY <1>1, DivModNat DEF Quot, Rest
<1>3. Quot(p) = 0 => Rest(p) # 0
  BY <1>1, <1>2
<1>4. PieceBlocks(p) = IF Rest(p) = 0 THEN R ELSE Append(R, E)
  BY DEF PieceBlocks, Quot, Rest
<1>5. \E T : R \in Seq(T) /\ Len(R) = Quot(p) /\ E \in T
  <2> DEFINE T == {R[i] : i \in 1 .. Quot(p)} \cup {E}
  <2>1. R \in [1 .. Quot(p) -> T]
    OBVIOUS
  <2>2. R \in Seq(T) /\ Len(R) = Quot(p)
    BY <1>2, <2>1, IsASeq, LenProperties
  <2> QED
    BY <2>2
<1>6. \A i \in 1 .. Quot(p) : R[i] = Block(p, i - 1, (i - 1) * BlockLength, BlockLength)
  OBVIOUS
<1>7. E = Block(p, Quot(p) - 1, Quot(p) - BlockLength, Rest(p))
  BY <1>1, <1>2
<1> HIDE DEF R, E
<1>8. PICK T : R \in Seq(T) /\ Len(R) = Quot(p) /\ E \in T
  BY <1>5
<1>9. CASE Rest(p) = 0
  <2>1. PieceBlocks(p) = R /\ BlockCount(p) = Quot(p)
    BY <1>4, <1>8, <1>9 DEF BlockCount
  <2>2. PieceBlocks(p) = [k \in 1 .. BlockCount(p) |-> Asked(p, k)]
    BY <1>8, <2>1 DEF Asked
  <2>3. \A i \in 1 .. Quot(p) : Asked(p, i) = R[i]
    BY <2>1 DEF Asked
  <2> QED
    BY <1>2, <1>3, <1>6, <1>9, <2>1, <2>2, <2>3
<1>10. CASE Rest(p) # 0
  <2>1. PieceBlocks(p) = Append(R, E)
    BY <1>4, <1>10
  <2>2. /\ Append(R, E) \in Seq(T) /\ Len(Append(R, E)) = Quot(p) + 1
        /\ \A i \in 1 .. Quot(p) : Append(R, E)[i] = R[i]
        /\ Append(R, E)[Quot(p) + 1] = E
    BY <1>2, <1>8, AppendProperties
  <2>3. BlockCount(p) = Quot(p) + 1
    BY <2>1, <2>2 DEF BlockCount
  <2>4. PieceBlocks(p) = [k \in 1 .. BlockCount(p) |-> Asked(p, k)]
    <3>1. Append(R, E) = [k \in 1 .. Quot(p) + 1 |-> Append(R, E)[k]]
      BY <2>2, LenProperties
    <3> QED
      BY <2>1, <2>3, <3>1 DEF Asked
  <2>5. /\ \A i \in 1 .. Quot(p) : Asked(p, i) = R[i]
        /\ Asked(p, Quot(p) + 1) = E
    BY <2>1, <2>2 DEF Asked
  <2> QED
    BY <1>2, <1>6, <1>7, <1>10, <2>3, <2>4, <2>5
<1> QED
  BY <1>9, <1>10

LEMMA CountOrder ==
    ASSUME Typed, NEW p \in Pieces, NEW q \in Pieces, p <= q
    PROVE  BlockCount(q) <= BlockCount(p)
<1> DEFINE B == BlockLength
           P == torrent.pieceLength
<1>1. B \in Nat \ {0} /\ P \in Nat \ {0} /\ NumPieces \in Nat \ {0}
  BY TransferAssumption, Shape
<1>2. CASE p = q
  BY <1>2, BlockFacts
<1>3. CASE p # q
  <2>1. p # NumPieces - 1
    BY <1>1, <1>3 DEF Pieces
  <2>2. PieceLength(p) = P /\ PieceLength(q) \in 1 .. P
    BY <2>1, PieceLengthFacts
  <2>3. /\ Quot(p) \in Nat /\ Rest(p) \in 0 .. B - 1 /\ P = Quot(p) * B + Rest(p)
        /\ Rest(p) = 0 => BlockCount(p) = Quot(p)
        /\ Rest(p) # 0 => BlockCount(p) = Quot(p) + 1
    BY <2>2, BlockFacts
  <2>4. /\ Quot(q) \in Nat /\ Rest(q) \in 0 .. B - 1 /\ PieceLength(q) = Quot(q) * B + Rest(q)
        /\ Rest(q) = 0 => BlockCount(q) = Quot(q)
        /\ Rest(q) # 0 => BlockCount(q) = Quot(q) + 1
    BY BlockFacts
  <2> DEFINE m == Quot(p)
             n == Quot(q)
             r == Rest(p)
             s == Rest(q)
  <2> HIDE DEF B, P, m, n, r, s
  <2>5. /\ n * B + s <= m * B + r /\ (m + 1) * B = m * B + B
        /\ n * B \in Int /\ m * B \in Int
    BY <1>1, <2>2, <2>3, <2>4 DEF m, n, r, s
  <2>6. n * B < (m + 1) * B
    BY <1>1, <2>3, <2>4, <2>5 DEF m, n, r, s
  <2>7. n < m + 1
    BY <1>1, <2>3, <2>4, <2>6, ProductOrder DEF m, n
  <2>8. n = m => s <= r
    BY <1>1, <2>3, <2>4, <2>5 DEF m, n, r, s
  <2> QED
    BY <2>3, <2>4, <2>7, <2>8 DEF m, n, r, s
<1> QED
  BY <1>2, <1>3

LEMMA QuotBound ==
    ASSUME Typed, OrdinarySizes, NEW p \in Pieces
    PROVE  Quot(p) < BlockLength
<1> DEFINE B == BlockLength
<1>1. B \in Nat \ {0} /\ B * B \in Nat /\ torrent.pieceLength < B * B
  BY TransferAssumption DEF OrdinarySizes, Typed
<1>2. /\ Quot(p) \in Nat /\ Rest(p) \in 0 .. B - 1
      /\ PieceLength(p) = Quot(p) * B + Rest(p)
      /\ PieceLength(p) \in 1 .. torrent.pieceLength
  BY BlockFacts, PieceLengthFacts
<1>3. Quot(p) * B \in Nat /\ Quot(p) * B < B * B
  BY <1>1, <1>2, Shape
<1> QED
  BY <1>1, <1>2, <1>3, ProductOrder

LEMMA RegularAsked ==
    ASSUME Typed, OrdinarySizes, NEW p \in Pieces, NEW i \in 1 .. Quot(p)
    PROVE  LET b == Asked(p, i)
           IN  /\ b.piece = p /\ b.idx = i - 1 /\ b.length = BlockLength
               /\ b.begin = (i - 1) * BlockLength
               /\ b.begin \in 0 .. Word - 1
               /\ b.begin < BlockLength * BlockLength
<1> DEFINE B == BlockLength
           n == (i - 1) * B
<1>1. B \in Nat \ {0} /\ Word \in Nat \ {0} /\ Quot(p) \in Nat /\ Quot(p) < B
  BY TransferAssumption, BlockFacts, QuotBound
<1>2. /\ B * B \in Nat /\ B * (B + 2) = B * B + 2 * B /\ Word >= B * (B + 2)
  BY <1>1 DEF OrdinarySizes
<1>3. i - 1 \in Nat /\ n \in Nat /\ i - 1 < B
  BY <1>1
<1>4. n < B * B
  BY <1>1, <1>3, ProductOrder
<1>5. Asked(p, i) = Block(p, i - 1, n, B)
  BY BlockFacts
<1> HIDE DEF n
<1>6. n \in 0 .. Word - 1
  BY <1>1, <1>2, <1>3, <1>4
<1>7. n = 0 * Word + n /\ n \in Int
  BY <1>1, <1>6
<1>8. U32(n) = n
  BY <1>1, <1>6, <1>7, DivModUnique DEF U32
<1>9. Asked(p, i) = [piece |-> p, idx |-> i - 1, begin |-> n, length |-> B]
  BY <1>5, <1>8 DEF Block
<1> QED
  BY <1>4, <1>6, <1>9 DEF n

LEMMA ShortAsked ==
    ASSUME Typed, OrdinarySizes, NEW p \in Pieces, Rest(p) # 0
    PROVE  LET b == Asked(p, Quot(p) + 1)
           IN  /\ b.piece = p /\ b.length = Rest(p)
               /\ b.begin \in 0 .. Word - 1
               /\ b.begin >= BlockLength * (BlockLength + 1)
<1> DEFINE B == BlockLength
           a == Quot(p) - B
           n == Word + Quot(p) - B
<1>1. B \in Nat \ {0} /\ Word \in Nat \ {0} /\ Quot(p) \in Nat /\ Quot(p) < B
  BY TransferAssumption, BlockFacts, QuotBound
<1>2. /\ B * B \in Nat /\ B * (B + 2) = B * B + 2 * B /\ B * (B + 1) = B * B + B
      /\ Word >= B * (B + 2)
  BY <1>1 DEF OrdinarySizes
<1>3. Asked(p, Quot(p) + 1) = Block(p, Quot(p) - 1, a, Rest(p))
  BY BlockFacts
<1>4. n \in 0 .. Word - 1 /\ n >= B * (B + 1)
  BY <1>1, <1>2
<1>5. a = -1 * Word + n /\ a \in Int
  BY <1>1
<1> HIDE DEF a, n
<1>6. U32(a) = n
  BY <1>1, <1>4, <1>5, DivModUnique DEF U32
<1>7. Asked(p, Quot(p) + 1) = [piece |-> p, idx |-> Quot(p) - 1, begin |-> n, length |-> Rest(p)]
  BY <1>3, <1>6 DEF Block
<1> QED
  BY <1>4, <1>7

(* The blocks of a piece differ in where they begin. *)
LEMMA AskedDistinct ==
    ASSUME Typed, OrdinarySizes, NEW p \in Pieces
    PROVE  /\ \A i \in 1 .. BlockCount(p) : Asked(p, i).piece = p
           /\ \A i, j \in 1 .. BlockCount(p) : Asked(p, i).begin = Asked(p, j).begin => i = j
<1> DEFINE B == BlockLength
<1>1. /\ B \in Nat \ {0} /\ Word \in Nat \ {0} /\ Quot(p) \in Nat
      /\ Rest(p) = 0 => BlockCount(p) = Quot(p)
      /\ Rest(p) # 0 => BlockCount(p) = Quot(p) + 1
  BY TransferAssumption, BlockFacts
<1>2. ASSUME NEW i \in 1 .. BlockCount(p)
      PROVE  i \in 1 .. Quot(p) \/ (i = Quot(p) + 1 /\ Rest(p) # 0)
  BY <1>1
<1>3. \A i \in 1 .. Quot(p) :
          /\ Asked(p, i).piece = p /\ Asked(p, i).begin = (i - 1) * B
          /\ (i - 1) * B < B * B /\ (i - 1) * B \in Int /\ i - 1 \in Int
  BY <1>1, RegularAsked
<1>4. Rest(p) # 0 =>
          /\ Asked(p, Quot(p) + 1).piece = p /\ Asked(p, Quot(p) + 1).begin \in Int
          /\ Asked(p, Quot(p) + 1).begin >= B * (B + 1)
  BY <1>1, ShortAsked
<1>5. B * B < B * (B + 1) /\ B * B \in Int /\ B * (B + 1) \in Int
  <2>1. B * (B + 1) = B * B + B /\ B * B \in Int
    BY <1>1
  <2> QED
    BY <1>1, <2>1
<1>6. \A i, j \in 1 .. Quot(p) : (i - 1) * B = (j - 1) * B => i = j
  <2> SUFFICES ASSUME NEW i \in 1 .. Quot(p), NEW j \in 1 .. Quot(p), (i - 1) * B = (j - 1) * B
               PROVE  i = j
    OBVIOUS
  <2>1. i - 1 = j - 1
    BY <1>1, ProductOrder
  <2> QED
    BY <1>1, <2>1
<1>7. ASSUME NEW i \in 1 .. BlockCount(p), NEW j \in 1 .. BlockCount(p),
             Asked(p, i).begin = Asked(p, j).begin
      PROVE  i = j
  <2>1. CASE i \in 1 .. Quot(p) /\ j \in 1 .. Quot(p)
    BY <1>3, <1>6, <1>7, <2>1
  <2>2. CASE i \in 1 .. Quot(p) /\ j = Quot(p) + 1 /\ Rest(p) # 0
    BY <1>3, <1>4, <1>5, <1>7, <2>2
  <2>3. CASE j \in 1 .. Quot(p) /\ i = Quot(p) + 1 /\ Rest(p) # 0
    BY <1>3, <1>4, <1>5, <1>7, <2>3
  <2> QED
    BY <1>2, <2>1, <2>2, <2>3
<1>8. ASSUME NEW i \in 1 .. BlockCount(p)
      PROVE  Asked(p, i).piece = p
  BY <1>2, <1>3, <1>4
<1> QED
  BY <1>7, <1>8

(* A regular block is found where it was asked for; the shorter one is not. *)
LEMMA ServedFacts ==
    ASSUME Typed, OrdinarySizes, NEW p \in Pieces, NEW i \in 1 .. BlockCount(p)
    PROVE  LET b == RequestedBlock(Req(p, i))
           IN  /\ b.piece = p
               /\ HasBlockAt(p, b.begin, b.length) <=> i <= Quot(p)
               /\ i <= Quot(p) =>
                     /\ BlockAt(p, b.begin, b.length) = Asked(p, i)
                     /\ Asked(p, i).length = BlockLength
                     /\ SeekLocation(p, Asked(p, i)) =
                            (p * BlockCount(p) + (i - 1)) * BlockLength
<1> DEFINE B == BlockLength
           a == Asked(p, i)
           b == RequestedBlock(Req(p, i))
<1>1. /\ B \in Nat \ {0} /\ Word \in Nat \ {0} /\ Quot(p) \in Nat
      /\ Rest(p) = 0 => BlockCount(p) = Quot(p)
      /\ Rest(p) # 0 => BlockCount(p) = Quot(p) + 1
      /\ Rest(p) \in 0 .. B - 1
  BY TransferAssumption, BlockFacts
<1>2. a.piece = p
  BY AskedDistinct
<1>3. b.piece = p /\ b.length = a.length /\ b.begin = U32(a.begin)
  BY <1>2 DEF RequestedBlock, Req, BuildPeerRequestMsg, Block
<1>4. a.begin \in 0 .. Word - 1
  <2>1. i \in 1 .. Quot(p) \/ (i = Quot(p) + 1 /\ Rest(p) # 0)
    BY <1>1
  <2> QED
    BY <2>1, RegularAsked, ShortAsked
<1>5. b.begin = a.begin
  <2> DEFINE n == a.begin
  <2> HIDE DEF a
  <2>1. n \in 0 .. Word - 1
    BY <1>4
  <2> HIDE DEF n
  <2>2. n \in Int /\ n = 0 * Word + n
    BY <1>1, <2>1
  <2>3. n % Word = n
    BY <1>1, <2>1, <2>2, DivModUnique
  <2> QED
    BY <1>3, <2>3 DEF U32, n
<1>6. CASE i <= Quot(p)
  <2>1. /\ a.begin = (i - 1) * B /\ a.length = B /\ a.idx = i - 1
        /\ i \in 1 .. Quot(p)
    BY <1>1, <1>6, RegularAsked
  <2>2. i - 1 \in Int /\ 0 \in 0 .. B - 1 /\ (i - 1) * B \in Int /\ (i - 1) * B = (i - 1) * B + 0
    BY <1>1
  <2>3. ((i - 1) * B) \div B = i - 1
    <3> DEFINE d == i - 1
               n == d * B
    <3>1. d \in Int /\ n \in Int /\ n = d * B + 0 /\ 0 \in 0 .. B - 1
      BY <2>2
    <3> HIDE DEF d, n
    <3>2. n \div B = d
      BY <1>1, <3>1, DivModUnique
    <3> QED
      BY <3>2 DEF d, n
  <2>4. b.begin \div b.length = i - 1
    BY <1>3, <1>5, <2>1, <2>3
  <2>5. HasBlockAt(p, b.begin, b.length) /\ BlockAt(p, b.begin, b.length) = a
    <3>1. i - 1 < BlockCount(p) /\ i - 1 + 1 = i
      BY <1>1
    <3> QED
      BY <2>4, <3>1 DEF HasBlockAt, BlockAt, Asked
  <2>6. SeekLocation(p, a) = (p * BlockCount(p) + (i - 1)) * B
    BY <2>1 DEF SeekLocation
  <2> QED
    BY <1>3, <1>6, <2>1, <2>5, <2>6
<1>7. CASE ~(i <= Quot(p))
  <2>1. Rest(p) # 0 /\ i = Quot(p) + 1
    BY <1>1, <1>7
  <2>2. a.begin >= B * (B + 1) /\ a.length = Rest(p) /\ a.begin \in Int
    BY <1>1, <2>1, ShortAsked
  <2> DEFINE n == b.begin
             r == Rest(p)
             d == n \div r
  <2>3. n >= B * (B + 1) /\ n \in Int /\ r \in 1 .. B - 1 /\ b.length = r
    BY <1>1, <1>3, <1>5, <2>1, <2>2
  <2> HIDE DEF n, r, b
  <2>4. /\ d \in Int /\ n % r \in 0 .. r - 1 /\ n = d * r + (n % r)
    <3>1. r \in Nat \ {0}
      BY <1>1, <2>3
    <3> QED
      BY <2>3, <3>1, DivMod
  <2> HIDE DEF d
  <2>5. d > B
    <3> SUFFICES ASSUME d <= B PROVE FALSE
      BY <1>1, <2>4
    <3>1. d * r <= B * r
      BY <1>1, <2>3, <2>4, ProductOrder
    <3>2. r * B <= B * B /\ r * B = B * r
      <4>1. r \in Int /\ B \in Int /\ r <= B
        BY <1>1, <2>3
      <4> QED
        BY <1>1, <4>1, ProductOrder
    <3>3. B * (B + 1) = B * B + B /\ B * B \in Int /\ B * r \in Int /\ d * r \in Int
      BY <1>1, <2>3, <2>4
    <3> QED
      BY <1>1, <2>3, <2>4, <3>1, <3>2, <3>3
  <2>6. BlockCount(p) <= B
    BY <1>1, <2>1, QuotBound
  <2>7. ~(d < BlockCount(p))
    BY <1>1, <2>1, <2>4, <2>5, <2>6
  <2>8. ~HasBlockAt(p, b.begin, b.length)
    BY <2>3, <2>7 DEF HasBlockAt, d, n, r
  <2> QED
    BY <1>3, <1>7, <2>8 DEF b
<1> QED
  BY <1>6, <1>7

LEMMA QuotWithin ==
    ASSUME Typed, NEW p \in Pieces
    PROVE  /\ Quot(p) \in Nat /\ BlockCount(p) \in Nat \ {0}
           /\ Quot(p) <= BlockCount(p)
           /\ Rest(p) = 0 <=> Quot(p) = BlockCount(p)
           /\ 1 .. Quot(p) \subseteq 1 .. BlockCount(p)
<1>1. /\ Quot(p) \in Nat /\ BlockCount(p) \in Nat \ {0}
      /\ Rest(p) = 0 => BlockCount(p) = Quot(p)
      /\ Rest(p) # 0 => BlockCount(p) = Quot(p) + 1
  BY BlockFacts
<1> QED
  BY <1>1

LEMMA MessageFacts ==
    ASSUME Typed, OrdinarySizes, NEW p \in Pieces, NEW i \in 1 .. BlockCount(p)
    PROVE  /\ Req(p, i).kind = "REQUEST" /\ Req(p, i).begin = Asked(p, i).begin
           /\ Ans(p, i).kind = "PIECE" /\ Ans(p, i).begin = Asked(p, i).begin
           /\ Ans(p, i).piece = p
           /\ Ans(p, i).buff = IF IsSeeding THEN Bytes(p, i) ELSE <<>>
BY AskedDistinct DEF Req, Ans, BuildPeerRequestMsg, BuildPeerPieceMsg

LEMMA MessagesDistinct ==
    ASSUME Typed, OrdinarySizes, NEW p \in Pieces,
           NEW i \in 1 .. BlockCount(p), NEW j \in 1 .. BlockCount(p)
    PROVE  /\ Req(p, i) = Req(p, j) => i = j
           /\ Ans(p, i) = Ans(p, j) => i = j
           /\ Req(p, i) # Ans(p, j)
BY MessageFacts, AskedDistinct

LEMMA BytesFacts ==
    ASSUME Typed, NEW p \in Pieces, NEW i \in 1 .. Quot(p)
    PROVE  /\ Bytes(p, i) \in Seq(Nat) /\ Len(Bytes(p, i)) = BlockLength
           /\ Bytes(p, i) # <<>>
           /\ (p * BlockCount(p) + (i - 1)) * BlockLength \in Nat
           /\ Bytes(p, i) = [j \in 1 .. BlockLength |->
                 IF (p * BlockCount(p) + (i - 1)) * BlockLength + j <= torrent.length
                 THEN (p * BlockCount(p) + (i - 1)) * BlockLength + j ELSE 0]
<1> DEFINE B == BlockLength
           k == BlockCount(p)
           a == p * k
           n == (a + (i - 1)) * B
           f == [j \in 1 .. B |-> IF n + j <= torrent.length THEN n + j ELSE 0]
<1>1. B \in Nat \ {0} /\ k \in Nat /\ p \in Nat /\ i - 1 \in Nat
  BY TransferAssumption, BlockFacts, Shape
<1>2. a \in Nat
  BY <1>1, Product
<1>3. a + (i - 1) \in Nat
  BY <1>1, <1>2
<1>4. n \in Nat
  BY <1>1, <1>3, Product
<1>5. Bytes(p, i) = f
  BY DEF Bytes, ReadFile
<1> HIDE DEF n, k
<1>6. f \in [1 .. B -> Nat]
  BY <1>1, <1>4
<1>7. f \in Seq(Nat) /\ Len(f) = B
  BY <1>1, <1>6, IsASeq, LenProperties
<1>8. f # <<>>
  BY <1>1, <1>7
<1> QED
  BY <1>4, <1>5, <1>7, <1>8 DEF n, k

LEMMA AnswerIndex ==
    ASSUME Typed, OrdinarySizes, IsSeeding, NEW p \in Pieces, NEW i \in 1 .. Quot(p)
    PROVE  AnswerIdx(Ans(p, i)) = i - 1
<1> DEFINE B == BlockLength
           d == i - 1
           n == d * B
<1>1. i \in 1 .. BlockCount(p) /\ B \in Nat \ {0} /\ d \in Int
  BY TransferAssumption, QuotWithin
<1>2. Ans(p, i).begin = n /\ Ans(p, i).buff = Bytes(p, i) /\ Len(Bytes(p, i)) = B
  BY <1>1, MessageFacts, RegularAsked, BytesFacts
<1>3. n \in Int /\ n = d * B + 0 /\ 0 \in 0 .. B - 1
  BY <1>1
<1> HIDE DEF d, n
<1>4. n \div B = d
  BY <1>1, <1>3, DivModUnique
<1> QED
  BY <1>2, <1>4 DEF AnswerIdx, d

(* readFromDownloadedData finds the bytes of a block, or other ones.       *)
LEMMA ExactBytes ==
    ASSUME Typed, NEW p \in Pieces, NEW i \in 1 .. Quot(p), p # 0 => Rest(0) = 0
    PROVE  (Bytes(p, i) = Content(p, (i - 1) * BlockLength, BlockLength)) <=> LikeTheFirst(p)
<1> DEFINE B == BlockLength
           P == torrent.pieceLength
           L == torrent.length
           k == BlockCount(p)
           z == BlockCount(0)
           b == (i - 1) * B
           n == (p * k + (i - 1)) * B
<1>1. /\ B \in Nat \ {0} /\ P \in Nat \ {0} /\ L \in Nat \ {0} /\ p \in Nat
      /\ k \in Nat /\ Quot(p) \in Nat /\ Rest(p) \in 0 .. B - 1
      /\ NumPieces \in Nat \ {0} /\ i - 1 \in Nat
  BY TransferAssumption, Shape, BlockFacts
<1>2. 0 \in Pieces
  BY <1>1 DEF Pieces
<1>3. z \in Nat /\ k <= z
  BY <1>1, <1>2, BlockFacts, CountOrder
<1>4. p # 0 => z * B = P
  <2> SUFFICES ASSUME p # 0 PROVE z * B = P
    OBVIOUS
  <2>1. 0 # NumPieces - 1
    BY <1>1 DEF Pieces
  <2>2. PieceLength(0) = P /\ Rest(0) = 0
    BY <1>2, <2>1, PieceLengthFacts
  <2>3. z = Quot(0) /\ P = Quot(0) * B + 0 /\ Quot(0) * B \in Nat
    BY <1>1, <1>2, <2>2, BlockFacts
  <2> QED
    BY <2>3
<1>5. p * P + i * B <= L /\ i * B = b + B
  <2>1. p * P + PieceLength(p) <= L /\ PieceLength(p) = Quot(p) * B + Rest(p)
    BY PieceLengthFacts, BlockFacts
  <2>2. i * B <= Quot(p) * B /\ i * B \in Int /\ Quot(p) * B \in Int
    BY <1>1, ProductOrder
  <2>3. i * B = b + B /\ p * P \in Int
    BY <1>1
  <2> QED
    BY <1>1, <2>1, <2>2, <2>3
<1>6. n = (p * k) * B + b /\ p * k \in Int /\ b \in Nat /\ n \in Nat
  <2>1. p * k \in Nat
    BY <1>1, Product
  <2> DEFINE a == p * k
  <2> HIDE DEF a
  <2>2. (a + (i - 1)) * B = a * B + b /\ b \in Nat
    BY <1>1, <2>1 DEF a
  <2>3. a * B \in Nat
    BY <1>1, <2>1, Product DEF a
  <2> QED
    BY <2>1, <2>2, <2>3 DEF a
<1>7. Bytes(p, i) = [j \in 1 .. B |-> IF n + j <= L THEN n + j ELSE 0]
  BY BytesFacts
<1>8. Content(p, b, B) = [j \in 1 .. B |-> p * P + b + j]
  BY DEF Content
<1>9. p * P \in Nat
  BY <1>1, Product
<1>10. CASE k = z
  <2>1. n = p * P + b
    <3>1. CASE p = 0
      <4>1. p * k = 0 /\ p * P = 0 /\ 0 * B = 0
        BY <1>1, <3>1
      <4> QED
        BY <1>6, <4>1
    <3>2. CASE p # 0
      <4>1. (p * k) * B = p * (k * B)
        BY <1>1
      <4> QED
        BY <1>4, <1>6, <1>10, <3>2, <4>1
    <3> QED
      BY <3>1, <3>2
  <2> HIDE DEF n, b, k, z, P, L, B
  <2>2. \A j \in 1 .. B : n + j <= L /\ n + j = p * P + b + j
    BY <1>1, <1>5, <1>6, <1>9, <2>1
  <2>3. Bytes(p, i) = Content(p, b, B)
    BY <1>7, <1>8, <2>2
  <2>4. LikeTheFirst(p)
    BY <1>10 DEF LikeTheFirst, k, z
  <2> QED
    BY <2>3, <2>4 DEF b, B
<1>11. CASE k # z
  <2>1. p # 0 /\ k < z
    BY <1>1, <1>3, <1>11
  <2>2. p * k < p * z /\ p * z \in Int
    <3>1. k * p < z * p /\ k * p = p * k /\ z * p = p * z
      BY <1>1, <1>3, <2>1, ProductOrder, Product
    <3> QED
      BY <1>1, <1>3, <3>1
  <2>3. (p * k) * B < (p * z) * B
    BY <1>1, <1>6, <2>2, ProductOrder
  <2>4. (p * z) * B = p * (z * B)
    BY <1>1, <1>3
  <2>5. n < p * P + b
    <3> DEFINE u == (p * k) * B
    <3>1. u < p * P /\ u \in Int
      BY <1>1, <1>4, <1>6, <2>1, <2>3, <2>4
    <3> HIDE DEF u, n, b, P
    <3>2. n = u + b
      BY <1>6 DEF u
    <3> QED
      BY <1>6, <1>9, <3>1, <3>2
  <2> HIDE DEF n, b, k, z, P, L, B
  <2>6. Bytes(p, i)[1] # Content(p, b, B)[1]
    <3>1. 1 \in 1 .. B
      BY <1>1
    <3>2. Bytes(p, i)[1] = IF n + 1 <= L THEN n + 1 ELSE 0
      BY <1>7, <3>1
    <3>3. Content(p, b, B)[1] = p * P + b + 1
      BY <1>8, <3>1
    <3> QED
      BY <1>1, <1>6, <1>9, <2>5, <3>2, <3>3
  <2>7. ~LikeTheFirst(p)
    BY <1>11 DEF LikeTheFirst, k, z
  <2> QED
    BY <2>6, <2>7 DEF b, B
<1> QED
  BY <1>10, <1>11

(* A seeding source does not reach the end of its file: no piece is asked  *)
(* for before the first one was all there.                                 *)
LEMMA WithinTheFile ==
    ASSUME Typed, NEW p \in Pieces, NEW i \in 1 .. Quot(p), p # 0 => Rest(0) = 0
    PROVE  (p * BlockCount(p) + (i - 1)) * BlockLength < torrent.length
<1> DEFINE B == BlockLength
           P == torrent.pieceLength
           L == torrent.length
           k == BlockCount(p)
           z == BlockCount(0)
           b == (i - 1) * B
           u == (p * k) * B
<1>1. /\ B \in Nat \ {0} /\ P \in Nat \ {0} /\ L \in Nat \ {0} /\ p \in Nat
      /\ k \in Nat /\ Quot(p) \in Nat /\ Rest(p) \in 0 .. B - 1
      /\ NumPieces \in Nat \ {0} /\ i - 1 \in Nat
  BY TransferAssumption, Shape, BlockFacts
<1>2. 0 \in Pieces
  BY <1>1 DEF Pieces
<1>3. z \in Nat /\ k <= z
  BY <1>1, <1>2, BlockFacts, CountOrder
<1>4. p # 0 => z * B = P
  <2> SUFFICES ASSUME p # 0 PROVE z * B = P
    OBVIOUS
  <2>1. 0 # NumPieces - 1
    BY <1>1 DEF Pieces
  <2>2. PieceLength(0) = P /\ Rest(0) = 0
    BY <1>2, <2>1, PieceLengthFacts
  <2>3. z = Quot(0) /\ P = Quot(0) * B + 0 /\ Quot(0) * B \in Nat
    BY <1>1, <1>2, <2>2, BlockFacts
  <2> QED
    BY <2>3
<1>5. p * P + i * B <= L /\ i * B = b + B
  <2>1. p * P + PieceLength(p) <= L /\ PieceLength(p) = Quot(p) * B + Rest(p)
    BY PieceLengthFacts, BlockFacts
  <2>2. i * B <= Quot(p) * B /\ i * B \in Int /\ Quot(p) * B \in Int
    BY <1>1, ProductOrder
  <2>3. i * B = b + B /\ p * P \in Int
    BY <1>1
  <2> QED
    BY <1>1, <2>1, <2>2, <2>3
<1>6. p * k \in Nat /\ b \in Nat /\ u \in Nat /\ p * P \in Nat
  <2>1. p * k \in Nat
    BY <1>1, Product
  <2> HIDE DEF k
  <2> QED
    BY <1>1, <2>1, Product
<1>7. (p * k + (i - 1)) * B = u + b
  <2> DEFINE a == p * k
  <2>1. a \in Nat
    BY <1>6
  <2> HIDE DEF a
  <2>2. (a + (i - 1)) * B = a * B + b
    BY <1>1, <2>1
  <2> QED
    BY <2>2 DEF a
<1>8. u <= p * P
  <2>1. CASE p = 0
    <3>1. p * k = 0 /\ 0 * B = 0
      BY <1>1, <2>1
    <3> QED
      BY <1>6, <3>1
  <2>2. CASE p # 0
    <3>1. p * k <= p * z /\ p * z \in Int
      <4>1. k * p <= z * p /\ k * p = p * k /\ z * p = p * z
        BY <1>1, <1>3, <2>2, ProductOrder, Product
      <4> QED
        BY <1>1, <1>3, <4>1
    <3>2. (p * k) * B <= (p * z) * B
      BY <1>1, <1>6, <3>1, ProductOrder
    <3>3. (p * z) * B = p * (z * B)
      BY <1>1, <1>3
    <3> QED
      BY <1>4, <2>2, <3>2, <3>3
  <2> QED
    BY <2>1, <2>2
<1> HIDE DEF u, b, P, L, B
<1>9. u + b < L
  BY <1>1, <1>5, <1>6, <1>8
<1> QED
  BY <1>7, <1>9 DEF L, B

-----------------------------------------------------------------------------
(* What the invariant says about messages and the file *)

LEMMA StartedSafe ==
    ASSUME Started
    PROVE  Safe /\ FileUnlessShort
<1>1. \A m \in wire : m.kind # "PIECE"
  BY DEF Started
<1>2. total = 0 /\ final = <<>>
  BY DEF Started
<1> QED
  BY <1>1, <1>2 DEF Safe, AnswersAreExact, AnswerFindsItsSlot, AsksForWhatIsThere,
                    FileIdentical, FileUnlessShort

(* What is not fetched from a seeding source yet comes after the first piece. *)
LEMMA FirstIsMarked ==
    ASSUME Typed, IsSeeding, NEW c \in done, OrderPart(c)
    PROVE  /\ 0 \in Pieces /\ c \in Pieces
           /\ c # 0 => 0 \in marked
           /\ c = 0 => marked = {}
<1>1. 0 \in Pieces /\ done \in SUBSET Nat /\ done = Pieces
  BY Shape DEF Pieces, IsSeeding
<1>2. ToSet(queue) = {queue[k] : k \in 1 .. Len(queue)}
  BY ToSetIndexed DEF OrderPart
<1>3. 0 \notin ToSet(queue)
  BY <1>1, <1>2 DEF OrderPart
<1>4. marked \subseteq done
  BY DEF OrderPart
<1>5. c # 0 => 0 \in marked
  BY <1>1, <1>3 DEF OrderPart
<1>6. c = 0 => marked = {}
  BY <1>1, <1>4 DEF OrderPart
<1> QED
  BY <1>1, <1>5, <1>6

LEMMA AnswersOf ==
    ASSUME Typed, OrdinarySizes, NEW c \in done, NEW n \in 0 .. BlockCount(c),
           NEW A, NEW S, NEW G, Working(c, n, A, S, G),
           NEW m \in wire, m.kind = "PIECE", m.buff # <<>>
    PROVE  /\ IsSeeding
           /\ \E i \in S : /\ i \in 1 .. Quot(c) /\ m = Ans(c, i)
                           /\ m.piece = c /\ m.begin = Asked(c, i).begin /\ m.buff = Bytes(c, i)
                           /\ Asked(c, i) \in requested /\ Asked(c, i).piece = c
<1>1. c \in Pieces
  BY DEF Typed
<1>2. /\ n \in Nat /\ A \subseteq 1 .. n /\ S \subseteq 1 .. n /\ 1 .. n \subseteq 1 .. BlockCount(c)
      /\ S \subseteq 1 .. Quot(c)
  <2>1. BlockCount(c) \in Nat
    BY <1>1, QuotWithin
  <2>2. n \in Nat /\ 1 .. n \subseteq 1 .. BlockCount(c)
    BY <2>1
  <2> QED
    BY <2>2 DEF Working, WirePart
<1>3. wire = {Req(c, i) : i \in A} \cup {Ans(c, i) : i \in S}
  BY DEF Working, WirePart
<1>4. \A i \in A : Req(c, i).kind = "REQUEST"
  BY <1>1, <1>2, MessageFacts
<1>5. PICK i \in S : m = Ans(c, i)
  BY <1>3, <1>4
<1>6. /\ m.piece = c /\ m.begin = Asked(c, i).begin
      /\ m.buff = IF IsSeeding THEN Bytes(c, i) ELSE <<>>
  BY <1>1, <1>2, <1>5, MessageFacts
<1>7. IsSeeding
  BY <1>6
<1>8. Asked(c, i) \in requested /\ Asked(c, i).piece = c
  BY <1>1, <1>2, AskedDistinct DEF Working, AskedPart
<1> QED
  BY <1>2, <1>5, <1>6, <1>7, <1>8

LEMMA WorkingSafe ==
    ASSUME Typed, OrdinarySizes, NEW c \in done, NEW n \in 0 .. BlockCount(c),
           NEW A, NEW S, NEW G, Working(c, n, A, S, G)
    PROVE  Safe /\ FileUnlessShort
<1>1. c \in Pieces /\ BlockCount(c) \in Nat \ {0} /\ n \in Nat
  BY QuotWithin DEF Typed
<1>2. AnswersAreExact
  <2> SUFFICES ASSUME NEW m \in wire, m.kind = "PIECE", m.buff # <<>>
               PROVE  \E b \in requested :
                         /\ b.piece = m.piece /\ b.begin = m.begin
                         /\ (m.buff = Content(b.piece, b.begin, b.length)) <=> LikeTheFirst(m.piece)
    BY DEF AnswersAreExact
  <2>1. PICK i \in S :
            /\ i \in 1 .. Quot(c) /\ m.piece = c /\ m.begin = Asked(c, i).begin
            /\ m.buff = Bytes(c, i) /\ Asked(c, i) \in requested /\ Asked(c, i).piece = c
    BY AnswersOf
  <2>2. IsSeeding
    BY AnswersOf
  <2>3. c # 0 => Rest(0) = 0
    <3>1. c # 0 => 0 \in marked
      BY <2>2, FirstIsMarked DEF Working
    <3> QED
      BY <3>1 DEF Working, CountPart
  <2>4. Asked(c, i).begin = (i - 1) * BlockLength /\ Asked(c, i).length = BlockLength
    BY <1>1, <2>1, RegularAsked
  <2>5. (m.buff = Content(c, Asked(c, i).begin, Asked(c, i).length)) <=> LikeTheFirst(c)
    BY <1>1, <2>1, <2>3, <2>4, ExactBytes
  <2> QED
    BY <2>1, <2>5
<1>3. AnswerFindsItsSlot
  <2> SUFFICES ASSUME NEW m \in wire, m.kind = "PIECE", m.buff # <<>>
               PROVE  \E b \in requested :
                         b.piece = m.piece /\ b.begin = m.begin /\ b.idx = AnswerIdx(m)
    BY DEF AnswerFindsItsSlot
  <2>1. PICK i \in S :
            /\ i \in 1 .. Quot(c) /\ m = Ans(c, i) /\ m.piece = c /\ m.begin = Asked(c, i).begin
            /\ Asked(c, i) \in requested /\ Asked(c, i).piece = c
    BY AnswersOf
  <2>2. IsSeeding
    BY AnswersOf
  <2>3. Asked(c, i).idx = i - 1 /\ AnswerIdx(m) = i - 1
    BY <1>1, <2>1, <2>2, RegularAsked, AnswerIndex
  <2> QED
    BY <2>1, <2>3
<1>4. AsksForWhatIsThere
  <2> DEFINE asks == {b.piece : b \in requested \cup ToSet(todo)}
  <2>1. ToSet(todo) = {Asked(c, n + k) : k \in 1 .. BlockCount(c) - n}
    BY DEF Working, WirePart, ToSet
  <2>2. \A b \in ToSet(todo) : b.piece = c
    <3>1. \A k \in 1 .. BlockCount(c) - n : n + k \in 1 .. BlockCount(c)
      BY <1>1
    <3> QED
      BY <1>1, <2>1, <3>1, AskedDistinct
  <2>3. asks \subseteq marked \cup {c}
    BY <2>2 DEF Working, AskedPart
  <2>4. \A p \in marked : p \in asks
    <3>1. \A p \in marked : p \in Pieces /\ Asked(p, 1) \in requested /\ 1 \in 1 .. BlockCount(p)
      BY QuotWithin DEF Working, OrderPart, AskedPart, Typed
    <3> QED
      BY <3>1, AskedDistinct
  <2>5. c \in asks
    <3>1. Asked(c, 1).piece = c
      BY <1>1, AskedDistinct
    <3>2. CASE n = 0
      <4>1. 1 \in 1 .. BlockCount(c) - n /\ n + 1 = 1
        BY <1>1, <3>2
      <4> QED
        BY <2>1, <3>1, <4>1
    <3>3. CASE n # 0
      <4>1. 1 \in 1 .. n
        BY <1>1, <3>3
      <4> QED
        BY <3>1, <4>1 DEF Working, AskedPart
    <3> QED
      BY <3>2, <3>3
  <2>6. asks = marked \cup {c}
    BY <2>3, <2>4, <2>5
  <2> QED
    BY <2>6 DEF AsksForWhatIsThere, Working, OrderPart
<1>5. final = <<>>
  BY DEF Working, SavedPart
<1>6. FileUnlessShort
  <2> SUFFICES ASSUME wire = {}, todo = <<>>, IsSeeding, \A p \in Pieces : LikeTheFirst(p)
               PROVE  FALSE
    BY <1>5 DEF FileUnlessShort
  <2>1. n = BlockCount(c)
    <3>1. DOMAIN todo = {} /\ DOMAIN todo = 1 .. BlockCount(c) - n
      BY DEF Working, WirePart
    <3> QED
      BY <1>1, <3>1
  <2>2. A = {} /\ S = {} /\ G = 1 .. n
    <3>1. /\ {} = {Req(c, i) : i \in A} \cup {Ans(c, i) : i \in S}
          /\ A \cup S \cup G = 1 .. n
      BY DEF Working, WirePart
    <3>2. (\A i \in A : FALSE) /\ (\A i \in S : FALSE)
      BY <3>1, Zenon
    <3> QED
      BY <3>1, <3>2
  <2>3. Cardinality(G) = n
    <3>1. Cardinality(1 .. n) = IF 1 > n THEN 0 ELSE n - 1 + 1
      BY <1>1, FS_Interval
    <3> QED
      BY <1>1, <2>1, <2>2, <3>1
  <2>4. BlockCount(c) = total
    <3>1. /\ c \in Pieces /\ 0 \in Pieces
          /\ c # 0 => 0 \in marked
          /\ c = 0 => marked = {}
      BY FirstIsMarked DEF Working
    <3>2. BlockCount(c) = BlockCount(0)
      BY <3>1 DEF LikeTheFirst
    <3> QED
      BY <3>1, <3>2 DEF Working, CountPart
  <2> QED
    BY <1>1, <2>1, <2>3, <2>4 DEF Working, CountPart
<1> QED
  BY <1>2, <1>3, <1>4, <1>5, <1>6 DEF Safe, FileIdentical

LEMMA FinishedSafe ==
    ASSUME Typed, OrdinarySizes, Finished
    PROVE  Safe /\ FileUnlessShort
<1>1. AnswersAreExact /\ AnswerFindsItsSlot
  BY DEF Finished, AnswersAreExact, AnswerFindsItsSlot
<1>2. AsksForWhatIsThere
  <2> DEFINE asks == {b.piece : b \in requested \cup ToSet(todo)}
  <2>1. ToSet(todo) = {} /\ ToSet(queue) = {}
    BY ToSetEmpty DEF Finished
  <2>2. asks \subseteq done
    BY <2>1 DEF Finished
  <2>3. \A p \in done : p \in asks
    <3>1. \A p \in done : p \in Pieces /\ Asked(p, 1) \in requested /\ 1 \in 1 .. BlockCount(p)
      BY QuotWithin DEF Finished, Typed
    <3> QED
      BY <3>1, AskedDistinct
  <2> QED
    BY <2>1, <2>2, <2>3 DEF AsksForWhatIsThere
<1>3. FileIdentical
  BY DEF Finished, FileIdentical
<1>4. final # <<>>
  <2>1. DOMAIN final = 1 .. torrent.length /\ torrent.length \in Nat \ {0}
    BY Shape DEF Finished
  <2>2. 1 \in DOMAIN final
    BY <2>1
  <2> QED
    BY <2>2
<1>5. FileUnlessShort
  BY <1>4 DEF FileUnlessShort, Finished
<1> QED
  BY <1>1, <1>2, <1>3, <1>5 DEF Safe

LEMMA InvSafe ==
    ASSUME OrdinarySizes, TransferInv
    PROVE  Safe /\ FileUnlessShort
<1>1. CASE failure # "none"
  BY <1>1 DEF TransferInv, FileUnlessShort
<1>2. CASE failure = "none" /\ Fetching
  <2>1. Typed
    BY DEF TransferInv
  <2>2. PICK c \in done : \E n \in 0 .. BlockCount(c) : \E A, S, G : Working(c, n, A, S, G)
    BY <1>2 DEF Fetching
  <2> QED
    BY <2>1, <2>2, WorkingSafe
<1>3. CASE failure = "none" /\ ~Fetching
  BY <1>3, StartedSafe, FinishedSafe DEF TransferInv
<1> QED
  BY <1>1, <1>2, <1>3

-----------------------------------------------------------------------------
(* The assembled file *)

(* A set of natural numbers has a least element: induction, for operators  *)
(* and recursive functions.                                                *)
LEMMA LeastNatural ==
    ASSUME NEW T \in SUBSET Nat, T # {}
    PROVE  \E x \in T : \A y \in T : x <= y
<1> DEFINE R == OpToRel(<, Nat)
<1>1. IsWellFoundedOn(R, Nat)
  BY NatLessThanWellFounded
<1>2. \A x, y \in Nat : <<y, x>> \in R <=> y < x
  BY DEF OpToRel
<1> HIDE DEF R
<1>3. PICK x \in T : \A y \in T : ~(<<y, x>> \in R)
  BY <1>1, WFMin
<1>4. \A y \in T : ~(y < x)
  BY <1>2, <1>3
<1> QED
  BY <1>4

(* FlattenSeq is recursive: any function that satisfies its equation gives *)
(* its value.                                                              *)
LEMMA FlattenFacts ==
    ASSUME NEW parts, Len(parts) \in Nat \ {0}, NEW w,
           w = [k \in 1 .. Len(parts) |-> w[k]],
           w[1] = parts[1], \A k \in 2 .. Len(parts) : w[k] = w[k - 1] \o parts[k]
    PROVE  FlattenSeq(parts) = w[Len(parts)]
<1> DEFINE n == Len(parts)
           P(f) == f = [k \in 1 .. n |-> IF k = 1 THEN parts[k] ELSE f[k - 1] \o parts[k]]
           file == CHOOSE f : P(f)
<1>1. n \in Nat \ {0}
  OBVIOUS
<1>2. FlattenSeq(parts) = file[n]
  BY <1>1 DEF FlattenSeq
<1> HIDE DEF n
<1>3. P(w)
  <2>1. ASSUME NEW k \in 1 .. n
        PROVE  w[k] = IF k = 1 THEN parts[k] ELSE w[k - 1] \o parts[k]
    <3>1. CASE k = 1
      BY <3>1
    <3>2. CASE k # 1
      <4>1. k \in 2 .. n
        BY <1>1, <3>2
      <4>2. w[k] = w[k - 1] \o parts[k]
        BY <4>1 DEF n
      <4> QED
        BY <3>2, <4>2
    <3> QED
      BY <3>1, <3>2
  <2>2. w = [k \in 1 .. n |-> w[k]]
    BY DEF n
  <2>3. [k \in 1 .. n |-> w[k]]
            = [k \in 1 .. n |-> IF k = 1 THEN parts[k] ELSE w[k - 1] \o parts[k]]
    BY <2>1
  <2> QED
    BY <2>2, <2>3
<1>4. P(file)
  BY <1>3
<1> HIDE DEF file
<1>5. \A k \in 1 .. n : file[k] = IF k = 1 THEN parts[k] ELSE file[k - 1] \o parts[k]
  BY <1>4
<1> DEFINE T == {k \in 1 .. n : file[k] # w[k]}
<1>6. T = {}
  <2> SUFFICES ASSUME T # {} PROVE FALSE
    OBVIOUS
  <2>1. PICK k \in T : \A y \in T : k <= y
    <3>1. T \in SUBSET Nat
      BY <1>1
    <3> QED
      BY <3>1, LeastNatural
  <2>2. k # 1
    BY <1>1, <1>5
  <2>3. k \in 2 .. n /\ k - 1 \in 1 .. n /\ ~(k <= k - 1)
    BY <1>1, <2>2
  <2>4. file[k - 1] = w[k - 1]
    BY <2>1, <2>3
  <2>5. file[k] = file[k - 1] \o parts[k]
    BY <1>5, <2>2
  <2>6. w[k] = w[k - 1] \o parts[k]
    BY <2>3 DEF n
  <2> QED
    BY <2>4, <2>5, <2>6
<1>7. n \in 1 .. n
  BY <1>1
<1>8. file[n] = w[n]
  BY <1>6, <1>7
<1> QED
  BY <1>2, <1>8 DEF n

(* Blocks of K to a piece, in the order of their names.                    *)
Grid(N, K) == (0 .. N - 1) \X (0 .. K - 1)
Place(K, k) == <<k \div K, k % K>>
Index(K, x) == x[1] * K + x[2]

LEMMA PlaceFacts ==
    ASSUME NEW N \in Nat, NEW K \in Nat \ {0}, NEW k \in 0 .. N * K - 1
    PROVE  Place(K, k) \in Grid(N, K) /\ Index(K, Place(K, k)) = k
<1> DEFINE d == k \div K
           r == k % K
<1>1. N * K \in Nat
  BY Product
<1>2. k \in Nat /\ k < N * K
  BY <1>1
<1>3. d \in Nat /\ r \in 0 .. K - 1 /\ k = d * K + r
  BY <1>2, DivModNat
<1>4. Place(K, k) = <<d, r>>
  BY DEF Place
<1> HIDE DEF d, r
<1>5. d * K < N * K
  <2>1. d * K \in Nat
    BY <1>3, Product
  <2> QED
    BY <1>1, <1>2, <1>3, <2>1
<1>6. d < N
  BY <1>3, <1>5, ProductOrder
<1>7. d \in 0 .. N - 1
  BY <1>3, <1>6
<1> QED
  BY <1>3, <1>4, <1>7 DEF Grid, Index

LEMMA IndexFacts ==
    ASSUME NEW N \in Nat, NEW K \in Nat \ {0}, NEW x \in Grid(N, K)
    PROVE  Index(K, x) \in 0 .. N * K - 1 /\ Place(K, Index(K, x)) = x
<1> PICK d \in 0 .. N - 1, r \in 0 .. K - 1 : x = <<d, r>>
  BY DEF Grid
<1>1. d \in Nat /\ r \in Nat /\ d * K \in Nat /\ N * K \in Nat
  BY Product
<1>2. Index(K, x) = d * K + r
  BY DEF Index
<1>3. (d + 1) * K <= N * K
  BY <1>1, ProductOrder
<1>4. (d + 1) * K = d * K + K
  BY <1>1
<1>5. d * K + r \in 0 .. N * K - 1
  BY <1>1, <1>3, <1>4
<1> DEFINE a == d * K + r
<1>6. a \in Int /\ a = d * K + r /\ d \in Int
  BY <1>1
<1> HIDE DEF a
<1>7. a \div K = d /\ a % K = r
  BY <1>6, DivModUnique
<1> QED
  BY <1>2, <1>5, <1>7 DEF a, Place

LEMMA IndexOrder ==
    ASSUME NEW N \in Nat, NEW K \in Nat \ {0}, NEW x \in Grid(N, K), NEW y \in Grid(N, K)
    PROVE  ByName(x, y) <=> Index(K, x) < Index(K, y)
<1> PICK d \in 0 .. N - 1, r \in 0 .. K - 1 : x = <<d, r>>
  BY DEF Grid
<1> PICK e \in 0 .. N - 1, s \in 0 .. K - 1 : y = <<e, s>>
  BY DEF Grid
<1>1. Index(K, x) = d * K + r /\ Index(K, y) = e * K + s
  BY DEF Index
<1>2. ByName(x, y) <=> (d < e \/ (d = e /\ r < s))
  BY DEF ByName
<1>3. d \in Nat /\ e \in Nat /\ r \in Nat /\ s \in Nat /\ d * K \in Nat /\ e * K \in Nat
  BY Product
<1>4. (d + 1) * K = d * K + K /\ (e + 1) * K = e * K + K
  BY <1>3
<1>5. CASE d < e
  <2>1. (d + 1) * K <= e * K
    BY <1>3, <1>5, ProductOrder
  <2>2. d * K + r < e * K + s
    BY <1>3, <1>4, <2>1
  <2> QED
    BY <1>1, <1>2, <1>5, <2>2
<1>6. CASE e < d
  <2>1. (e + 1) * K <= d * K
    BY <1>3, <1>6, ProductOrder
  <2>2. ~(d * K + r < e * K + s) /\ ~(d < e) /\ d # e
    BY <1>3, <1>4, <1>6, <2>1
  <2> QED
    BY <1>1, <1>2, <2>2
<1>7. CASE d = e
  <2>1. (d * K + r < e * K + s) <=> r < s
    BY <1>3, <1>7
  <2>2. ~(d < e)
    BY <1>3, <1>7
  <2> QED
    BY <1>1, <1>2, <1>7, <2>1, <2>2
<1> QED
  BY <1>3, <1>5, <1>6, <1>7

(* As many names come before a name as its index says. *)
LEMMA NamesBefore ==
    ASSUME NEW N \in Nat, NEW K \in Nat \ {0}, NEW m \in 0 .. N * K
    PROVE  LET T == {x \in Grid(N, K) : Index(K, x) < m}
           IN  IsFiniteSet(T) /\ Cardinality(T) = m
<1> DEFINE T == {x \in Grid(N, K) : Index(K, x) < m}
           U == 0 .. m - 1
           g == [k \in U |-> Place(K, k)]
<1>1. N * K \in Nat /\ m \in Nat
  BY Product
<1>2. \A k \in U : k \in 0 .. N * K - 1
  BY <1>1
<1>3. \A k \in U : Place(K, k) \in T /\ Index(K, Place(K, k)) = k
  BY <1>1, <1>2, PlaceFacts
<1>4. g \in [U -> T]
  BY <1>3
<1>5. \A j, k \in U : g[j] = g[k] => j = k
  BY <1>3
<1>6. \A x \in T : Index(K, x) \in U /\ g[Index(K, x)] = x
  <2> SUFFICES ASSUME NEW x \in T PROVE Index(K, x) \in U /\ g[Index(K, x)] = x
    OBVIOUS
  <2>1. Index(K, x) \in 0 .. N * K - 1 /\ Place(K, Index(K, x)) = x /\ Index(K, x) < m
    BY IndexFacts
  <2>2. Index(K, x) \in U
    BY <1>1, <2>1
  <2> QED
    BY <2>1, <2>2
<1>7. g \in Bijection(U, T)
  BY <1>4, <1>5, <1>6 DEF Bijection, Injection, Surjection, IsInjective
<1>8. ExistsBijection(U, T)
  BY <1>7 DEF ExistsBijection
<1>9. IsFiniteSet(U) /\ Cardinality(U) = m
  <2>1. Cardinality(U) = IF 0 > m - 1 THEN 0 ELSE (m - 1) - 0 + 1
    BY <1>1, FS_Interval
  <2>2. IsFiniteSet(U)
    BY <1>1, FS_Interval
  <2> QED
    BY <1>1, <2>1, <2>2
<1> HIDE DEF T, U
<1>10. IsFiniteSet(T) /\ Cardinality(T) = m
  BY <1>8, <1>9, FS_Bijection
<1> QED
  BY <1>10 DEF T

LEMMA SortedGrid ==
    ASSUME NEW N \in Nat, NEW K \in Nat \ {0}
    PROVE  SortedNames(Grid(N, K)) = [k \in 1 .. N * K |-> Place(K, k - 1)]
<1> DEFINE names == Grid(N, K)
<1>1. N * K \in Nat /\ N * K \in 0 .. N * K
  BY Product
<1>2. Cardinality(names) = N * K
  <2>1. names = {x \in names : Index(K, x) < N * K}
    BY <1>1, IndexFacts
  <2> HIDE DEF names
  <2> QED
    BY <1>1, <2>1, NamesBefore DEF names
<1>3. ASSUME NEW n \in names
      PROVE  Cardinality({x \in names : ByName(x, n)}) = Index(K, n)
  <2>1. {x \in names : ByName(x, n)} = {x \in names : Index(K, x) < Index(K, n)}
    BY IndexOrder
  <2>2. Index(K, n) \in 0 .. N * K
    BY <1>1, IndexFacts
  <2> QED
    BY <2>1, <2>2, NamesBefore
<1>4. ASSUME NEW k \in 1 .. N * K
      PROVE  (CHOOSE n \in names : Cardinality({x \in names : ByName(x, n)}) = k - 1)
                 = Place(K, k - 1)
  <2>1. k - 1 \in 0 .. N * K - 1
    BY <1>1
  <2>2. Place(K, k - 1) \in names /\ Index(K, Place(K, k - 1)) = k - 1
    BY <2>1, PlaceFacts
  <2>3. \A n \in names : Index(K, n) = k - 1 => n = Place(K, k - 1)
    BY IndexFacts
  <2> HIDE DEF names
  <2>4. \A n \in names :
            Cardinality({x \in names : ByName(x, n)}) = k - 1 <=> n = Place(K, k - 1)
    BY <1>3, <2>2, <2>3
  <2> QED
    BY <2>2, <2>4
<1> QED
  BY <1>2, <1>4 DEF SortedNames

LEMMA Continued ==
    ASSUME NEW m \in Nat, NEW n \in Nat
    PROVE  /\ [j \in 1 .. m |-> j] \o [j \in 1 .. n |-> m + j] = [j \in 1 .. m + n |-> j]
<1> DEFINE s == [j \in 1 .. m |-> j]
           t == [j \in 1 .. n |-> m + j]
           u == [j \in 1 .. m + n |-> j]
<1>1. s \in Seq(Nat) /\ t \in Seq(Nat) /\ Len(s) = m /\ Len(t) = n
  <2>1. s \in [1 .. m -> Nat] /\ t \in [1 .. n -> Nat]
    OBVIOUS
  <2> QED
    BY <2>1, IsASeq, LenProperties
<1>2. \A j \in 1 .. m : s[j] = j
  OBVIOUS
<1>3. \A j \in 1 .. n : t[j] = m + j
  OBVIOUS
<1> HIDE DEF s, t
<1>4. /\ s \o t \in Seq(Nat) /\ Len(s \o t) = m + n
      /\ \A i \in 1 .. m + n : (s \o t)[i] = IF i <= m THEN s[i] ELSE t[i - m]
  BY <1>1, ConcatProperties
<1>5. \A i \in 1 .. m + n : (s \o t)[i] = i
  <2> SUFFICES ASSUME NEW i \in 1 .. m + n PROVE (s \o t)[i] = i
    OBVIOUS
  <2>1. CASE i <= m
    BY <1>2, <1>4, <2>1
  <2>2. CASE ~(i <= m)
    <3>1. i - m \in 1 .. n /\ m + (i - m) = i
      BY <2>2
    <3> QED
      BY <1>3, <1>4, <2>2, <3>1
  <2> QED
    BY <2>1, <2>2
<1>6. s \o t = [i \in 1 .. m + n |-> (s \o t)[i]]
  BY <1>4, LenProperties
<1> QED
  BY <1>5, <1>6 DEF s, t

(* Equal pieces of whole blocks make up the torrent. *)
LEMMA WholeTorrent ==
    ASSUME Typed, NEW K \in Nat \ {0},
           \A p \in Pieces : BlockCount(p) = K /\ Rest(p) = 0
    PROVE  /\ torrent.length = (NumPieces * K) * BlockLength
           /\ torrent.pieceLength = K * BlockLength \/ NumPieces = 1
<1> DEFINE p == NumPieces - 1
           P == torrent.pieceLength
           B == BlockLength
           N == NumPieces
<1>1. N \in Nat \ {0} /\ p \in Pieces /\ p \in Nat /\ B \in Nat \ {0} /\ P \in Nat \ {0} /\ 0 \in Pieces
  BY TransferAssumption, Shape DEF Pieces
<1>2. torrent.length = p * P + PieceLength(p)
  BY <1>1, PieceLengthFacts
<1>3. \A q \in Pieces : PieceLength(q) = K * B
  <2> SUFFICES ASSUME NEW q \in Pieces PROVE PieceLength(q) = K * B
    OBVIOUS
  <2>1. BlockCount(q) = K /\ Rest(q) = 0
    OBVIOUS
  <2>2. Quot(q) = K /\ PieceLength(q) = Quot(q) * B + Rest(q)
    BY <2>1, BlockFacts, QuotWithin
  <2>3. K * B \in Nat
    BY <1>1, Product
  <2> QED
    BY <2>1, <2>2, <2>3
<1>4. CASE N = 1
  <2>1. p = 0 /\ p * P = 0 /\ N * K = K
    BY <1>1, <1>4
  <2>2. K * B \in Nat
    BY <1>1, Product
  <2> QED
    BY <1>1, <1>2, <1>3, <1>4, <2>1, <2>2
<1>5. CASE N # 1
  <2>1. PieceLength(0) = P
    BY <1>1, <1>5, PieceLengthFacts
  <2>2. P = K * B
    BY <1>1, <1>3, <2>1
  <2>3. torrent.length = p * (K * B) + K * B
    BY <1>1, <1>2, <1>3, <2>2
  <2>4. (N * K) * B = p * (K * B) + K * B
    <3> DEFINE u == K * B
    <3>1. (N * K) * B = N * u
      BY <1>1
    <3>2. u \in Nat
      BY <1>1, Product
    <3> HIDE DEF u
    <3>3. N * u = (N - 1) * u + u
      BY <1>1, <3>2
    <3> QED
      BY <3>1, <3>3 DEF u
  <2> QED
    BY <2>2, <2>3, <2>4
<1> QED
  BY <1>4, <1>5

(* Sorted by their names, the blocks are the file.                         *)
LEMMA AssembledFacts ==
    ASSUME Typed, NEW K \in Nat \ {0},
           \A p \in Pieces : BlockCount(p) = K /\ Rest(p) = 0,
           NEW blocks, DOMAIN blocks = Pieces \X (0 .. K - 1),
           \A x \in DOMAIN blocks : blocks[x] = Bytes(x[1], x[2] + 1)
    PROVE  Assembled(blocks) = [i \in 1 .. torrent.length |-> i]
<1> DEFINE B == BlockLength
           N == NumPieces
           M == N * K
           L == torrent.length
           names == SortedNames(DOMAIN blocks)
           parts == [k \in DOMAIN names |-> blocks[names[k]]]
<1>1. N \in Nat \ {0} /\ B \in Nat \ {0} /\ M \in Nat \ {0}
  <2>1. N \in Nat \ {0} /\ B \in Nat \ {0}
    BY TransferAssumption, Shape
  <2> HIDE DEF N
  <2>2. M \in Nat \ {0}
    BY <2>1
  <2> QED
    BY <2>1, <2>2
<1>2. L = M * B
  <2>1. Typed /\ \A p \in Pieces : BlockCount(p) = K /\ Rest(p) = 0
    OBVIOUS
  <2>2. torrent.length = (NumPieces * K) * BlockLength
    BY <2>1, WholeTorrent, Zenon
  <2> QED
    BY <2>2, Zenon
<1>3. DOMAIN blocks = Grid(N, K)
  BY DEF Grid, Pieces
<1>4. names = [k \in 1 .. M |-> Place(K, k - 1)]
  <2>1. N \in Nat /\ K \in Nat \ {0}
    BY <1>1
  <2> HIDE DEF N
  <2>2. SortedNames(Grid(N, K)) = [k \in 1 .. N * K |-> Place(K, k - 1)]
    BY <2>1, SortedGrid, Zenon
  <2>3. names = SortedNames(Grid(N, K))
    BY <1>3, Zenon
  <2> QED
    BY <2>2, <2>3, Zenon
<1>5. Assembled(blocks) = FlattenSeq(parts)
  BY DEF Assembled
<1>6. DOMAIN names = 1 .. M /\ \A k \in 1 .. M : names[k] = Place(K, k - 1)
  BY <1>4
<1> HIDE DEF names
<1>7. parts = [k \in 1 .. M |-> blocks[Place(K, k - 1)]]
  BY <1>6
<1> HIDE DEF parts
<1>8. ASSUME NEW k \in 1 .. M
      PROVE  blocks[Place(K, k - 1)] = [j \in 1 .. B |-> (k - 1) * B + j]
  <2> DEFINE x == Place(K, k - 1)
             p == x[1]
             r == x[2]
             b == (k - 1) * B
  <2>1. k - 1 \in 0 .. N * K - 1
    BY <1>1
  <2>2. x \in Grid(N, K) /\ Index(K, x) = k - 1
    BY <1>1, <2>1, PlaceFacts
  <2> HIDE DEF x
  <2>3. p \in Pieces /\ r \in 0 .. K - 1 /\ p * K + r = k - 1
    BY <2>2 DEF Grid, Pieces, Index
  <2>4. BlockCount(p) = K /\ Quot(p) = K
    BY <2>3, QuotWithin
  <2>5. r + 1 \in 1 .. Quot(p) /\ (r + 1) - 1 = r
    BY <2>3, <2>4
  <2>6. blocks[x] = Bytes(p, r + 1)
    BY <1>3, <2>2
  <2>7. Bytes(p, r + 1) = [j \in 1 .. B |-> IF b + j <= L THEN b + j ELSE 0]
    <3>1. (p * BlockCount(p) + ((r + 1) - 1)) * B = b
      BY <2>3, <2>4, <2>5
    <3> DEFINE i == r + 1
    <3>2. i \in 1 .. Quot(p)
      BY <2>5
    <3> HIDE DEF p, i
    <3>3. Bytes(p, i) = [j \in 1 .. B |->
             IF (p * BlockCount(p) + (i - 1)) * B + j <= L
             THEN (p * BlockCount(p) + (i - 1)) * B + j ELSE 0]
      BY <2>3, <3>2, BytesFacts
    <3>4. (p * BlockCount(p) + (i - 1)) * B = b
      BY <3>1 DEF i
    <3> HIDE DEF b
    <3>5. Bytes(p, i) = [j \in 1 .. B |-> IF b + j <= L THEN b + j ELSE 0]
      BY <3>3, <3>4
    <3> QED
      BY <3>5 DEF i
  <2>8. \A j \in 1 .. B : b + j <= L
    <3>1. k * B <= M * B /\ k * B = b + B /\ k * B \in Int /\ b \in Int
      BY <1>1, ProductOrder
    <3> HIDE DEF b, M
    <3> QED
      BY <1>1, <1>2, <3>1, Shape
  <2>9. [j \in 1 .. B |-> IF b + j <= L THEN b + j ELSE 0] = [j \in 1 .. B |-> b + j]
    BY <2>8
  <2> QED
    BY <2>6, <2>7, <2>9 DEF x
<1>9. parts = [k \in 1 .. M |-> [j \in 1 .. B |-> (k - 1) * B + j]]
  BY <1>7, <1>8
<1> DEFINE w == [k \in 1 .. M |-> [j \in 1 .. k * B |-> j]]
<1>10. Len(parts) = M
  BY <1>1, <1>9
<1>11. w[1] = parts[1]
  <2>1. 1 \in 1 .. M /\ 1 * B = B /\ (1 - 1) * B = 0
    BY <1>1
  <2>2. w[1] = [j \in 1 .. B |-> j]
    BY <2>1
  <2>3. parts[1] = [j \in 1 .. B |-> 0 + j]
    BY <1>9, <2>1
  <2>4. \A j \in 1 .. B : 0 + j = j
    BY <1>1
  <2> HIDE DEF w
  <2> QED
    BY <2>2, <2>3, <2>4
<1>12. ASSUME NEW k \in 2 .. M
       PROVE  w[k] = w[k - 1] \o parts[k]
  <2> DEFINE m == (k - 1) * B
  <2>1. k \in 1 .. M /\ k - 1 \in 1 .. M /\ k - 1 \in Nat
    BY <1>1
  <2>2. m \in Nat /\ k * B = m + B
    BY <1>1, <2>1
  <2>3. w[k - 1] = [j \in 1 .. m |-> j] /\ parts[k] = [j \in 1 .. B |-> m + j]
    BY <1>9, <2>1
  <2>4. w[k] = [j \in 1 .. m + B |-> j]
    BY <2>1, <2>2
  <2> HIDE DEF m, w
  <2> QED
    BY <1>1, <2>2, <2>3, <2>4, Continued
<1>13. w = [k \in 1 .. Len(parts) |-> w[k]]
  BY <1>10
<1>14. w[M] = [j \in 1 .. M * B |-> j]
  BY <1>1
<1> HIDE DEF w, M, L
<1>15. FlattenSeq(parts) = w[Len(parts)]
  BY <1>1, <1>10, <1>11, <1>12, <1>13, FlattenFacts
<1> QED
  BY <1>2, <1>5, <1>10, <1>14, <1>15 DEF L

-----------------------------------------------------------------------------
(* Steps *)

(* Neither the torrent nor what the source has of it changes. *)
Still == torrent' = torrent /\ done' = done

LEMMA Frozen ==
    ASSUME Still
    PROVE  /\ NumPieces' = NumPieces /\ Pieces' = Pieces /\ MaxPieceIdx' = MaxPieceIdx
           /\ FieldBytes' = FieldBytes /\ IsSeeding' = IsSeeding /\ Typed' = Typed
<1>1. NumPieces' = NumPieces
  BY DEF Still, NumPieces, CeilDiv
<1>2. Pieces' = Pieces /\ MaxPieceIdx' = MaxPieceIdx
  BY <1>1 DEF Pieces, MaxPieceIdx
<1>3. FieldBytes' = FieldBytes
  BY <1>2 DEF FieldBytes, CeilDiv
<1>4. IsSeeding' = IsSeeding /\ Typed' = Typed
  BY <1>2 DEF IsSeeding, Typed, Still
<1> QED
  BY <1>1, <1>2, <1>3, <1>4

LEMMA FrozenPiece ==
    ASSUME Still, NEW p
    PROVE  /\ PieceLength(p)' = PieceLength(p) /\ PieceBlocks(p)' = PieceBlocks(p)
           /\ BlockCount(p)' = BlockCount(p) /\ Quot(p)' = Quot(p) /\ Rest(p)' = Rest(p)
           /\ LikeTheFirst(p)' = LikeTheFirst(p) /\ Whole(p)' = Whole(p)
           /\ \A i : Asked(p, i)' = Asked(p, i) /\ Req(p, i)' = Req(p, i)
           /\ \A i : Bytes(p, i)' = Bytes(p, i) /\ Ans(p, i)' = Ans(p, i)
           /\ \A b, l : Content(p, b, l)' = Content(p, b, l)
<1>1. ASSUME NEW q
      PROVE  /\ PieceLength(q)' = PieceLength(q) /\ PieceBlocks(q)' = PieceBlocks(q)
             /\ BlockCount(q)' = BlockCount(q)
  <2>1. PieceLength(q)' = PieceLength(q)
    BY Frozen DEF PieceLength, Still
  <2>2. PieceBlocks(q)' = PieceBlocks(q)
    BY <2>1 DEF PieceBlocks, Block, U32
  <2> QED
    BY <2>1, <2>2 DEF BlockCount
<1>2. Quot(p)' = Quot(p) /\ Rest(p)' = Rest(p) /\ Whole(p)' = Whole(p)
  BY <1>1 DEF Quot, Rest, Whole
<1>3. LikeTheFirst(p)' = LikeTheFirst(p)
  BY <1>1 DEF LikeTheFirst
<1>4. ASSUME NEW i
      PROVE  /\ Asked(p, i)' = Asked(p, i) /\ Req(p, i)' = Req(p, i)
             /\ Bytes(p, i)' = Bytes(p, i) /\ Ans(p, i)' = Ans(p, i)
  <2>1. Asked(p, i)' = Asked(p, i)
    BY <1>1 DEF Asked
  <2>2. Req(p, i)' = Req(p, i)
    BY <2>1 DEF Req, BuildPeerRequestMsg
  <2>3. Bytes(p, i)' = Bytes(p, i)
    BY <1>1 DEF Bytes, ReadFile, Still
  <2>4. Ans(p, i)' = Ans(p, i)
    BY <2>1, <2>3, Frozen DEF Ans, BuildPeerPieceMsg
  <2> QED
    BY <2>1, <2>2, <2>3, <2>4
<1>5. \A b, l : Content(p, b, l)' = Content(p, b, l)
  BY DEF Content, Still
<1> QED
  BY <1>1, <1>2, <1>3, <1>4, <1>5

(* A step that fails only takes messages away. *)
LEMMA FailingStep ==
    ASSUME OrdinarySizes, TransferInv, Still, wire' \subseteq wire,
           UNCHANGED <<requested, todo, queue, total, final>>
    PROVE  Safe'
<1>1. Safe
  BY InvSafe
<1>2. AnswersAreExact'
  <2> SUFFICES ASSUME NEW m \in wire', m.kind = "PIECE", m.buff # <<>>
               PROVE  \E b \in requested' :
                         /\ b.piece = m.piece /\ b.begin = m.begin
                         /\ (m.buff = Content(b.piece, b.begin, b.length)') <=> LikeTheFirst(m.piece)'
    BY DEF AnswersAreExact
  <2>1. PICK b \in requested :
            /\ b.piece = m.piece /\ b.begin = m.begin
            /\ (m.buff = Content(b.piece, b.begin, b.length)) <=> LikeTheFirst(m.piece)
    BY <1>1 DEF Safe, AnswersAreExact
  <2>2. Content(b.piece, b.begin, b.length)' = Content(b.piece, b.begin, b.length)
    BY FrozenPiece
  <2>3. LikeTheFirst(m.piece)' = LikeTheFirst(m.piece)
    BY FrozenPiece
  <2> QED
    BY <2>1, <2>2, <2>3
<1>3. AnswerFindsItsSlot'
  BY <1>1 DEF Safe, AnswerFindsItsSlot, AnswerIdx
<1>4. AsksForWhatIsThere'
  BY <1>1 DEF Safe, AsksForWhatIsThere, Still
<1>5. FileIdentical'
  BY <1>1 DEF Safe, FileIdentical, Still
<1> QED
  BY <1>2, <1>3, <1>4, <1>5 DEF Safe

LEMMA AscendingTail ==
    ASSUME NEW s \in Seq(Nat), s # <<>>,
           \A j, k \in 1 .. Len(s) : j < k => s[j] < s[k]
    PROVE  /\ Head(s) \in Nat /\ Tail(s) \in Seq(Nat)
           /\ \A j, k \in 1 .. Len(Tail(s)) : j < k => Tail(s)[j] < Tail(s)[k]
           /\ \A k \in 1 .. Len(Tail(s)) : Head(s) < Tail(s)[k]
           /\ ToSet(s) = {Head(s)} \cup ToSet(Tail(s))
<1>1. /\ Len(s) \in Nat \ {0} /\ Head(s) = s[1] /\ Tail(s) \in Seq(Nat)
      /\ Len(Tail(s)) = Len(s) - 1
      /\ \A k \in 1 .. Len(Tail(s)) : Tail(s)[k] = s[k + 1]
  BY HeadTailProperties, LenProperties
<1>2. \A k \in 1 .. Len(Tail(s)) : k + 1 \in 1 .. Len(s) /\ 1 < k + 1
  BY <1>1
<1>3. 1 \in 1 .. Len(s) /\ s[1] \in Nat
  BY <1>1, ElementOfSeq
<1>4. \A j, k \in 1 .. Len(Tail(s)) : j < k => Tail(s)[j] < Tail(s)[k]
  <2> SUFFICES ASSUME NEW j \in 1 .. Len(Tail(s)), NEW k \in 1 .. Len(Tail(s)), j < k
               PROVE  Tail(s)[j] < Tail(s)[k]
    OBVIOUS
  <2>1. j + 1 < k + 1
    OBVIOUS
  <2> QED
    BY <1>1, <1>2, <2>1
<1>5. \A k \in 1 .. Len(Tail(s)) : Head(s) < Tail(s)[k]
  BY <1>1, <1>2, <1>3
<1>6. ToSet(s) = {Head(s)} \cup ToSet(Tail(s))
  <2>1. ToSet(s) = {s[i] : i \in 1 .. Len(s)}
    BY ToSetIndexed
  <2>2. ToSet(Tail(s)) = {Tail(s)[i] : i \in 1 .. Len(Tail(s))}
    BY <1>1, ToSetIndexed
  <2>3. ASSUME NEW i \in 1 .. Len(s)
        PROVE  i = 1 \/ (i - 1 \in 1 .. Len(Tail(s)) /\ Tail(s)[i - 1] = s[i])
    <3>1. i = 1 \/ i - 1 \in 1 .. Len(Tail(s))
      BY <1>1
    <3>2. (i - 1) + 1 = i
      OBVIOUS
    <3> QED
      BY <1>1, <3>1, <3>2
  <2>4. ToSet(s) \subseteq {Head(s)} \cup ToSet(Tail(s))
    BY <1>1, <2>1, <2>2, <2>3
  <2>5. ToSet(Tail(s)) \subseteq ToSet(s)
    BY <1>1, <1>2, <2>1, <2>2
  <2>6. Head(s) \in ToSet(s)
    BY <1>1, <1>3, <2>1
  <2> QED
    BY <2>4, <2>5, <2>6
<1> QED
  BY <1>1, <1>3, <1>4, <1>5, <1>6

(* Asking for the first block of a piece is still to come. *)
LEMMA NextPiece ==
    ASSUME Typed, OrdinarySizes, Still,
           NEW s \in Seq(Nat), s # <<>>, \A j, k \in 1 .. Len(s) : j < k => s[j] < s[k],
           NEW M, marked' = M, done = M \cup ToSet(s), \A p \in M, k \in 1 .. Len(s) : p < s[k],
           queue' = Tail(s), todo' = PieceBlocks(Head(s)), wire' = {},
           NEW t \in Nat, total' = t, left' = t, \A p \in done : BlockCount(p) <= t,
           \A p \in M : BlockCount(p) = t /\ Rest(p) = 0,
           M = {} => BlockCount(Head(s)) = t, M # {} => IsSeeding,
           \A b \in requested' : b.piece \in M, \A p \in M : Asked(p, 1) \in requested',
           DOMAIN saved' = {x \in Pieces \X (0 .. t - 1) : x[1] \in M},
           \A x \in DOMAIN saved' : saved'[x] = Bytes(x[1], x[2] + 1),
           final' = <<>>
    PROVE  Fetching'
<1> DEFINE c == Head(s)
<1>1. /\ c \in Nat /\ Tail(s) \in Seq(Nat)
      /\ \A j, k \in 1 .. Len(Tail(s)) : j < k => Tail(s)[j] < Tail(s)[k]
      /\ \A k \in 1 .. Len(Tail(s)) : c < Tail(s)[k]
      /\ ToSet(s) = {c} \cup ToSet(Tail(s))
  BY AscendingTail
<1>2. c \in done /\ c \in Pieces /\ 1 \in 1 .. Len(s) /\ c = s[1]
  <2>1. c \in done
    BY <1>1
  <2>2. 1 \in 1 .. Len(s) /\ c = s[1]
    BY HeadTailProperties, LenProperties
  <2> QED
    BY <2>1, <2>2 DEF Typed
<1>3. BlockCount(c) \in Nat \ {0} /\ BlockCount(c)' = BlockCount(c) /\ Quot(c)' = Quot(c)
  BY <1>2, QuotWithin, FrozenPiece
<1> HIDE DEF c
<1>4. OrderPart(c)'
  <2>1. \A p \in marked' : p < c
    BY <1>2
  <2>2. done' = marked' \cup {c} \cup ToSet(queue)'
    BY <1>1 DEF Still, ToSet
  <2> QED
    BY <1>1, <1>2, <2>1, <2>2 DEF OrderPart, Still
<1>5. WirePart(c, 0, {}, {}, {})'
  <2>1. todo' = [k \in 1 .. BlockCount(c)' - 0 |-> Asked(c, 0 + k)']
    <3>1. todo' = [k \in 1 .. BlockCount(c) |-> Asked(c, k)]
      BY <1>2, BlockFacts DEF c
    <3>2. BlockCount(c)' - 0 = BlockCount(c)
      BY <1>3
    <3>3. \A k \in 1 .. BlockCount(c) : Asked(c, 0 + k)' = Asked(c, k)
      <4> SUFFICES ASSUME NEW k \in 1 .. BlockCount(c) PROVE Asked(c, 0 + k)' = Asked(c, k)
        OBVIOUS
      <4>1. Asked(c, 0 + k)' = Asked(c, 0 + k) /\ 0 + k = k
        BY <1>3, FrozenPiece
      <4> QED
        BY <4>1
    <3> QED
      BY <3>1, <3>2, <3>3
  <2>2. 0 \in 0 .. BlockCount(c)' /\ 1 .. 0 = {}
    BY <1>3
  <2> QED
    BY <2>1, <2>2 DEF WirePart
<1>6. CountPart(c, {})'
  <2>1. Cardinality({}) = 0
    BY FS_EmptySet
  <2>2. t >= 1 /\ t = t - 0
    BY <1>2, <1>3
  <2>3. \A p : BlockCount(p)' = BlockCount(p) /\ Rest(p)' = Rest(p)
    BY FrozenPiece
  <2>4. IsSeeding' = IsSeeding
    BY Frozen
  <2> QED
    BY <2>1, <2>2, <2>3, <2>4 DEF CountPart, Still, c
<1>7. AskedPart(c, 0)'
  <2>1. \A p : Asked(p, 1)' = Asked(p, 1)
    BY FrozenPiece
  <2>2. 1 .. 0 = {}
    OBVIOUS
  <2> QED
    BY <2>1, <2>2 DEF AskedPart
<1>8. SavedPart(c, {})'
  <2>1. Names(c, {})' = {x \in Pieces \X (0 .. t - 1) : x[1] \in M}
    BY Frozen DEF Names
  <2>2. \A x \in DOMAIN saved' : saved'[x] = Bytes(x[1], x[2] + 1)'
    <3> SUFFICES ASSUME NEW x \in DOMAIN saved' PROVE saved'[x] = Bytes(x[1], x[2] + 1)'
      OBVIOUS
    <3>1. Bytes(x[1], x[2] + 1)' = Bytes(x[1], x[2] + 1)
      BY FrozenPiece
    <3> QED
      BY <3>1
  <2> QED
    BY <2>1, <2>2 DEF SavedPart
<1>9. Working(c, 0, {}, {}, {})'
  BY <1>4, <1>5, <1>6, <1>7, <1>8 DEF Working
<1>10. c \in done' /\ 0 \in 0 .. BlockCount(c)' /\ {} \in SUBSET (1 .. 0)
  BY <1>2, <1>3 DEF Still
<1> QED
  BY <1>9, <1>10 DEF Fetching

LEMMA FetchingCounts ==
    ASSUME Typed, Fetching
    PROVE  total # 0
<1>1. PICK c \in done : \E n \in 0 .. BlockCount(c) : \E A, S, G : Working(c, n, A, S, G)
  BY DEF Fetching
<1>2. BlockCount(c) \in Nat \ {0} /\ BlockCount(c) <= total
  BY <1>1, QuotWithin DEF Typed, Working, CountPart
<1>3. total \in Nat
  BY <1>1 DEF Working, CountPart
<1> QED
  BY <1>2, <1>3

LEMMA FetchingMessages ==
    ASSUME Typed, OrdinarySizes, Fetching, NEW m \in wire
    PROVE  m.kind # "BITFIELD"
<1>1. PICK c \in done : \E n \in 0 .. BlockCount(c) : \E A, S, G : Working(c, n, A, S, G)
  BY DEF Fetching
<1>2. PICK n \in 0 .. BlockCount(c) : \E A, S, G : Working(c, n, A, S, G)
  BY <1>1
<1>3. PICK A, S, G : Working(c, n, A, S, G)
  BY <1>2
<1>4. c \in Pieces /\ A \subseteq 1 .. BlockCount(c) /\ S \subseteq 1 .. BlockCount(c)
  <2>1. c \in Pieces /\ BlockCount(c) \in Nat /\ 1 .. n \subseteq 1 .. BlockCount(c)
    BY QuotWithin DEF Typed
  <2> QED
    BY <1>3, <2>1 DEF Working, WirePart
<1>5. \A i \in 1 .. BlockCount(c) : Req(c, i).kind = "REQUEST" /\ Ans(c, i).kind = "PIECE"
  BY <1>4, MessageFacts
<1>6. wire = {Req(c, i) : i \in A} \cup {Ans(c, i) : i \in S}
  BY <1>3 DEF Working, WirePart
<1> QED
  BY <1>4, <1>5, <1>6

LEMMA SendStep ==
    ASSUME OrdinarySizes, TransferInv, SendBitfield
    PROVE  TransferInv'
<1>1. Still /\ Typed /\ Typed' /\ FieldBytes' = FieldBytes /\ MaxPieceIdx' = MaxPieceIdx
  BY Frozen DEF SendBitfield, TransferInv, Still
<1>2. Started
  BY <1>1, FetchingCounts DEF SendBitfield, TransferInv, Finished
<1>3. CASE \A p \in done : InField(p, FieldBytes)
  <2>1. failure' = "none"
    BY <1>3 DEF SendBitfield
  <2>2. wire' = {[kind |-> "BITFIELD", bytes |-> FieldBytes, bits |-> done]}
    BY <1>3 DEF SendBitfield
  <2>3. Started'
    BY <1>1, <1>2, <2>2 DEF Started, SendBitfield, requester, Still
  <2> QED
    BY <1>1, <2>1, <2>3 DEF TransferInv
<1>4. CASE ~(\A p \in done : InField(p, FieldBytes))
  <2>1. failure' = "panic" /\ wire' = wire
    BY <1>4 DEF SendBitfield
  <2>2. Safe'
    BY <1>1, <2>1, FailingStep DEF SendBitfield, requester
  <2> QED
    BY <1>1, <2>1, <2>2 DEF TransferInv
<1> QED
  BY <1>3, <1>4

LEMMA BitfieldStep ==
    ASSUME OrdinarySizes, TransferInv, ReceiveBitfield
    PROVE  TransferInv'
<1>1. Still /\ Typed /\ Typed' /\ FieldBytes' = FieldBytes /\ MaxPieceIdx' = MaxPieceIdx
  BY Frozen DEF ReceiveBitfield, TransferInv, Still
<1>2. PICK m \in wire :
        /\ m.kind = "BITFIELD" /\ wire' = wire \ {m}
        /\ failure' = IF MaxPieceIdx > m.bytes * ByteBits THEN "closed"
                      ELSE IF InField(MaxPieceIdx, m.bytes) THEN "none" ELSE "panic"
        /\ LET pieces == AsIntSlice(m.bits)
           IN  IF failure' # "none" \/ pieces = <<>> THEN UNCHANGED requester
               ELSE /\ total' = BlockCount(Head(pieces)) /\ left' = total'
                    /\ RequestFirstOf(pieces)
                    /\ UNCHANGED marked
  BY DEF ReceiveBitfield
<1>3. Started
  BY <1>1, <1>2, FetchingMessages DEF ReceiveBitfield, TransferInv, Finished
<1>4. m = [kind |-> "BITFIELD", bytes |-> FieldBytes, bits |-> done] /\ wire' = {}
  BY <1>2, <1>3 DEF Started
<1>5. MaxPieceIdx \in Pieces /\ MaxPieceIdx \in Nat /\ done \in SUBSET Nat /\ Pieces = 0 .. MaxPieceIdx
  BY <1>1, Shape DEF MaxPieceIdx, Pieces
<1>6. CASE failure' # "none"
  <2>1. UNCHANGED <<queue, todo, total, left, marked>>
    BY <1>2, <1>6 DEF requester
  <2>2. Safe'
    BY <1>1, <1>2, <2>1, FailingStep DEF ReceiveBitfield
  <2> QED
    BY <1>1, <1>6, <2>2 DEF TransferInv
<1>7. CASE failure' = "none"
  <2> DEFINE s == InOrder(done)
  <2>1. AsIntSlice(m.bits) = s
    <3>1. done \cap 0 .. MaxPieceIdx = done /\ m.bits = done
      BY <1>1, <1>4, <1>5 DEF Typed
    <3> QED
      BY <3>1 DEF AsIntSlice
  <2>2. done \in SUBSET Int /\ IsFiniteSet(done)
    <3>1. IsFiniteSet(0 .. MaxPieceIdx)
      BY <1>5, FS_Interval
    <3>2. done \subseteq 0 .. MaxPieceIdx
      BY <1>1, <1>5 DEF Typed
    <3>3. IsFiniteSet(done)
      BY <3>1, <3>2, FS_Subset
    <3>4. done \in SUBSET Int
      BY <1>5
    <3> QED
      BY <3>3, <3>4
  <2>3. /\ s \in Seq(done) /\ Len(s) = Cardinality(done) /\ Cardinality(done) \in Nat
        /\ \A n \in done : \E k \in 1 .. Cardinality(done) : s[k] = n
        /\ \A j, k \in 1 .. Cardinality(done) : j < k => s[j] < s[k]
    BY <2>2, InOrderFacts
  <2> HIDE DEF s
  <2>4. s \in Seq(Nat)
    <3>1. s \in [1 .. Len(s) -> done]
      BY <2>3, LenProperties
    <3>2. s \in [1 .. Len(s) -> Nat] /\ Len(s) \in Nat
      BY <1>5, <2>3, <3>1
    <3> QED
      BY <3>2, IsASeq
  <2>5. \A j, k \in 1 .. Len(s) : j < k => s[j] < s[k]
    BY <2>3
  <2>6. ToSet(s) = done
    <3>1. ToSet(s) = {s[k] : k \in 1 .. Len(s)} /\ ToSet(s) \subseteq done
      BY <2>3, ToSetIndexed
    <3> QED
      BY <2>3, <3>1
  <2>7. s # <<>>
    BY <1>1, <2>6, ToSetEmpty DEF Typed
  <2>8. /\ total' = BlockCount(Head(s)) /\ left' = total' /\ marked' = marked
        /\ queue' = Tail(s) /\ todo' = PieceBlocks(Head(s))
    BY <1>2, <1>7, <2>1, <2>7 DEF RequestFirstOf
  <2>9. Head(s) \in done /\ \A p \in done : Head(s) <= p
    <3>1. /\ Head(s) \in Nat
          /\ \A k \in 1 .. Len(Tail(s)) : Head(s) < Tail(s)[k]
          /\ ToSet(s) = {Head(s)} \cup ToSet(Tail(s)) /\ Tail(s) \in Seq(Nat)
      BY <2>4, <2>5, <2>7, AscendingTail
    <3>2. ToSet(Tail(s)) = {Tail(s)[k] : k \in 1 .. Len(Tail(s))} /\ ToSet(Tail(s)) \subseteq Nat
      BY <3>1, ToSetIndexed
    <3>3. \A p \in ToSet(Tail(s)) : Head(s) <= p
      BY <3>1, <3>2
    <3> QED
      BY <2>6, <3>1, <3>3
  <2>10. /\ BlockCount(Head(s)) \in Nat
         /\ \A p \in done : BlockCount(p) <= BlockCount(Head(s))
    BY <1>1, <2>9, CountOrder, QuotWithin DEF Typed
  <2>11. DOMAIN saved' = {} /\ final' = <<>> /\ requested' = {} /\ marked = {}
    BY <1>3 DEF Started, ReceiveBitfield
  <2>12. Fetching'
    <3> DEFINE M == {}
               t == BlockCount(Head(s))
    <3>1. marked' = M /\ done = M \cup ToSet(s) /\ total' = t /\ left' = t /\ t \in Nat
      BY <2>6, <2>8, <2>10, <2>11
    <3>2. \A p \in M, k \in 1 .. Len(s) : p < s[k]
      OBVIOUS
    <3>3. (\A p \in M : BlockCount(p) = t /\ Rest(p) = 0) /\ (M # {} => IsSeeding)
      OBVIOUS
    <3>4. (\A b \in requested' : b.piece \in M) /\ (\A p \in M : Asked(p, 1) \in requested')
      BY <2>11
    <3>5. /\ DOMAIN saved' = {x \in Pieces \X (0 .. t - 1) : x[1] \in M}
          /\ \A x \in DOMAIN saved' : saved'[x] = Bytes(x[1], x[2] + 1)
      BY <2>11
    <3>6. (\A p \in done : BlockCount(p) <= t) /\ (M = {} => BlockCount(Head(s)) = t)
      BY <2>10
    <3> HIDE DEF M, t
    <3> QED
      BY <1>1, <1>4, <2>4, <2>5, <2>7, <2>8, <2>11, <3>1, <3>2, <3>3, <3>4, <3>5, <3>6, NextPiece
  <2> QED
    BY <1>1, <1>7, <2>12 DEF TransferInv
<1> QED
  BY <1>6, <1>7

LEMMA Kept ==
    ASSUME Still, NEW c, NEW n, NEW G
    PROVE  /\ UNCHANGED <<queue, marked>> /\ OrderPart(c) => OrderPart(c)'
           /\ UNCHANGED <<total, left, marked>> /\ CountPart(c, G) => CountPart(c, G)'
           /\ UNCHANGED <<marked, requested>> /\ AskedPart(c, n) => AskedPart(c, n)'
           /\ UNCHANGED <<marked, total, saved, final>> /\ SavedPart(c, G) => SavedPart(c, G)'
<1>1. UNCHANGED <<queue, marked>> /\ OrderPart(c) => OrderPart(c)'
  BY DEF OrderPart, Still, ToSet
<1>2. \A p : BlockCount(p)' = BlockCount(p) /\ Rest(p)' = Rest(p)
  BY FrozenPiece
<1>3. UNCHANGED <<total, left, marked>> /\ CountPart(c, G) => CountPart(c, G)'
  BY <1>2, Frozen DEF CountPart, Still
<1>4. \A p, i : Asked(p, i)' = Asked(p, i) /\ Bytes(p, i)' = Bytes(p, i)
  BY FrozenPiece
<1>5. UNCHANGED <<marked, requested>> /\ AskedPart(c, n) => AskedPart(c, n)'
  BY <1>4 DEF AskedPart
<1>6. UNCHANGED <<marked, total, saved, final>> /\ SavedPart(c, G) => SavedPart(c, G)'
  <2>1. UNCHANGED <<marked, total>> => Names(c, G)' = Names(c, G)
    BY Frozen DEF Names
  <2> QED
    BY <1>4, <2>1 DEF SavedPart
<1> QED
  BY <1>1, <1>3, <1>5, <1>6

LEMMA WorkingTypes ==
    ASSUME Typed, NEW c \in done, NEW n \in 0 .. BlockCount(c),
           NEW A, NEW S, NEW G, WirePart(c, n, A, S, G)
    PROVE  /\ c \in Pieces /\ BlockCount(c) \in Nat \ {0} /\ Quot(c) \in Nat /\ n \in Nat
           /\ n <= BlockCount(c) /\ 1 .. n \subseteq 1 .. BlockCount(c)
           /\ A \subseteq 1 .. n /\ S \subseteq 1 .. n /\ G \subseteq 1 .. n
<1>1. c \in Pieces /\ BlockCount(c) \in Nat \ {0} /\ Quot(c) \in Nat
  BY QuotWithin DEF Typed
<1>2. n \in Nat /\ n <= BlockCount(c) /\ 1 .. n \subseteq 1 .. BlockCount(c)
  BY <1>1
<1>3. A \subseteq 1 .. n /\ S \subseteq 1 .. n /\ G \subseteq 1 .. n
  BY DEF WirePart
<1> QED
  BY <1>1, <1>2, <1>3

(* Stepping from one state of the fetching to another. *)
LEMMA Refetch ==
    ASSUME NEW c \in done, Still, NEW n \in 0 .. BlockCount(c),
           NEW A \in SUBSET (1 .. n), NEW S \in SUBSET (1 .. n), NEW G \in SUBSET (1 .. n),
           OrderPart(c)', WirePart(c, n, A, S, G)', CountPart(c, G)',
           AskedPart(c, n)', SavedPart(c, G)'
    PROVE  Fetching'
<1>1. c \in done' /\ n \in 0 .. BlockCount(c)'
  BY FrozenPiece DEF Still
<1>2. Working(c, n, A, S, G)'
  BY DEF Working
<1> QED
  BY <1>1, <1>2 DEF Fetching

LEMMA RequestStep ==
    ASSUME OrdinarySizes, TransferInv, Request
    PROVE  TransferInv'
<1>1. Still /\ Typed /\ Typed' /\ failure' = "none" /\ failure = "none"
  BY Frozen DEF Request, TransferInv, Still
<1>2. Fetching
  BY <1>1 DEF TransferInv, Started, Finished, Request
<1>3. PICK c \in done : \E n \in 0 .. BlockCount(c) : \E A, S, G : Working(c, n, A, S, G)
  BY <1>2 DEF Fetching
<1>4. PICK n \in 0 .. BlockCount(c) : \E A, S, G : Working(c, n, A, S, G)
  BY <1>3
<1>5. PICK A, S, G : Working(c, n, A, S, G)
  BY <1>4
<1>6. /\ OrderPart(c) /\ WirePart(c, n, A, S, G) /\ CountPart(c, G)
      /\ AskedPart(c, n) /\ SavedPart(c, G)
  BY <1>5 DEF Working
<1>7. /\ c \in Pieces /\ BlockCount(c) \in Nat \ {0} /\ n \in Nat /\ Quot(c) \in Nat
      /\ n <= BlockCount(c)
      /\ A \subseteq 1 .. n /\ S \subseteq 1 .. n /\ G \subseteq 1 .. n
  BY <1>1, <1>6, WorkingTypes
<1>8. /\ BlockCount(c)' = BlockCount(c) /\ Quot(c)' = Quot(c)
      /\ \A i : Asked(c, i)' = Asked(c, i) /\ Req(c, i)' = Req(c, i) /\ Ans(c, i)' = Ans(c, i)
  BY <1>1, FrozenPiece
<1> DEFINE a == n + 1
<1>9. todo = [k \in 1 .. BlockCount(c) - n |-> Asked(c, n + k)]
  BY <1>6 DEF WirePart
<1>10. n < BlockCount(c)
  <2> SUFFICES ASSUME ~(n < BlockCount(c)) PROVE FALSE
    OBVIOUS
  <2>1. 1 .. BlockCount(c) - n = {}
    BY <1>7
  <2>2. todo = <<>>
    BY <1>9, <2>1
  <2> QED
    BY <2>2 DEF Request
<1>11. /\ Head(todo) = Asked(c, a)
       /\ Tail(todo) = [k \in 1 .. BlockCount(c) - a |-> Asked(c, a + k)]
  <2> DEFINE m == BlockCount(c) - n
  <2>1. m \in Nat \ {0} /\ m - 1 = BlockCount(c) - a
    BY <1>7, <1>10
  <2> DEFINE T == {Asked(c, n + k) : k \in 1 .. m}
  <2>2. todo \in [1 .. m -> T] /\ todo = [k \in 1 .. m |-> todo[k]]
    BY <1>9
  <2> HIDE DEF m, T
  <2>3. /\ Head(todo) = todo[1] /\ 1 \in 1 .. m
        /\ Tail(todo) = [k \in 1 .. m - 1 |-> todo[k + 1]]
    <3>1. todo \in Seq(T)
      BY <2>1, <2>2, IsASeq
    <3>2. Len(todo) = m
      <4>1. DOMAIN todo = 1 .. m /\ DOMAIN todo = 1 .. Len(todo) /\ Len(todo) \in Nat
        BY <2>2, <3>1, LenProperties
      <4>2. m \in 1 .. Len(todo) /\ (Len(todo) # 0 => Len(todo) \in 1 .. m)
        BY <2>1, <4>1
      <4> QED
        BY <2>1, <4>1, <4>2
    <3>3. todo # <<>>
      BY <2>1, <3>2
    <3>4. /\ Head(todo) = todo[1] /\ Tail(todo) \in Seq(T) /\ Len(Tail(todo)) = m - 1
          /\ \A k \in 1 .. m - 1 : Tail(todo)[k] = todo[k + 1]
      BY <3>1, <3>2, <3>3, HeadTailProperties
    <3>5. Tail(todo) = [k \in 1 .. m - 1 |-> Tail(todo)[k]]
      BY <3>4, LenProperties
    <3> QED
      BY <2>1, <3>4, <3>5
  <2>4. \A k \in 1 .. m - 1 : todo[k + 1] = Asked(c, a + k)
    <3> SUFFICES ASSUME NEW k \in 1 .. m - 1 PROVE todo[k + 1] = Asked(c, a + k)
      OBVIOUS
    <3>1. k + 1 \in 1 .. m /\ n + (k + 1) = a + k
      BY <1>7, <2>1
    <3> QED
      BY <1>9, <3>1 DEF m
  <2>5. Head(todo) = Asked(c, a)
    BY <1>9, <2>3 DEF m
  <2> QED
    BY <2>1, <2>3, <2>4, <2>5
<1>12. /\ wire' = wire \cup {Req(c, a)} /\ requested' = requested \cup {Asked(c, a)}
       /\ todo' = [k \in 1 .. BlockCount(c) - a |-> Asked(c, a + k)]
       /\ UNCHANGED <<queue, total, left, marked, saved, final>>
  BY <1>11 DEF Request, Req
<1>13. /\ 1 .. a = (1 .. n) \cup {a} /\ a \notin 1 .. n
       /\ a \in 0 .. BlockCount(c) /\ 1 .. n \subseteq 1 .. a
  BY <1>7, <1>10
<1> HIDE DEF a
<1>14. WirePart(c, a, A \cup {a}, S, G)'
  <2>1. (A \cup {a}) \cup S \cup G = 1 .. a
    BY <1>6, <1>13 DEF WirePart
  <2>2. (A \cup {a}) \cap S = {} /\ (A \cup {a}) \cap G = {} /\ S \cap G = {}
    BY <1>6, <1>7, <1>13 DEF WirePart
  <2>3. wire' = {Req(c, i) : i \in A \cup {a}} \cup {Ans(c, i) : i \in S}
    BY <1>6, <1>12 DEF WirePart
  <2>4. S \subseteq 1 .. Quot(c) /\ G \subseteq 1 .. Quot(c)
    BY <1>6 DEF WirePart
  <2> QED
    BY <1>8, <1>12, <1>13, <2>1, <2>2, <2>3, <2>4 DEF WirePart
<1>15. AskedPart(c, a)'
  <2>1. Asked(c, a).piece = c
    <3>1. a \in 1 .. BlockCount(c)
      BY <1>7, <1>10 DEF a
    <3> QED
      BY <1>1, <1>7, <3>1, AskedDistinct
  <2>2. \A b \in requested' : b.piece \in marked' \cup {c}
    BY <1>6, <1>12, <2>1 DEF AskedPart
  <2>3. \A i \in 1 .. a : Asked(c, i) \in requested'
    BY <1>6, <1>12, <1>13 DEF AskedPart
  <2>4. \A p \in marked' : Asked(p, 1)' \in requested'
    <3>1. \A p : Asked(p, 1)' = Asked(p, 1)
      BY <1>1, FrozenPiece
    <3> QED
      BY <1>6, <1>12, <3>1 DEF AskedPart
  <2> QED
    BY <1>8, <2>2, <2>3, <2>4 DEF AskedPart
<1>16. OrderPart(c)' /\ CountPart(c, G)' /\ SavedPart(c, G)'
  BY <1>1, <1>6, <1>12, Kept
<1>17. A \cup {a} \in SUBSET (1 .. a) /\ S \in SUBSET (1 .. a) /\ G \in SUBSET (1 .. a)
  BY <1>7, <1>13
<1>18. Fetching'
  BY <1>1, <1>13, <1>14, <1>15, <1>16, <1>17, Refetch
<1> QED
  BY <1>1, <1>18 DEF TransferInv

LEMMA ServeStep ==
    ASSUME OrdinarySizes, TransferInv, Serve
    PROVE  TransferInv'
<1>1. Still /\ Typed /\ Typed' /\ failure = "none"
  BY Frozen DEF Serve, TransferInv, Still
<1>2. Fetching
  <2>1. \E m \in wire : m.kind = "REQUEST"
    BY DEF Serve
  <2> QED
    BY <1>1, <2>1 DEF TransferInv, Started, Finished
<1>3. PICK c \in done : \E n \in 0 .. BlockCount(c) : \E A, S, G : Working(c, n, A, S, G)
  BY <1>2 DEF Fetching
<1>4. PICK n \in 0 .. BlockCount(c) : \E A, S, G : Working(c, n, A, S, G)
  BY <1>3
<1>5. PICK A, S, G : Working(c, n, A, S, G)
  BY <1>4
<1>6. /\ OrderPart(c) /\ WirePart(c, n, A, S, G) /\ CountPart(c, G)
      /\ AskedPart(c, n) /\ SavedPart(c, G)
  BY <1>5 DEF Working
<1>7. /\ c \in Pieces /\ BlockCount(c) \in Nat \ {0} /\ n \in Nat /\ Quot(c) \in Nat
      /\ 1 .. n \subseteq 1 .. BlockCount(c)
      /\ A \subseteq 1 .. n /\ S \subseteq 1 .. n /\ G \subseteq 1 .. n
  BY <1>1, <1>6, WorkingTypes
<1>8. /\ BlockCount(c)' = BlockCount(c) /\ Quot(c)' = Quot(c)
      /\ \A i : Asked(c, i)' = Asked(c, i) /\ Req(c, i)' = Req(c, i) /\ Ans(c, i)' = Ans(c, i)
  BY <1>1, FrozenPiece
<1>9. UNCHANGED <<queue, todo, total, left, marked, requested, saved, final>>
  BY DEF Serve, requester
<1> DEFINE asked(m) == RequestedBlock(m)
           found(m) == BlockAt(asked(m).piece, asked(m).begin, asked(m).length)
           seek(m) == SeekLocation(asked(m).piece, found(m))
           eof(m) == IsSeeding /\ seek(m) >= torrent.length
           buff(m) == IF IsSeeding THEN ReadFile(seek(m), found(m).length) ELSE <<>>
           has(m) == HasBlockAt(asked(m).piece, asked(m).begin, asked(m).length)
<1>10. PICK m \in wire :
          /\ m.kind = "REQUEST"
          /\ has(m) => /\ failure' = failure
                       /\ wire' = (wire \ {m}) \cup
                             (IF eof(m) THEN {} ELSE {BuildPeerPieceMsg(found(m), buff(m))})
          /\ ~has(m) => failure' = "panic" /\ wire' = wire \ {m}
  BY DEF Serve
<1>11. wire = {Req(c, i) : i \in A} \cup {Ans(c, i) : i \in S}
  BY <1>6 DEF WirePart
<1>12. PICK i \in A : m = Req(c, i)
  <2>1. \A i \in S : Ans(c, i).kind = "PIECE"
    BY <1>1, <1>7, MessageFacts
  <2> QED
    BY <1>10, <1>11, <2>1
<1>13. i \in 1 .. BlockCount(c) /\ i \in 1 .. n
  BY <1>7
<1>14. /\ asked(m).piece = c /\ (has(m) <=> i <= Quot(c))
       /\ i <= Quot(c) =>
             /\ found(m) = Asked(c, i) /\ found(m).length = BlockLength
             /\ seek(m) = (c * BlockCount(c) + (i - 1)) * BlockLength
  BY <1>1, <1>7, <1>12, <1>13, ServedFacts
<1>15. CASE ~has(m)
  <2>1. failure' = "panic" /\ wire' \subseteq wire
    BY <1>10, <1>15
  <2>2. Safe'
    BY <1>1, <1>9, <2>1, FailingStep
  <2> QED
    BY <1>1, <2>1, <2>2 DEF TransferInv
<1>16. has(m) => ~eof(m)
  <2> SUFFICES ASSUME has(m), IsSeeding  PROVE ~(seek(m) >= torrent.length)
    OBVIOUS
  <2>1. i \in 1 .. Quot(c) /\ seek(m) = (c * BlockCount(c) + (i - 1)) * BlockLength
    BY <1>7, <1>13, <1>14
  <2>2. c # 0 => Rest(0) = 0
    BY <1>1, <1>6, FirstIsMarked DEF CountPart
  <2>3. (c * BlockCount(c) + (i - 1)) * BlockLength < torrent.length
    BY <1>1, <1>7, <2>1, <2>2, WithinTheFile
  <2>4. (c * BlockCount(c) + (i - 1)) * BlockLength \in Nat /\ torrent.length \in Nat
    BY <1>1, <1>7, <2>1, BytesFacts, Shape
  <2> HIDE DEF seek
  <2> QED
    BY <2>1, <2>3, <2>4
<1>17. CASE has(m)
  <2>1. i <= Quot(c) /\ i \in 1 .. Quot(c)
    BY <1>7, <1>13, <1>14, <1>17
  <2>2. BuildPeerPieceMsg(found(m), buff(m)) = Ans(c, i)
    <3>1. found(m) = Asked(c, i) /\ buff(m) = IF IsSeeding THEN Bytes(c, i) ELSE <<>>
      BY <1>14, <2>1 DEF Bytes
    <3> QED
      BY <3>1 DEF Ans
  <2>3. failure' = "none" /\ wire' = (wire \ {Req(c, i)}) \cup {Ans(c, i)}
    BY <1>1, <1>10, <1>12, <1>16, <1>17, <2>2
  <2>4. \A j \in A : j # i => Req(c, j) # Req(c, i)
    BY <1>1, <1>7, MessagesDistinct
  <2>5. \A j \in S : Ans(c, j) # Req(c, i)
    BY <1>1, <1>7, MessagesDistinct
  <2>6. wire' = {Req(c, j) : j \in A \ {i}} \cup {Ans(c, j) : j \in S \cup {i}}
    <3> HIDE DEF asked, found, seek, eof, buff, has
    <3>1. wire \ {Req(c, i)} = {Req(c, j) : j \in A \ {i}} \cup {Ans(c, j) : j \in S}
      BY <1>11, <2>4, <2>5
    <3> QED
      BY <2>3, <3>1
  <2>7. WirePart(c, n, A \ {i}, S \cup {i}, G)'
    <3>1. (A \ {i}) \cup (S \cup {i}) \cup G = 1 .. n
      BY <1>6 DEF WirePart
    <3>2. (A \ {i}) \cap (S \cup {i}) = {} /\ (A \ {i}) \cap G = {} /\ (S \cup {i}) \cap G = {}
      BY <1>6 DEF WirePart
    <3>3. S \cup {i} \subseteq 1 .. Quot(c) /\ G \subseteq 1 .. Quot(c)
      BY <1>6, <2>1 DEF WirePart
    <3>4. n \in 0 .. BlockCount(c) /\ todo' = [k \in 1 .. BlockCount(c) - n |-> Asked(c, n + k)]
      BY <1>6, <1>9 DEF WirePart
    <3> HIDE DEF asked, found, seek, eof, buff, has
    <3> QED
      BY <1>8, <2>6, <3>1, <3>2, <3>3, <3>4 DEF WirePart
  <2>8. OrderPart(c)' /\ CountPart(c, G)' /\ AskedPart(c, n)' /\ SavedPart(c, G)'
    BY <1>1, <1>6, <1>9, Kept
  <2>9. A \ {i} \in SUBSET (1 .. n) /\ S \cup {i} \in SUBSET (1 .. n) /\ G \in SUBSET (1 .. n)
    BY <1>7, <1>13
  <2>10. Fetching'
    BY <1>1, <2>7, <2>8, <2>9, Refetch
  <2> QED
    BY <1>1, <2>3, <2>10 DEF TransferInv
<1> QED
  BY <1>15, <1>17

(* A block more is saved, under the name of its piece and its number. *)
LEMMA OneMoreSaved ==
    ASSUME Typed, NEW c \in done, NEW G, SavedPart(c, G), CountPart(c, G),
           NEW i \in 1 .. BlockCount(c), NEW blocks,
           DOMAIN blocks = DOMAIN saved \cup {<<c, i - 1>>},
           \A x \in DOMAIN blocks :
               blocks[x] = IF x = <<c, i - 1>> THEN Bytes(c, i) ELSE saved[x]
    PROVE  /\ DOMAIN blocks = Names(c, G \cup {i})
           /\ \A x \in DOMAIN blocks : blocks[x] = Bytes(x[1], x[2] + 1)
<1> DEFINE y == <<c, i - 1>>
<1>1. c \in Pieces /\ BlockCount(c) \in Nat /\ BlockCount(c) <= total /\ total \in Nat
  BY QuotWithin DEF Typed, CountPart
<1>2. y \in Pieces \X (0 .. total - 1) /\ y[1] = c /\ y[2] + 1 = i
  BY <1>1
<1>3. /\ DOMAIN blocks = {y} \cup DOMAIN saved
      /\ \A x \in DOMAIN blocks : blocks[x] = IF x = y THEN Bytes(c, i) ELSE saved[x]
  OBVIOUS
<1>4. \A x \in Pieces \X (0 .. total - 1) : x[1] = c /\ x[2] + 1 = i => x = y
  BY <1>1
<1> HIDE DEF y
<1>5. Names(c, G \cup {i}) = {y} \cup Names(c, G)
  BY <1>2, <1>4 DEF Names
<1>6. \A x \in DOMAIN blocks : blocks[x] = Bytes(x[1], x[2] + 1)
  BY <1>2, <1>3 DEF SavedPart
<1> QED
  BY <1>3, <1>5, <1>6 DEF SavedPart

(* The count reaches zero with the last block of a piece of whole blocks,  *)
(* of as many as the first piece has.                                      *)
LEMMA CountedDown ==
    ASSUME Typed, NEW c \in done, NEW n \in 0 .. BlockCount(c), NEW A, NEW S, NEW G, NEW i \in S,
           WirePart(c, n, A, S, G), CountPart(c, G), left = 1
    PROVE  /\ n = total /\ BlockCount(c) = total /\ Rest(c) = 0
           /\ G \cup {i} = 1 .. total /\ A = {} /\ S = {i}
<1> DEFINE H == G \cup {i}
<1>1. /\ c \in Pieces /\ BlockCount(c) \in Nat \ {0} /\ n \in Nat /\ Quot(c) \in Nat
      /\ n <= BlockCount(c)
      /\ A \subseteq 1 .. n /\ S \subseteq 1 .. n /\ G \subseteq 1 .. n
  BY WorkingTypes
<1>2. /\ total \in Nat /\ 1 = total - Cardinality(G) /\ BlockCount(c) <= total
  BY DEF CountPart
<1>3. /\ IsFiniteSet(1 .. n) /\ Cardinality(1 .. n) = n
  <2>1. /\ IsFiniteSet(1 .. n) /\ Cardinality(1 .. n) = IF 1 > n THEN 0 ELSE n - 1 + 1
    BY <1>1, FS_Interval
  <2> QED
    BY <1>1, <2>1
<1>4. IsFiniteSet(G) /\ i \notin G /\ Cardinality(G) \in Nat
  <2>1. IsFiniteSet(G) /\ i \notin G
    BY <1>1, <1>3, FS_Subset DEF WirePart
  <2> QED
    BY <2>1, FS_CardinalityType
<1>5. IsFiniteSet(H) /\ Cardinality(H) = Cardinality(G) + 1
  BY <1>4, FS_AddElement
<1>6. H \subseteq 1 .. n
  BY <1>1
<1>7. Cardinality(H) = total
  BY <1>2, <1>4, <1>5
<1> HIDE DEF H
<1>8. total <= n
  BY <1>3, <1>6, <1>7, FS_Subset
<1>9. n = total /\ BlockCount(c) = total
  BY <1>1, <1>2, <1>8
<1>10. H = 1 .. total
  BY <1>3, <1>6, <1>7, <1>9, FS_Subset
<1>11. H \subseteq 1 .. Quot(c)
  BY DEF WirePart, H
<1>12. Rest(c) = 0
  <2>1. total \in 1 .. Quot(c)
    BY <1>1, <1>9, <1>10, <1>11
  <2>2. Quot(c) <= BlockCount(c) /\ (Rest(c) = 0 <=> Quot(c) = BlockCount(c))
    BY <1>1, QuotWithin
  <2> QED
    BY <1>1, <1>9, <2>1, <2>2
<1>13. A = {} /\ S = {i}
  BY <1>1, <1>9, <1>10 DEF WirePart, H
<1> QED
  BY <1>9, <1>10, <1>12, <1>13 DEF H

LEMMA ReceiveStep ==
    ASSUME OrdinarySizes, TransferInv, Receive
    PROVE  TransferInv'
<1>1. Still /\ Typed /\ Typed' /\ failure = "none"
  BY Frozen DEF Receive, TransferInv, Still
<1>2. Fetching
  <2>1. \E m \in wire : m.kind = "PIECE"
    BY DEF Receive
  <2> QED
    BY <1>1, <2>1 DEF TransferInv, Started, Finished
<1>3. PICK c \in done : \E n \in 0 .. BlockCount(c) : \E A, S, G : Working(c, n, A, S, G)
  BY <1>2 DEF Fetching
<1>4. PICK n \in 0 .. BlockCount(c) : \E A, S, G : Working(c, n, A, S, G)
  BY <1>3
<1>5. PICK A, S, G : Working(c, n, A, S, G)
  BY <1>4
<1>6. /\ OrderPart(c) /\ WirePart(c, n, A, S, G) /\ CountPart(c, G)
      /\ AskedPart(c, n) /\ SavedPart(c, G)
  BY <1>5 DEF Working
<1>7. /\ c \in Pieces /\ BlockCount(c) \in Nat \ {0} /\ n \in Nat /\ Quot(c) \in Nat
      /\ 1 .. n \subseteq 1 .. BlockCount(c)
      /\ A \subseteq 1 .. n /\ S \subseteq 1 .. n /\ G \subseteq 1 .. n
  BY <1>1, <1>6, WorkingTypes
<1>8. UNCHANGED <<total, requested>>
  BY DEF Receive
<1>9. PICK m \in wire :
          /\ m.kind = "PIECE" /\ wire' = wire \ {m}
          /\ IF m.buff = <<>>
             THEN /\ failure' = "closed"
                  /\ UNCHANGED <<queue, todo, left, marked, saved, final>>
             ELSE Save(m) /\ UNCHANGED failure
  BY DEF Receive
<1>10. CASE m.buff = <<>>
  <2>1. failure' = "closed" /\ UNCHANGED <<queue, todo, left, marked, saved, final>>
    BY <1>9, <1>10
  <2>2. wire' \subseteq wire
    BY <1>9
  <2>3. Safe'
    BY <1>1, <1>8, <2>1, <2>2, FailingStep
  <2> QED
    BY <1>1, <2>1, <2>3 DEF TransferInv
<1>11. CASE m.buff # <<>>
  <2>1. IsSeeding
    BY <1>1, <1>5, <1>9, <1>11, AnswersOf
  <2>2. PICK i \in S : /\ i \in 1 .. Quot(c) /\ m = Ans(c, i) /\ m.piece = c
                       /\ m.buff = Bytes(c, i)
    BY <1>1, <1>5, <1>9, <1>11, AnswersOf
  <2>3. AnswerIdx(m) = i - 1 /\ i \in 1 .. BlockCount(c)
    BY <1>1, <1>7, <2>1, <2>2, AnswerIndex
  <2> DEFINE blocks == [x \in DOMAIN saved \cup {<<c, i - 1>>} |->
                           IF x = <<c, i - 1>> THEN Bytes(c, i) ELSE saved[x]]
  <2>4. /\ left' = IF left = 1 THEN total ELSE left - 1
        /\ marked' = IF left = 1 THEN marked \cup {c} ELSE marked
        /\ IF marked' = Pieces
           THEN final' = Assembled(blocks) /\ saved' = <<>>
           ELSE saved' = blocks /\ UNCHANGED final
        /\ IF left = 1 THEN RequestFirstOf(queue) ELSE UNCHANGED <<queue, todo>>
        /\ failure' = "none"
    BY <1>1, <1>9, <1>11, <2>2, <2>3 DEF Save, Reset
  <2>5. /\ DOMAIN blocks = Names(c, G \cup {i})
        /\ \A x \in DOMAIN blocks : blocks[x] = Bytes(x[1], x[2] + 1)
    <3>1. /\ DOMAIN blocks = DOMAIN saved \cup {<<c, i - 1>>}
          /\ \A x \in DOMAIN blocks :
                 blocks[x] = IF x = <<c, i - 1>> THEN Bytes(c, i) ELSE saved[x]
      OBVIOUS
    <3>2. SavedPart(c, G) /\ CountPart(c, G)
      BY <1>6
    <3>3. Typed /\ i \in 1 .. BlockCount(c)
      BY <1>1, <2>3
    <3> HIDE DEF blocks
    <3> QED
      BY <3>1, <3>2, <3>3, OneMoreSaved, Zenon
  <2> HIDE DEF blocks
  <2>6. wire' = {Req(c, j) : j \in A} \cup {Ans(c, j) : j \in S \ {i}}
    <3>1. wire = {Req(c, j) : j \in A} \cup {Ans(c, j) : j \in S}
      BY <1>6 DEF WirePart
    <3>2. \A j \in A : Req(c, j) # Ans(c, i)
      BY <1>1, <1>7, <2>3, MessagesDistinct
    <3>3. \A j \in S : j # i => Ans(c, j) # Ans(c, i)
      BY <1>1, <1>7, <2>3, MessagesDistinct
    <3>4. wire' = wire \ {Ans(c, i)}
      BY <1>9, <2>2
    <3> QED
      BY <3>1, <3>2, <3>3, <3>4
  <2>7. c \notin marked /\ marked # Pieces /\ marked \subseteq done /\ done \in SUBSET Nat
    <3>1. c \in Nat /\ done \in SUBSET Nat
      BY <1>1, <1>7, Shape
    <3>2. c \notin marked /\ marked \subseteq done
      BY <1>6, <3>1 DEF OrderPart
    <3> QED
      BY <1>7, <3>1, <3>2
  <2>8. CASE left # 1
    <3>1. /\ left' = left - 1 /\ UNCHANGED <<marked, final, queue, todo>> /\ saved' = blocks
      BY <2>4, <2>7, <2>8
    <3>2. WirePart(c, n, A, S \ {i}, G \cup {i})'
      <4>1. A \cup (S \ {i}) \cup (G \cup {i}) = 1 .. n
        BY <1>6 DEF WirePart
      <4>2. A \cap (S \ {i}) = {} /\ A \cap (G \cup {i}) = {} /\ (S \ {i}) \cap (G \cup {i}) = {}
        BY <1>6 DEF WirePart
      <4>3. S \ {i} \subseteq 1 .. Quot(c) /\ G \cup {i} \subseteq 1 .. Quot(c)
        BY <1>6 DEF WirePart
      <4>4. n \in 0 .. BlockCount(c) /\ todo' = [k \in 1 .. BlockCount(c) - n |-> Asked(c, n + k)]
        BY <1>6, <3>1 DEF WirePart
      <4>5. /\ BlockCount(c)' = BlockCount(c) /\ Quot(c)' = Quot(c)
            /\ \A j : Asked(c, j)' = Asked(c, j) /\ Req(c, j)' = Req(c, j) /\ Ans(c, j)' = Ans(c, j)
        BY <1>1, FrozenPiece
      <4> QED
        BY <2>6, <4>1, <4>2, <4>3, <4>4, <4>5 DEF WirePart
    <3>3. CountPart(c, G \cup {i})'
      <4>1. IsFiniteSet(G) /\ i \notin G
        <5>1. IsFiniteSet(1 .. n)
          BY <1>7, FS_Interval
        <5> QED
          BY <1>6, <1>7, <5>1, FS_Subset DEF WirePart
      <4>2. Cardinality(G \cup {i}) = Cardinality(G) + 1 /\ Cardinality(G) \in Nat
        BY <4>1, FS_AddElement, FS_CardinalityType
      <4>3. total \in Nat /\ left \in Nat /\ left >= 1 /\ left = total - Cardinality(G)
        BY <1>6 DEF CountPart
      <4>4. left' \in Nat /\ left' >= 1 /\ left' = total' - Cardinality(G \cup {i})
        BY <1>8, <2>8, <3>1, <4>2, <4>3
      <4>5. \A p : BlockCount(p)' = BlockCount(p) /\ Rest(p)' = Rest(p)
        BY <1>1, FrozenPiece
      <4>6. IsSeeding'
        BY <1>1, <2>1, Frozen
      <4> QED
        BY <1>1, <1>6, <1>8, <3>1, <4>4, <4>5, <4>6 DEF CountPart, Still
    <3>4. SavedPart(c, G \cup {i})'
      <4>1. Names(c, G \cup {i})' = Names(c, G \cup {i})
        BY <1>1, <1>8, <3>1, Frozen DEF Names
      <4>2. \A p, j : Bytes(p, j)' = Bytes(p, j)
        BY <1>1, FrozenPiece
      <4> QED
        BY <1>6, <2>5, <3>1, <4>1, <4>2 DEF SavedPart
    <3>5. OrderPart(c)' /\ AskedPart(c, n)'
      BY <1>1, <1>6, <1>8, <3>1, Kept
    <3>6. S \ {i} \in SUBSET (1 .. n) /\ G \cup {i} \in SUBSET (1 .. n) /\ A \in SUBSET (1 .. n)
      BY <1>7
    <3>7. Fetching'
      BY <1>1, <3>2, <3>3, <3>4, <3>5, <3>6, Refetch
    <3> QED
      BY <1>1, <2>4, <3>7 DEF TransferInv
  <2>9. CASE left = 1
    <3>1. /\ n = total /\ BlockCount(c) = total /\ Rest(c) = 0
          /\ G \cup {i} = 1 .. total /\ A = {} /\ S = {i}
      BY <1>1, <1>6, <2>9, CountedDown
    <3> DEFINE M == marked \cup {c}
    <3>2. wire' = {} /\ marked' = M /\ left' = total /\ RequestFirstOf(queue)
      <4>1. wire' = {}
        BY <2>6, <3>1
      <4> QED
        BY <2>4, <2>9, <4>1
    <3>3. total \in Nat \ {0} /\ final = <<>>
      BY <1>6, <1>7, <3>1 DEF SavedPart
    <3>4. /\ DOMAIN blocks = {x \in Pieces \X (0 .. total - 1) : x[1] \in M}
          /\ \A x \in DOMAIN blocks : blocks[x] = Bytes(x[1], x[2] + 1)
      <4>1. \A x \in Pieces \X (0 .. total - 1) : x[2] + 1 \in 1 .. total
        BY <3>3
      <4>2. Names(c, G \cup {i}) = {x \in Pieces \X (0 .. total - 1) : x[1] \in M}
        BY <3>1, <4>1 DEF Names
      <4> QED
        BY <2>5, <4>2
    <3>5. \A p \in M : BlockCount(p) = total /\ Rest(p) = 0
      BY <1>6, <3>1 DEF CountPart
    <3>6. /\ \A b \in requested' : b.piece \in M
          /\ \A p \in M : Asked(p, 1) \in requested'
      <4>1. 1 \in 1 .. n
        BY <1>7, <3>1, <3>3
      <4> QED
        BY <1>6, <1>8, <4>1 DEF AskedPart
    <3>7. CASE queue = <<>>
      <4>1. M = Pieces /\ M = done
        BY <1>6, <2>1, <3>7, ToSetEmpty DEF OrderPart, IsSeeding
      <4>2. final' = Assembled(blocks)
        BY <2>4, <3>2, <4>1
      <4>3. final' = [j \in 1 .. torrent.length |-> j]
        <5>1. DOMAIN blocks = Pieces \X (0 .. total - 1)
          BY <3>4, <4>1
        <5> QED
          BY <1>1, <3>3, <3>4, <3>5, <4>1, <4>2, <5>1, AssembledFacts
      <4>4. queue' = <<>> /\ todo' = <<>>
        <5>1. UNCHANGED <<queue, todo>>
          BY <3>2, <3>7 DEF RequestFirstOf
        <5>2. todo = [k \in 1 .. BlockCount(c) - n |-> Asked(c, n + k)]
          BY <1>6 DEF WirePart
        <5>3. 1 .. BlockCount(c) - n = {}
          BY <1>7, <3>1
        <5>4. todo = <<>>
          BY <5>2, <5>3
        <5> QED
          BY <3>7, <5>1, <5>4
      <4>5. \A p \in Pieces' : LikeTheFirst(p)'
        <5>1. 0 \in Pieces
          BY <1>1, Shape DEF Pieces
        <5>2. \A p \in Pieces : LikeTheFirst(p)
          BY <3>5, <4>1, <5>1 DEF LikeTheFirst
        <5> QED
          BY <1>1, <5>2, Frozen, FrozenPiece
      <4>6. \A p \in done' : Asked(p, 1)' \in requested'
        <5>1. \A p : Asked(p, 1)' = Asked(p, 1)
          BY <1>1, FrozenPiece
        <5> QED
          BY <1>1, <3>6, <4>1, <5>1 DEF Still
      <4>7. total' # 0 /\ IsSeeding' /\ done' = done /\ torrent' = torrent
        BY <1>1, <1>8, <2>1, <3>3, Frozen DEF Still
      <4>8. \A b \in requested' : b.piece \in done'
        BY <3>6, <4>1, <4>7
      <4>9. Finished'
        BY <3>2, <4>3, <4>4, <4>5, <4>6, <4>7, <4>8 DEF Finished
      <4> QED
        BY <1>1, <2>4, <4>9 DEF TransferInv
    <3>8. CASE queue # <<>>
      <4>1. /\ queue \in Seq(Nat) /\ done = M \cup ToSet(queue)
            /\ \A j, k \in 1 .. Len(queue) : j < k => queue[j] < queue[k]
            /\ \A k \in 1 .. Len(queue) : c < queue[k]
            /\ \A p \in marked : p < c
        BY <1>6 DEF OrderPart
      <4>2. \A k \in 1 .. Len(queue) : queue[k] \in Nat
        BY <4>1, ElementOfSeq
      <4>3. \A p \in M, k \in 1 .. Len(queue) : p < queue[k]
        <5> SUFFICES ASSUME NEW p \in M, NEW k \in 1 .. Len(queue) PROVE p < queue[k]
          OBVIOUS
        <5>1. p \in Nat /\ c \in Nat /\ queue[k] \in Nat /\ c < queue[k] /\ (p = c \/ p < c)
          BY <2>7, <4>1, <4>2
        <5> QED
          BY <5>1
      <4>4. M # Pieces
        <5>1. 1 \in 1 .. Len(queue)
          BY <3>8, <4>1, LenProperties
        <5>2. queue[1] \in done /\ queue[1] \in Nat
          BY <4>1, <4>2, <5>1, ToSetIndexed
        <5>3. queue[1] \notin M
          <6>1. ~(queue[1] < queue[1])
            BY <5>2
          <6> QED
            BY <4>3, <5>1, <6>1
        <5> QED
          BY <2>1, <5>2, <5>3 DEF IsSeeding
      <4>5. saved' = blocks /\ final' = <<>>
        BY <2>4, <3>2, <3>3, <4>4
      <4>6. queue' = Tail(queue) /\ todo' = PieceBlocks(Head(queue))
        BY <3>2, <3>8 DEF RequestFirstOf
      <4>7. (\A p \in done : BlockCount(p) <= total) /\ (M = {} => BlockCount(Head(queue)) = total)
        BY <1>6 DEF CountPart
      <4>8. /\ DOMAIN saved' = {x \in Pieces \X (0 .. total - 1) : x[1] \in M}
            /\ \A x \in DOMAIN saved' : saved'[x] = Bytes(x[1], x[2] + 1)
        BY <3>4, <4>5
      <4> HIDE DEF M
      <4>9. Fetching'
        <5> DEFINE s == queue
        <5>1. /\ s \in Seq(Nat) /\ s # <<>> /\ done = M \cup ToSet(s)
              /\ \A j, k \in 1 .. Len(s) : j < k => s[j] < s[k]
              /\ \A p \in M, k \in 1 .. Len(s) : p < s[k]
              /\ queue' = Tail(s) /\ todo' = PieceBlocks(Head(s))
              /\ (M = {} => BlockCount(Head(s)) = total) /\ (M # {} => IsSeeding)
          BY <2>1, <3>8, <4>1, <4>3, <4>6, <4>7
        <5>2. total \in Nat /\ total' = total
          BY <1>8, <3>3
        <5> HIDE DEF s
        <5> QED
          BY <1>1, <3>2, <3>5, <3>6, <4>5, <4>7, <4>8, <5>1, <5>2, NextPiece
      <4> QED
        BY <1>1, <2>4, <4>9 DEF TransferInv
    <3> QED
      BY <3>7, <3>8
  <2> QED
    BY <2>8, <2>9
<1> QED
  BY <1>10, <1>11

-----------------------------------------------------------------------------
LEMMA TransferInit ==
    ASSUME Init
    PROVE  TransferInv
<1>1. Typed
  BY DEF Init, Typed
<1>2. Started
  BY DEF Init, Started
<1>3. failure = "none"
  BY DEF Init
<1> QED
  BY <1>1, <1>2, <1>3 DEF TransferInv

LEMMA TransferStutters ==
    ASSUME TransferInv, UNCHANGED vars
    PROVE  TransferInv'
<1>1. Still /\ UNCHANGED <<queue, todo, total, left, marked, requested, wire, saved, final, failure>>
  BY DEF vars, requester, Still
<1>2. Typed' = Typed /\ IsSeeding' = IsSeeding /\ FieldBytes' = FieldBytes
      /\ MaxPieceIdx' = MaxPieceIdx /\ Pieces' = Pieces
  BY <1>1, Frozen
<1>3. Started => Started'
  BY <1>1, <1>2 DEF Started, Still
<1>4. Fetching => Fetching'
  <2> SUFFICES ASSUME Fetching PROVE Fetching'
    OBVIOUS
  <2>1. PICK c \in done : \E n \in 0 .. BlockCount(c) :
          \E A \in SUBSET (1 .. n) : \E S \in SUBSET (1 .. n) : \E G \in SUBSET (1 .. n) :
              Working(c, n, A, S, G)
    BY DEF Fetching
  <2>2. PICK n \in 0 .. BlockCount(c) :
          \E A \in SUBSET (1 .. n) : \E S \in SUBSET (1 .. n) : \E G \in SUBSET (1 .. n) :
              Working(c, n, A, S, G)
    BY <2>1
  <2>3. PICK A \in SUBSET (1 .. n) : \E S \in SUBSET (1 .. n) : \E G \in SUBSET (1 .. n) :
              Working(c, n, A, S, G)
    BY <2>2
  <2>4. PICK S \in SUBSET (1 .. n), G \in SUBSET (1 .. n) : Working(c, n, A, S, G)
    BY <2>3
  <2>5. OrderPart(c)' /\ CountPart(c, G)' /\ AskedPart(c, n)' /\ SavedPart(c, G)'
    BY <1>1, <2>4, Kept DEF Working
  <2>6. WirePart(c, n, A, S, G)'
    <3>1. /\ BlockCount(c)' = BlockCount(c) /\ Quot(c)' = Quot(c)
          /\ \A i : Asked(c, i)' = Asked(c, i) /\ Req(c, i)' = Req(c, i) /\ Ans(c, i)' = Ans(c, i)
      BY <1>1, FrozenPiece
    <3> QED
      BY <1>1, <2>4, <3>1 DEF Working, WirePart
  <2> QED
    BY <1>1, <2>5, <2>6, Refetch
<1>5. Finished => Finished'
  <2>1. \A p : LikeTheFirst(p)' = LikeTheFirst(p) /\ Asked(p, 1)' = Asked(p, 1)
    BY <1>1, FrozenPiece
  <2> QED
    BY <1>1, <1>2, <2>1 DEF Finished, Still
<1>6. Safe => Safe'
  <2> SUFFICES ASSUME Safe PROVE Safe'
    OBVIOUS
  <2>1. AnswersAreExact'
    <3>1. \A p, b, l : Content(p, b, l)' = Content(p, b, l) /\ LikeTheFirst(p)' = LikeTheFirst(p)
      BY <1>1, FrozenPiece
    <3> QED
      BY <1>1, <3>1 DEF Safe, AnswersAreExact
  <2>2. AnswerFindsItsSlot' /\ AsksForWhatIsThere' /\ FileIdentical'
    BY <1>1 DEF Safe, AnswerFindsItsSlot, AsksForWhatIsThere, FileIdentical, Still, AnswerIdx
  <2> QED
    BY <2>1, <2>2 DEF Safe
<1> QED
  BY <1>1, <1>2, <1>3, <1>4, <1>5, <1>6 DEF TransferInv

(* Of every exchange, from the BITFIELD to the assembled file: where each  *)
(* block of the piece being fetched is.                                    *)
THEOREM TransferInvariance ==
    ASSUME OrdinarySizes
    PROVE  Spec => []TransferInv
<1>1. Init => TransferInv
  BY TransferInit
<1>2. TransferInv /\ [Next]_vars => TransferInv'
  <2> SUFFICES ASSUME TransferInv, [Next]_vars PROVE TransferInv'
    OBVIOUS
  <2>1. CASE SendBitfield
    BY <2>1, SendStep
  <2>2. CASE ReceiveBitfield
    BY <2>2, BitfieldStep
  <2>3. CASE Request
    BY <2>3, RequestStep
  <2>4. CASE Serve
    BY <2>4, ServeStep
  <2>5. CASE Receive
    BY <2>5, ReceiveStep
  <2>6. CASE UNCHANGED vars
    BY <2>6, TransferStutters
  <2> QED
    BY <2>1, <2>2, <2>3, <2>4, <2>5, <2>6 DEF Next
<1> QED
  BY <1>1, <1>2, PTL DEF Spec

(* readFromDownloadedData hands out the bytes the client asked for just    *)
(* when the piece has as many blocks as the first.                         *)
THEOREM AnswersAreExactHolds ==
    ASSUME OrdinarySizes
    PROVE  Spec => []AnswersAreExact
<1>1. TransferInv => AnswersAreExact
  BY InvSafe DEF Safe
<1> QED
  BY <1>1, TransferInvariance, PTL

(* An answer is numbered as its request was: onBlockReceive finds the      *)
(* channel the block requester waits on.                                   *)
THEOREM AnswerFindsItsSlotHolds ==
    ASSUME OrdinarySizes
    PROVE  Spec => []AnswerFindsItsSlot
<1>1. TransferInv => AnswerFindsItsSlot
  BY InvSafe DEF Safe
<1> QED
  BY <1>1, TransferInvariance, PTL

(* BuildPeerBitfieldMsg and GetPieceIndices agree on what the source has:  *)
(* the client asks for all of it and for nothing else.                     *)
THEOREM AsksForWhatIsThereHolds ==
    ASSUME OrdinarySizes
    PROVE  Spec => []AsksForWhatIsThere
<1>1. TransferInv => AsksForWhatIsThere
  BY InvSafe DEF Safe
<1> QED
  BY <1>1, TransferInvariance, PTL

(* What assembleBlocks_singlefilemode writes is the torrent, whatever its  *)
(* length and that of its pieces.                                          *)
THEOREM FileIdenticalHolds ==
    ASSUME OrdinarySizes
    PROVE  Spec => []FileIdentical
<1>1. TransferInv => FileIdentical
  BY InvSafe DEF Safe
<1> QED
  BY <1>1, TransferInvariance, PTL

(* The file of a seeding source is complete in the end just when every     *)
(* piece has as many blocks as the first, by which the requester counts.   *)
THEOREM FileUnlessShortHolds ==
    ASSUME OrdinarySizes
    PROVE  Spec => []FileUnlessShort
<1>1. TransferInv => FileUnlessShort
  BY InvSafe
<1> QED
  BY <1>1, TransferInvariance, PTL

-----------------------------------------------------------------------------
(* Why a process may panic: for torrents of any size *)

LEMMA FieldCovers ==
    ASSUME Typed, MaxPieceIdx % ByteBits # 0, NEW p \in Pieces
    PROVE  InField(p, FieldBytes)
<1> DEFINE M == MaxPieceIdx
           b == ByteBits
           F == FieldBytes
           d == p \div b
<1>1. M \in Nat /\ b \in Nat \ {0} /\ p \in Nat /\ p <= M
  BY TransferAssumption, Shape DEF MaxPieceIdx, Pieces
<1>2. F \in Nat /\ M <= F * b
  BY <1>1, CeilFacts DEF FieldBytes
<1>3. d \in Nat /\ p % b \in 0 .. b - 1 /\ p = d * b + (p % b)
  BY <1>1, DivModNat
<1>4. M % b # 0
  OBVIOUS
<1> HIDE DEF M, b, F, d
<1>5. M # F * b
  <2> SUFFICES ASSUME M = F * b PROVE FALSE
    OBVIOUS
  <2>1. M = F * b + 0 /\ 0 \in 0 .. b - 1
    BY <1>1, <1>2
  <2> QED
    BY <1>1, <1>2, <1>4, <2>1, DivModUnique
<1>6. d * b < F * b
  <2>1. d * b \in Int /\ F * b \in Int
    BY <1>1, <1>2, <1>3
  <2> QED
    BY <1>1, <1>2, <1>3, <1>5, <2>1
<1>7. d < F
  BY <1>1, <1>2, <1>3, <1>6, ProductOrder
<1> QED
  BY <1>7 DEF InField, d, F, b

(* The blocks of the pieces the source has. *)
Wanted == UNION {{Asked(p, i) : i \in 1 .. BlockCount(p)} : p \in done}

SurvivesInv ==
    /\ Typed
    /\ Survives
    /\ queue \in Seq(done) /\ todo \in Seq(Wanted)
    /\ \A m \in wire : m.kind = "BITFIELD" => m.bytes = FieldBytes /\ m.bits = done
    /\ \A m \in wire : m.kind = "REQUEST" => \E b \in Wanted : m = BuildPeerRequestMsg(b)

(* A piece of whole blocks has one at every offset it is asked for, even   *)
(* where the offset wraps around.                                          *)
LEMMA WholeIsFound ==
    ASSUME Typed, NEW p \in done, Whole(p), NEW i \in 1 .. BlockCount(p)
    PROVE  LET b == RequestedBlock(BuildPeerRequestMsg(Asked(p, i)))
           IN  HasBlockAt(b.piece, b.begin, b.length)
<1> DEFINE B == BlockLength
           n == (i - 1) * B
           u == n % Word
           v == u % Word
           a == Asked(p, i)
           b == RequestedBlock(BuildPeerRequestMsg(a))
<1>1. B \in Nat \ {0} /\ Word \in Nat \ {0} /\ p \in Pieces
  BY TransferAssumption DEF Typed
<1>2. /\ Quot(p) = BlockCount(p) /\ Quot(p) \in Nat /\ i \in 1 .. Quot(p) /\ i - 1 \in Nat
  BY <1>1, QuotWithin DEF Whole, Rest
<1>3. a.piece = p /\ a.begin = u /\ a.length = B
  <2>1. a = Block(p, i - 1, n, B)
    BY <1>1, <1>2, BlockFacts
  <2> HIDE DEF a, n
  <2> QED
    BY <2>1 DEF Block, U32
<1>4. b.piece = p /\ b.begin = v /\ b.length = B
  BY <1>3 DEF RequestedBlock, BuildPeerRequestMsg, Block, U32
<1>5. n \in Nat
  BY <1>1, <1>2, Product
<1> HIDE DEF n, a, b
<1>6. u \in Nat /\ u <= n
  <2>1. n \div Word \in Nat /\ u \in 0 .. Word - 1 /\ n = (n \div Word) * Word + u
    BY <1>1, <1>5, DivModNat
  <2>2. (n \div Word) * Word \in Nat
    BY <1>1, <2>1, Product
  <2> QED
    BY <1>1, <1>5, <2>1, <2>2
<1> HIDE DEF u
<1>7. v \in Nat /\ v <= u
  <2>1. u \div Word \in Nat /\ v \in 0 .. Word - 1 /\ u = (u \div Word) * Word + v
    BY <1>1, <1>6, DivModNat
  <2>2. (u \div Word) * Word \in Nat
    BY <1>1, <2>1, Product
  <2> QED
    BY <1>1, <1>6, <2>1, <2>2
<1> HIDE DEF v
<1>8. v \div B <= i - 1 /\ v \div B \in Nat
  <2> DEFINE d == v \div B
  <2>1. d \in Nat /\ v % B \in 0 .. B - 1 /\ v = d * B + (v % B)
    BY <1>1, <1>7, DivModNat
  <2> HIDE DEF d
  <2>2. d * B \in Nat
    BY <1>1, <2>1, Product
  <2>3. d * B <= (i - 1) * B
    BY <1>1, <1>5, <1>6, <1>7, <2>1, <2>2 DEF n
  <2>4. d <= i - 1
    BY <1>1, <1>2, <2>1, <2>3, ProductOrder
  <2> QED
    BY <2>1, <2>4 DEF d
<1>9. v \div B < BlockCount(p)
  BY <1>2, <1>8
<1> QED
  BY <1>4, <1>9 DEF HasBlockAt, a, b

LEMMA BlocksWanted ==
    ASSUME Typed, NEW p \in done
    PROVE  PieceBlocks(p) \in Seq(Wanted)
<1>1. /\ BlockCount(p) \in Nat
      /\ PieceBlocks(p) = [k \in 1 .. BlockCount(p) |-> Asked(p, k)]
  BY BlockFacts DEF Typed
<1>2. \A k \in 1 .. BlockCount(p) : Asked(p, k) \in Wanted
  BY DEF Wanted
<1>3. PieceBlocks(p) \in [1 .. BlockCount(p) -> Wanted]
  BY <1>1, <1>2
<1> QED
  BY <1>1, <1>3, IsASeq

LEMMA FirstWanted ==
    ASSUME Typed, NEW s \in Seq(done), queue \in Seq(done), todo \in Seq(Wanted), RequestFirstOf(s)
    PROVE  queue' \in Seq(done) /\ todo' \in Seq(Wanted)
<1>1. CASE s = <<>>
  BY <1>1 DEF RequestFirstOf
<1>2. CASE s # <<>>
  <2>1. Head(s) \in done /\ Tail(s) \in Seq(done)
    BY <1>2, HeadTailProperties
  <2> QED
    BY <1>2, <2>1, BlocksWanted DEF RequestFirstOf
<1> QED
  BY <1>1, <1>2

LEMMA SurvivesStep ==
    ASSUME SurvivesInv, [Next]_vars
    PROVE  SurvivesInv'
<1>1. Still
  BY DEF Still, Next, vars, SendBitfield, ReceiveBitfield, Request, Serve, Receive
<1>2. /\ Typed /\ Typed' /\ FieldBytes' = FieldBytes /\ MaxPieceIdx' = MaxPieceIdx
      /\ done' = done
  BY <1>1, Frozen DEF SurvivesInv, Still
<1>3. Wanted' = Wanted
  <2>1. \A p \in done : {Asked(p, i)' : i \in 1 .. BlockCount(p)'} = {Asked(p, i) : i \in 1 .. BlockCount(p)}
    BY <1>1, FrozenPiece
  <2> QED
    BY <1>2, <2>1 DEF Wanted
<1>4. \A p : Whole(p)' = Whole(p)
  BY <1>1, FrozenPiece
<1>5. /\ queue \in Seq(done) /\ todo \in Seq(Wanted)
      /\ \A m \in wire : m.kind = "BITFIELD" => m.bytes = FieldBytes /\ m.bits = done
      /\ \A m \in wire : m.kind = "REQUEST" => \E b \in Wanted : m = BuildPeerRequestMsg(b)
  BY DEF SurvivesInv
<1> DEFINE WireOK ==
              /\ \A m \in wire' : m.kind = "BITFIELD" => m.bytes = FieldBytes /\ m.bits = done
              /\ \A m \in wire' : m.kind = "REQUEST" =>
                    \E b \in Wanted : m = BuildPeerRequestMsg(b)
           Reasons == MaxPieceIdx % ByteBits = 0 \/ \E p \in done : ~Whole(p)
<1>6. SUFFICES /\ failure' = "panic" => Reasons
               /\ queue' \in Seq(done) /\ todo' \in Seq(Wanted)
               /\ WireOK
  BY <1>2, <1>3, <1>4 DEF SurvivesInv, Survives
<1>7. CASE SendBitfield
  <2>1. failure' = "panic" => \E p \in done : ~InField(p, FieldBytes)
    BY <1>7 DEF SendBitfield
  <2>2. failure' = "panic" => MaxPieceIdx % ByteBits = 0
    BY <1>2, <2>1, FieldCovers DEF Typed
  <2>3. WireOK
    BY <1>5, <1>7 DEF SendBitfield
  <2> QED
    BY <1>5, <1>7, <2>2, <2>3 DEF SendBitfield, requester
<1>8. CASE ReceiveBitfield
  <2>1. PICK m \in wire :
          /\ m.kind = "BITFIELD" /\ wire' = wire \ {m}
          /\ failure' = IF MaxPieceIdx > m.bytes * ByteBits THEN "closed"
                        ELSE IF InField(MaxPieceIdx, m.bytes) THEN "none" ELSE "panic"
          /\ LET pieces == AsIntSlice(m.bits)
             IN  IF failure' # "none" \/ pieces = <<>> THEN UNCHANGED requester
                 ELSE /\ total' = BlockCount(Head(pieces)) /\ left' = total'
                      /\ RequestFirstOf(pieces)
                      /\ UNCHANGED marked
    BY <1>8 DEF ReceiveBitfield
  <2>2. m.bytes = FieldBytes /\ m.bits = done
    BY <1>5, <2>1
  <2>3. MaxPieceIdx \in Pieces
    BY <1>2, Shape DEF MaxPieceIdx, Pieces
  <2>4. failure' = "panic" => MaxPieceIdx % ByteBits = 0
    <3>1. failure' = "panic" => ~InField(MaxPieceIdx, FieldBytes)
      BY <2>1, <2>2
    <3> QED
      BY <1>2, <2>3, <3>1, FieldCovers
  <2>5. AsIntSlice(m.bits) \in Seq(done)
    <3>1. done \subseteq Pieces /\ Pieces = 0 .. MaxPieceIdx /\ MaxPieceIdx \in Nat
      BY <1>2, Shape DEF Typed, Pieces, MaxPieceIdx
    <3>2. IsFiniteSet(0 .. MaxPieceIdx)
      BY <3>1, FS_Interval
    <3>3. IsFiniteSet(done)
      BY <3>1, <3>2, FS_Subset
    <3>4. done \in SUBSET Int /\ m.bits \cap 0 .. MaxPieceIdx = done
      <4>1. m.bits \cap 0 .. MaxPieceIdx = done
        BY <2>2, <3>1
      <4>2. 0 .. MaxPieceIdx \subseteq Int
        OBVIOUS
      <4>3. done \subseteq 0 .. MaxPieceIdx
        BY <3>1
      <4> QED
        BY <4>1, <4>2, <4>3
    <3> QED
      BY <3>3, <3>4, InOrderFacts DEF AsIntSlice
  <2>6. queue' \in Seq(done) /\ todo' \in Seq(Wanted)
    <3>1. CASE UNCHANGED requester
      BY <1>5, <3>1 DEF requester
    <3>2. CASE RequestFirstOf(AsIntSlice(m.bits))
      BY <1>2, <1>5, <2>5, <3>2, FirstWanted
    <3> QED
      BY <2>1, <3>1, <3>2
  <2> QED
    BY <1>5, <2>1, <2>4, <2>6
<1>9. CASE Request
  <2>1. /\ todo # <<>> /\ wire' = wire \cup {BuildPeerRequestMsg(Head(todo))}
        /\ todo' = Tail(todo) /\ queue' = queue /\ failure' = "none"
    BY <1>9 DEF Request
  <2>2. Head(todo) \in Wanted /\ Tail(todo) \in Seq(Wanted)
    BY <1>5, <2>1, HeadTailProperties
  <2>3. BuildPeerRequestMsg(Head(todo)).kind = "REQUEST"
    BY DEF BuildPeerRequestMsg
  <2>4. WireOK
    BY <1>5, <2>1, <2>2, <2>3
  <2> QED
    BY <1>5, <2>1, <2>2, <2>4
<1>10. CASE Serve
  <2> DEFINE asked(m) == RequestedBlock(m)
             found(m) == BlockAt(asked(m).piece, asked(m).begin, asked(m).length)
             seek(m) == SeekLocation(asked(m).piece, found(m))
             eof(m) == IsSeeding /\ seek(m) >= torrent.length
             buff(m) == IF IsSeeding THEN ReadFile(seek(m), found(m).length) ELSE <<>>
             has(m) == HasBlockAt(asked(m).piece, asked(m).begin, asked(m).length)
  <2>1. PICK m \in wire :
          /\ m.kind = "REQUEST"
          /\ has(m) => /\ failure' = failure
                       /\ wire' = (wire \ {m}) \cup
                             (IF eof(m) THEN {} ELSE {BuildPeerPieceMsg(found(m), buff(m))})
          /\ ~has(m) => failure' = "panic" /\ wire' = wire \ {m}
    BY <1>10 DEF Serve
  <2>2. ~has(m) => \E p \in done : ~Whole(p)
    <3>1. PICK p \in done : \E i \in 1 .. BlockCount(p) : m = BuildPeerRequestMsg(Asked(p, i))
      BY <1>5, <2>1 DEF Wanted
    <3>2. PICK i \in 1 .. BlockCount(p) : m = BuildPeerRequestMsg(Asked(p, i))
      BY <3>1
    <3>3. Whole(p) => has(m)
      BY <1>2, <3>2, WholeIsFound
    <3> QED
      BY <3>3
  <2>3. BuildPeerPieceMsg(found(m), buff(m)).kind = "PIECE"
    BY DEF BuildPeerPieceMsg
  <2> HIDE DEF asked, found, seek, eof, buff, has
  <2>4. \A x \in wire' : x \in wire \/ x.kind = "PIECE"
    BY <2>1, <2>3
  <2>5. WireOK
    BY <1>5, <2>4
  <2>6. failure' = "panic" => Reasons
    <3>1. failure = "none"
      BY <1>10 DEF Serve
    <3> QED
      BY <2>1, <2>2, <3>1
  <2>7. UNCHANGED <<queue, todo>>
    BY <1>10 DEF Serve, requester
  <2> QED
    BY <1>5, <2>5, <2>6, <2>7
<1>11. CASE Receive
  <2>1. PICK m \in wire :
          /\ wire' = wire \ {m}
          /\ IF m.buff = <<>>
             THEN /\ failure' = "closed"
                  /\ UNCHANGED <<queue, todo, left, marked, saved, final>>
             ELSE Save(m) /\ UNCHANGED failure
    BY <1>11 DEF Receive
  <2>2. queue' \in Seq(done) /\ todo' \in Seq(Wanted)
    <3>1. CASE UNCHANGED <<queue, todo>>
      BY <1>5, <3>1
    <3>2. CASE RequestFirstOf(queue)
      BY <1>2, <1>5, <3>2, FirstWanted
    <3> QED
      BY <2>1, <3>1, <3>2 DEF Save
  <2>3. failure' # "panic"
    BY <1>11, <2>1 DEF Receive
  <2> QED
    BY <1>5, <2>1, <2>2, <2>3
<1>12. CASE UNCHANGED vars
  BY <1>5, <1>12 DEF vars, requester, SurvivesInv, Survives
<1> QED
  BY <1>7, <1>8, <1>9, <1>10, <1>11, <1>12 DEF Next

(* A process panics only for a BITFIELD that is a byte too short or for a  *)
(* shorter last block, whatever the sizes: where regular offsets wrap      *)
(* around, the block found may be another one, but there is one.           *)
THEOREM SurvivesHolds == Spec => []Survives
<1>1. Init => SurvivesInv
  <2> SUFFICES ASSUME Init PROVE SurvivesInv
    OBVIOUS
  <2>1. queue = <<>> /\ todo = <<>> /\ wire = {} /\ failure = "none" /\ Typed
    BY DEF Init, Typed
  <2>2. <<>> \in Seq(done) /\ <<>> \in Seq(Wanted)
    BY EmptySeq
  <2> QED
    BY <2>1, <2>2 DEF SurvivesInv, Survives
<1>2. SurvivesInv /\ [Next]_vars => SurvivesInv'
  BY SurvivesStep
<1>3. SurvivesInv => Survives
  BY DEF SurvivesInv
<1> QED
  BY <1>1, <1>2, <1>3, PTL DEF Spec
=============================================================================
