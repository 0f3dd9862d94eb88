------------------------------ MODULE Transfer ------------------------------
(***************************************************************************)
(* What travels between a peer that has pieces and the client that         *)
(* downloads them: the BITFIELD, one REQUEST per block, the PIECE that     *)
(* answers it, the file a block is saved in, and the file made of all of   *)
(* them.  Every conversion between a position in the torrent, a block and  *)
(* a message is modelled by what it computes; a byte is represented by its *)
(* position in the torrent, counted from 1.                                *)
(***************************************************************************)
EXTENDS Integers, Sequences, FiniteSets, SequencesExt, Order

CONSTANTS
    Torrents,       \* records [length, pieceLength]
    BlockLength,    \* BLOCK_LENGTH
    Word,           \* BOUND: 2^32, in small; uint32 arithmetic is modulo Word
    ByteBits        \* 8: bits of a byte of a BITFIELD

ASSUME TransferAssumption ==
    /\ \A t \in Torrents : t.length \in Nat \ {0} /\ t.pieceLength \in Nat \ {0}
    /\ BlockLength \in Nat \ {0} /\ ByteBits \in Nat \ {0} /\ Word \in Nat \ {0}

VARIABLES
    torrent,    \* the torrent both sides know
    done,       \* pieces the source has
    queue,      \* piecesToDownloadQueue
    todo,       \* blocks of the current piece the client has still to request
    total, left,\* totalNumOfBlocks and blocksLeft of its block requester
    marked,     \* pieces the client has marked as done
    requested,  \* blocks the client has requested
    wire,       \* messages on their way, or in the hands of a handler
    saved,      \* block files of the client: name |-> content
    final,      \* content of the assembled file, or none yet
    failure     \* "none", "closed" (by the client), "panic" (either process)

requester == <<queue, todo, total, left, marked>>
vars == <<torrent, done, requester, requested, wire, saved, final, failure>>

-----------------------------------------------------------------------------
(* Geometry: NewFileInfo and CalculateNewPiece. *)

CeilDiv(a, b) == (a + b - 1) \div b

U32(n) == n % Word

NumPieces == CeilDiv(torrent.length, torrent.pieceLength)
Pieces == 0 .. NumPieces - 1

(* The last piece is what is left, unless that is nothing. *)
PieceLength(p) ==
    LET remaining == torrent.length % torrent.pieceLength
    IN  IF p = NumPieces - 1 /\ remaining # 0 THEN remaining ELSE torrent.pieceLength

\* Seeded fault: blocks are numbered from one.
BlockFromOne(p, idx, begin, length) ==
    [piece |-> p, idx |-> idx + 1, begin |-> U32(begin), length |-> length]

Block(p, idx, begin, length) ==
    [piece |-> p, idx |-> idx, begin |-> U32(begin), length |-> length]

(* A shorter last block gets the index of the block before it and, by the  *)
(* precedence of 'totalBlocks-1*blockLength', a begin of its own.          *)
PieceBlocks(p) ==
    LET totalBlocks == PieceLength(p) \div BlockLength
        remaining == PieceLength(p) % BlockLength
        regular == [i \in 1 .. totalBlocks |->
                       Block(p, i - 1, (i - 1) * BlockLength, BlockLength)]
    IN  IF remaining = 0 THEN regular
        ELSE Append(regular, Block(p, totalBlocks - 1, totalBlocks - 1 * BlockLength, remaining))

BlockCount(p) == Len(PieceBlocks(p))

(* PieceImpl.GetBlockFromOffset: no block beyond the last one. *)
HasBlockAt(p, begin, length) == begin \div length < BlockCount(p)
BlockAt(p, begin, length) == PieceBlocks(p)[begin \div length + 1]

-----------------------------------------------------------------------------
(* BITFIELD *)

MaxPieceIdx == NumPieces - 1

\* Seeded fault: the number of bytes is rounded down.
RoundedDown == MaxPieceIdx \div ByteBits

(* NewBitfield is given the highest piece index as its number of bits.     *)
FieldBytes == CeilDiv(MaxPieceIdx, ByteBits)
InField(i, bytes) == i \div ByteBits < bytes

(* handlePeerHandshakeMessage: Bitfield.Set panics outside of its bytes.   *)
SendBitfield ==
    /\ failure = "none"
    /\ wire = {} /\ total = 0
    /\ \E inside \in {\A p \in done : InField(p, FieldBytes)} :
          /\ failure' = IF inside THEN "none" ELSE "panic"
          /\ wire' = IF inside
                     THEN {[kind |-> "BITFIELD", bytes |-> FieldBytes, bits |-> done]}
                     ELSE wire
    /\ UNCHANGED <<torrent, done, requester, requested, saved, final>>

\* Seeded fault: the maximum is left out.
BelowMax(bits) == InOrder(bits \cap 0 .. MaxPieceIdx - 1)

(* AsIntSlice includes the maximum. *)
AsIntSlice(bits) == InOrder(bits \cap 0 .. MaxPieceIdx)

(* RequestNextPiece; the client has reserved none of these pieces yet.      *)
RequestFirstOf(pieces) ==
    IF pieces = <<>> THEN UNCHANGED <<queue, todo>>
    ELSE queue' = Tail(pieces) /\ todo' = PieceBlocks(Head(pieces))

(* GetPieceIndices refuses a field that is too short, short of one bit;    *)
(* Bitfield.Has then panics.  The block requester counts by the first      *)
(* piece, for all of them.                                                 *)
ReceiveBitfield ==
    /\ failure = "none"
    /\ \E m \in wire :
          /\ m.kind = "BITFIELD"
          /\ wire' = wire \ {m}
          /\ failure' = IF MaxPieceIdx > m.bytes * ByteBits THEN "closed"
                        ELSE IF InField(MaxPieceIdx, m.bytes) THEN "none" ELSE "panic"
          /\ LET pieces == AsIntSlice(m.bits)
             IN  IF failure' # "none" \/ pieces = <<>> THEN UNCHANGED requester
                 ELSE /\ total' = BlockCount(Head(pieces)) /\ left' = total'
                      /\ RequestFirstOf(pieces)
                      /\ UNCHANGED marked
    /\ UNCHANGED <<torrent, done, requested, saved, final>>

-----------------------------------------------------------------------------
(* REQUEST and PIECE *)

BuildPeerRequestMsg(b) ==
    [kind |-> "REQUEST", piece |-> b.piece, begin |-> b.begin, length |-> b.length]

BuildPeerPieceMsg(b, buff) ==
    [kind |-> "PIECE", piece |-> b.piece, begin |-> b.begin, buff |-> buff]

(* The blocks of a piece are requested one by one. *)
Request ==
    /\ failure = "none"
    /\ todo # <<>>
    /\ LET b == Head(todo)
       IN  /\ wire' = wire \cup {BuildPeerRequestMsg(b)}
           /\ requested' = requested \cup {b}
    /\ todo' = Tail(todo)
    /\ UNCHANGED <<torrent, done, queue, total, left, marked, saved, final, failure>>

(* RequestPeerMsg.GetBlock *)
RequestedBlock(m) == Block(m.piece, m.begin \div m.length, m.begin, m.length)

\* Seeded fault: the piece index is not scaled.
SeekWithinPiece(p, b) == b.idx * b.length

SeekLocation(p, b) == (p * BlockCount(p) + b.idx) * b.length

(* A read that reaches past the end leaves zeros. *)
ReadFile(from, length) ==
    [i \in 1 .. length |-> IF from + i <= torrent.length THEN from + i ELSE 0]

IsSeeding == done = Pieces

(* handlePeerRequestMessage: a missing block is a nil block, which         *)
(* BuildPeerPieceMsg dereferences; a source that does not seed yet has no  *)
(* bytes to send.  Reading at the end of the file is an error, which ends  *)
(* listenForMessages at the source but not its reader loop, nor the        *)
(* connection: the request stays without an answer.                        *)
Serve ==
    /\ failure = "none"
    /\ \E m \in wire :
          /\ m.kind = "REQUEST"
          /\ LET asked == RequestedBlock(m)
                 b == BlockAt(asked.piece, asked.begin, asked.length)
                 seek == SeekLocation(asked.piece, b)
                 eof == IsSeeding /\ seek >= torrent.length
                 buff == IF IsSeeding THEN ReadFile(seek, b.length) ELSE <<>>
             IN  IF HasBlockAt(asked.piece, asked.begin, asked.length)
                 THEN /\ wire' = (wire \ {m}) \cup
                                     (IF eof THEN {} ELSE {BuildPeerPieceMsg(b, buff)})
                      /\ UNCHANGED failure
                 ELSE failure' = "panic" /\ wire' = wire \ {m}
    /\ UNCHANGED <<torrent, done, requester, requested, saved, final>>

(* PiecePeerMsg.GetBlock numbers the block by the length of its bytes.     *)
AnswerIdx(m) == m.begin \div Len(m.buff)

\* Seeded fault: the chunks are not sorted by piece first.
ByBlock(a, b) == a[2] < b[2] \/ (a[2] = b[2] /\ a[1] < b[1])

(* sort.Strings on names with ten digits per number. *)
ByName(a, b) == a[1] < b[1] \/ (a[1] = b[1] /\ a[2] < b[2])

(* Built by rank: a sort that enumerates permutations is out of reach.      *)
SortedNames(names) ==
    [k \in 1 .. Cardinality(names) |->
        CHOOSE n \in names : Cardinality({x \in names : ByName(x, n)}) = k - 1]

(* assembleBlocks_singlefilemode *)
Assembled(blocks) ==
    LET names == SortedNames(DOMAIN blocks)
    IN  FlattenSeq([k \in DOMAIN names |-> blocks[names[k]]])

\* Seeded fault: the count is not set back for the next piece.
NotReset == 0

Reset == total

(* SaveBlock names the file after piece and block.  The answer that brings *)
(* the count to zero marks its piece and has the next one requested, or    *)
(* the file assembled.                                                     *)
Save(m) ==
    LET name == <<m.piece, AnswerIdx(m)>>
        blocks == [x \in DOMAIN saved \cup {name} |-> IF x = name THEN m.buff ELSE saved[x]]
        last == left = 1
    IN  /\ left' = IF last THEN Reset ELSE left - 1
        /\ marked' = IF last THEN marked \cup {m.piece} ELSE marked
        /\ IF marked' = Pieces
           THEN final' = Assembled(blocks) /\ saved' = <<>>
           ELSE saved' = blocks /\ UNCHANGED final
        /\ IF last THEN RequestFirstOf(queue) ELSE UNCHANGED <<queue, todo>>

Receive ==
    /\ failure = "none"
    /\ \E m \in wire :
          /\ m.kind = "PIECE"
          /\ wire' = wire \ {m}
          /\ IF m.buff = <<>>
             THEN /\ failure' = "closed"
                  /\ UNCHANGED <<queue, todo, left, marked, saved, final>>
             ELSE Save(m) /\ UNCHANGED failure
    /\ UNCHANGED <<torrent, done, total, requested>>

-----------------------------------------------------------------------------
Init ==
    /\ torrent \in Torrents
    /\ done \in (SUBSET Pieces) \ {{}}
    /\ queue = <<>> /\ todo = <<>> /\ total = 0 /\ left = 0 /\ marked = {}
    /\ requested = {} /\ wire = {}
    /\ saved = <<>> /\ final = <<>> /\ failure = "none"

Next == SendBitfield \/ ReceiveBitfield \/ Request \/ Serve \/ Receive

Spec == Init /\ [][Next]_vars
-----------------------------------------------------------------------------
(* Properties *)

(* The bytes of a piece, by their position in the torrent. *)
Content(p, begin, length) ==
    [i \in 1 .. length |-> p * torrent.pieceLength + begin + i]

(* Whether a piece has as many blocks as the first, and only whole ones.   *)
LikeTheFirst(p) == BlockCount(p) = BlockCount(0)
Whole(p) == PieceLength(p) % BlockLength = 0

(* An answer with bytes carries those the client asked for, of that piece  *)
(* and at that offset, just when the piece has as many blocks as the       *)
(* others: readFromDownloadedData takes the position of a piece to be its  *)
(* index times its own number of blocks.                                   *)
AnswersAreExact ==
    \A m \in wire :
        m.kind = "PIECE" /\ m.buff # <<>> =>
            \E b \in requested :
                /\ b.piece = m.piece /\ b.begin = m.begin
                /\ (m.buff = Content(b.piece, b.begin, b.length)) <=> LikeTheFirst(m.piece)

(* The block number the client reads out of an answer is the one its       *)
(* request left a channel for (onBlockReceive).                            *)
AnswerFindsItsSlot ==
    \A m \in wire :
        m.kind = "PIECE" /\ m.buff # <<>> =>
            \E b \in requested :
                /\ b.piece = m.piece /\ b.begin = m.begin /\ b.idx = AnswerIdx(m)

(* The client asks for every block of the pieces the source has, and for   *)
(* nothing else: BuildPeerBitfieldMsg and GetPieceIndices agree.           *)
AsksForWhatIsThere ==
    total # 0 => {b.piece : b \in requested \cup ToSet(todo)} \cup ToSet(queue) = done

(* The assembled file is the torrent, byte for byte, whatever its shape.   *)
FileIdentical ==
    final # <<>> => final = [i \in 1 .. torrent.length |-> i]

(* When a seeding source has nothing more to answer, the file is there     *)
(* just when all pieces have the same number of blocks: the requester      *)
(* never counts a shorter last piece down to zero.                         *)
FileUnlessShort ==
    failure = "none" /\ total # 0 /\ wire = {} /\ todo = <<>> /\ IsSeeding =>
        (final # <<>> <=> \A p \in Pieces : LikeTheFirst(p))

(* The processes survive torrents of whole blocks whose number of pieces   *)
(* is not one more than a multiple of eight; for those, the BITFIELD is a  *)
(* byte too short.  A shorter last block is looked up at an offset that    *)
(* has wrapped around.                                                     *)
Survives ==
    failure = "panic" =>
        \/ MaxPieceIdx % ByteBits = 0
        \/ \E p \in done : ~Whole(p)
=============================================================================
