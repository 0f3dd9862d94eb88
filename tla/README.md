# A verification project for totorrent

totorrent is a BitTorrent client in Go. These modules model it from the tracker query to the
file on disk: the query, the connections the client makes and accepts, the cutting of byte
streams into messages, the queues of announced pieces, the reservation of pieces among
connections, the block requests with their misfire timers, what travels in the messages, and
the assembly of the file. TLC checks small instances; TLAPS proves 33 of their properties
for every value of the constants: all but liveness and one.

The reference is the source under `src/`. Where its comments and its code disagree, the model
follows the code, and a run or a property that names the exception shows the disagreement.

## 1. Inventory

| Part | Source | State | Operations | Hard because |
|---|---|---|---|---|
| Piece table | `piece/piece.go` | status and downloader of each piece, a mutex | `TryToReserve`, `MarkAsDone`, `TotalUndonePiecesLeft` | shared by all connections; reads before and after the lock |
| Queue and `RequestNextPiece` | `peer/peerconn.go` | `piecesToDownloadQueue`, `isDownloading` | dequeue, reserve or skip, request all blocks | the queue has no lock; 200 ms sleeps between requests; one flag for all connections |
| Block requester | `peer/blockrequester.go` | a channel per block index, `blocksLeft`, a mutex, `misfires` | `request`, `onBlockReceive`, `BlocksLeft`, `reset`, the timeout goroutine | retries race late answers; a channel is overwritten, closed or absent |
| Message handlers | `peer/peermsghandlers.go` | none of their own | one handler per message, each in its own goroutine | two messages of one connection are handled concurrently |
| Connection loop | `peer/peer.go`, `peer/peerconn.go` | `peersRemaining`, two channels, `PeerConnections` | `ConnectWithAllPeers`, `connectWithPeer`, `listenForMessages`, writer goroutine, `Close` | several reports per connection; unlocked append; bounded channels |
| Reader and writer | `peer/peerconn.go:49-201`, `peer/peermsg.go` | a buffer, a remaining length and the bytes so far, per message | writer goroutine, `ReadPeerMsg`, `ParseRawPeerMsgLength` | TCP segmentation, limits, timeouts |
| Messages | `peer/peermsg.go` | none | build, serialise, parse | offsets and indices must mean the same on both sides |
| Geometry, bitfield | `piece/piece.go`, `fileinfo/fileinfo.go`, `util/bitfield.go` | none | `NewFileInfo`, `CalculateNewPiece`, `Set`/`Has`/`AsIntSlice` | last piece, last block, uint32 |
| Block store and assembly | `fileinfo/fileinfo.go` | block files, final file, `IsSeeding` | `SaveBlock`, `GetBlock`, `DefaultFinalizeFunc` | check-then-create, overlapping calls, partial copies, restarts |
| Accept side | `peer/peer.go:74-90,318-384`, `peer/peerconn.go:275-297` | a listener, `PeerConnections`, an error channel | `ListenForPeers`, `acceptConn`, `Close` | falls through unknown errors; one `err` for two goroutines; `Close` next to the accept loop |
| Announce | `announce/announce.go` | one answer record for all servers | `GetPeers`, `QueryAnnounceUrls` | a record decoded into more than once; no timeout |
| Command line | `main.go` | – | `downloadTorrent`, exit code | – |
| Utilities, mocks, test peers | the rest | – | – | I/O and test support |

How they interact. `main` decodes the torrent, asks the trackers for peers and calls
`ConnectWithAllPeers`. Each peer gets a goroutine (dial, register, handshake, listen) and a
writer goroutine. The reader passes messages to a receiver loop that starts one goroutine per
message. A HAVE or BITFIELD fills the queue of its connection and, when it found the queue
empty, makes a block requester and calls `RequestNextPiece`, which reserves a piece in the
shared table and starts one `request` goroutine per block. A PIECE is counted by the current
requester, saved, and, when nothing is left, the piece is marked as done and the next one
requested; after the last piece the files are assembled and the client seeds. The first error
of a connection ends its listening and is reported to the main loop, which counts down and
returns at zero; then the process ends.

What makes the parts correct: a piece has one source and is never marked as done with a block
missing; what is queued is lost only when handlers race for the queue; the countdown agrees with what is stored; no handler panics
or hangs but after races that can be named; the final file is the torrent; the download ends; the main loop returns, and only
when all connections are done; both sides mean the same bytes by the same offset; messages
arrive whole and in order; a block is on disk until it is in the final file; `Close` closes
what it is to close, and the accept loop then ends; the query returns the answer it was given.

## 2. Modules

| Module | Models | Notes |
|---|---|---|
| `SafePieces` | the piece table; each operation is one step because of the mutex | `CanReserve`/`Reserve` = `TryToReserve` |
| `PieceLedger` | abstract specification: a piece is claimed once, for good, and finished only when claimed | |
| `Download` | queue, requesters, timers, handlers, finalization; uses `SafePieces`, implements `PieceLedger` | one action per step between which another goroutine can act |
| `Races` | `Download` with a record of the races its connections have been through, and what takes such a race | two history variables |
| `Transfer` | a source and the client: BITFIELD, REQUEST, PIECE, block files, countdown, final file | geometry as operators |
| `Wire` | abstract specification: messages are received once, unchanged and in order | |
| `Framing` | writer goroutine, socket, `ReadPeerMsg`; implements `Wire` when nothing is segmented | messages as bytes |
| `Assembly` | `DefaultFinalizeFunc`, file operation by file operation | calls that overlap, failures, kills |
| `Announce` | `GetPeers`, `QueryAnnounceUrls`, the decoding of answers | ways to end include its panics |
| `Connections` | main loop, one goroutine and one writer per peer, two bounded channels | |
| `Client` | `downloadTorrent`: composes `Announce` and `Connections`, adds the exit code | |
| `Listener` | accept loop, goroutines of an accepted connection, `Peer.Close` | |
| `Order` | operators on ordered sets and sequences without recursion: sorting, selecting, removing duplicates | |
| `MCDownload`, `MCRaces`, `MCTransfer`, `MCFraming`, `MCAssembly`, `MCClient`, `MCListener` | instance values for TLC | |
| `DownloadProofs`, `PacedProofs` | theorems about `Download` and `Races`, the second module extending the first | section 6 |
| `TransferProofs`, `FramingProofs`, `AssemblyProofs`, `ClientProofs`, `ListenerProofs` | theorems about these components; `ClientProofs` about `Announce` and `Connections` too | section 6 |
| `OrderProofs` | lemmas about `Order` | section 6 |

`Client` carries `Announce` and `Connections` in one state: `ConnectWithAllPeers` is called
with the peers the query returned (`StartConnecting`), so the runs see lists of no, one, two
and three peers. Definitions marked "Seeded fault" are not part of the model: each is a
plausible slip in the definition below it, and the property it belongs to fails under it.

State and actions of `Download` against the code:

- `pc[h]` is the program counter of the goroutine of message `h`. A REQUEST, with its retry
  number, stands for the channel made for it, for its timeout goroutine and for the handler of
  its answer: each exists once per request. `idle`: not made; `ask`: its goroutine has been started
  by `RequestNextPiece` and has not sent it; `sent`: the answer is awaited.
- `requesters[c]` keeps every block requester of a connection; the last is
  `peerConn.blockRequester`. A handler of a PIECE reads that field first (`LookUp`) and waits for the
  mutex of what it found (`at`), even if the requester is replaced meanwhile.
- The queue is read and written in two steps (`ReadQueue`/`WriteQueue`,
  `Dequeue`/`AdvanceQueue`), as are `misfires++` (`TimerExpires`/`Misfire`, and `JudgePeer` reads the counter again) and
  `blocksLeft` (`ReceiveBlock`/`DecrementLeft`, under the requester's mutex `holder`). The test of
  the queue's length and the write of the flag are apart, too (`NextPiece`, then `StopRequesting`
  or `BeginPiece`).
- A panic (`crash`) stops everything: Go ends the process.
- `downloader` names the connection. The code stores the remote peer's identifier, which is
  all zeros for the peers of a compact tracker answer; it is never compared.
- An error of `SaveBlock` reaches the main loop as an error of the client itself, which closes
  the client's connections; `ReportError` does this at once, `Connections` and `Listener` with
  the early return of `Close`.

`Transfer`. A byte is its position in the torrent, so a file or a message with the right bytes
can be told from one with others. A source has any non-empty set of pieces; it seeds when it
has all of them. `total` and `left` are `totalNumOfBlocks` and `blocksLeft` of the one
requester; `Receive` is the whole handler of a PIECE, from the countdown to the next piece or
the assembled file. The concurrency of these steps is `Download`'s subject. A source that has no
such block, or reaches the end of its file (`Serve`), logs it and goes on serving; an answer
without bytes ends the connection at the client.

`Framing`. `buf`, `total` and `remaining` are `msgBuf`, `totalBuff` and `remainingMsgLen` of the
`ReadPeerMsg` under way. `Read(c)` is one pass of its loop with a `Conn.Read` that returned `c`
bytes: they overwrite the beginning of the buffer, and the code then takes
`min(len(msgBuf), remainingMsgLen)` bytes from it, however many were read. Bytes and the big-endian prefix of
four bytes are the code's. The errors of building a message (a truncated prefix, a failed write to
a buffer in memory) are left out: no message that is sent meets them. The buffer,
the limit and the handshake are constants, which in the instance keep the order the code's
have (a buffer at least as long as a handshake, a limit of several buffers). `MessageAssumption` says that no message is so long that its prefix begins with the
19 of a greeting, which takes 19 * 2^24 bytes, far above the limit of 16,640. The name of
the protocol, the hash and the identifier of a handshake are opaque bytes, but the reserved
bytes are rebuilt as the code does.

`Assembly`. A block is two bytes, so that a copy can stop halfway. `apart` is chosen
initially: whether calls overlap. `FindsFile` is `ALREADY_EXISTS`, after which `Finalize`
declares the client to be seeding. A handle writes at its own offset, over what another call
has written or past its end (which leaves zeros). `Restart` is a client that is killed and
started again: the final file stays, the block directory is a new temporary one, and is
downloaded again.

`Announce`. `body` is `decodedRespBody`, into which all answers are decoded; `asked` records
for the properties what each server has put there. A server in `Silent` never answers. An entry of a
peer list is a value of its own: a server asked twice adds entries that are not there yet
(`Given`), as the code appends them, so none is merged with another. `AskMistyped` is an entry of
the wrong type, which panics.

`Connections`. `blamed` counts the errors that name the client itself; it is not in the code,
which passes each of them to `onPeerErrorFunc`. The error branch of `SendHandshakeFunc` in
`connectWithPeer` is left out, because `DefaultSendHandshakeFunc`, the only one the program
uses, always returns nil.

`Listener`. `err[r]` is the `err` of the loop's iteration that accepted `r`, which the
goroutines of `OnConnectFunc` and `SendHandshakeFunc` share: it is assigned, tested and read
again in separate steps. `snapshot` is the slice `Close` ranges over. `choked`, `result` and
`overlap` are history variables. `main` does not call `ListenForPeers`; the tests do, so
nobody is assumed to read `errChan` (`TakeErr` may happen and need not).

## 3. Runs

| Run | Question | Instance |
|---|---|---|
| `paced` | Do countdown, disk, piece table, timers and final file agree though a peer vanishes, and when does the client end up seeding? | a complete peer and one that has one of 2 pieces of 2 blocks and may vanish; 2 tries; 278,222 states |
| `hazards` | Does only the holder request a piece, is the ledger kept, and what does it take to hang, to lose a piece, to panic? | a growing peer, fully concurrent, and a slow one that may vanish; writes may fail; 823,935 states |
| `transfer` | Do both sides mean the same bytes, and for which torrents does the transfer end with the file? | 12 torrents of 1 to 10 pieces, regular and irregular, every set of pieces at the source; 10,800 states |
| `framing` | Do reader and writer stay in step, is `Wire` implemented, what is refused? | 8 messages around the sizes of buffer and limit, up to 3 written; 3,213 states |
| `assembly` | What can be lost, overwritten or wrongly seeded, and when? | 3 calls, 3 blocks, 2 failures or kills; 56,257 states |
| `client` | What does the query return, is the countdown exact, does the program exit, and with which code? | 6 torrents, 5 URLs, 3 peers of which two are tried, channels of 2; 86,480 states |
| `listener` | What does `Close` leave open, does the accept loop end, are errors told? | 2 peers, one with slow functions, `errChan` of 1, 2 calls of `Close`; 1,002,964 states |

What they show beyond the obvious:

- `paced`: `EventuallySeeding` says what a vanished peer costs: nothing, unless it keeps a
  piece. Its requests are repeated to nobody, and the pieces it only queued come from others.
- `hazards`: pieces are lost and the process panics here, and `PieceLostOnlyByOverlap` and
  `PanicsOnlyUnderRaces` say what it takes: two handlers of one connection at its queue at once
  for a lost piece or an index into an empty queue, two requests for one block number in flight
  at once, or a repeated one, for a channel closed twice.
- `client`: `NobodySkipped` says which servers a query has asked however it ends; a malformed
  URL that is reached ends it. `RemainingIsExact` says by how much the countdown is off: exactly by the errors
  blamed on the client. So the loop never waits for a report nobody sends, but it may return
  while that many connections run (`ZeroMeansTried`). `GoodAnswerReturned` names the only way a
  good answer is turned into an error: a failure reason left over from an invalid one.
- `assembly`: with calls apart, no byte is ever lost (`NothingLost`) and the file is only
  added to (`OverwrittenOnlyByOverlap`), failures and kills included; but only without them is
  what is seeded known to be the torrent (`SeedsTheTorrent`): a partial file is taken for a
  finished one. Overlapping calls remove each other's files, yet one of them always gets
  through (`EndsUpSeeding`).
- `listener`: `Close` gives up, and leaves the listener open, only when a handler has closed a
  connection (`GivesUpOnlyForTheChoked`); one that succeeds leaves open only what was accepted
  while it ran (`LeftOpen`). `ErrorsTold` says when the shared `err` loses an error.
- `transfer`: `FileUnlessShort`, `AnswersAreExact` and `Survives` characterise the torrents the
  geometry is right for, and hold in both directions where they say "just when".

Bounds. `MaxTries` limits the REQUESTs for one block (the code has no limit but the misfire
count); two are enough for a late answer, a doubled answer and a replaced channel.
`AllowedMisfires` is 3 in the code; 0 or 1 make the limit reachable. Two blocks per piece
distinguish first from last; two pieces let a queue hold an entry while one is in flight, and
one connection be refused what the other holds. `Word` stands for 2^32 and exceeds every offset of the instances, but for the ones
that wrap. `MaxMessages` of three leaves a message before and after each. `MaxFaults` of two
lets a failure follow a restart; a third call can meet a file two others have left. `Cap`
stands for 10; two places (one in `Listener`) let the channels fill. `MaxCloses` of two is a
`Close` after a `Close`. Deadlock is not checked: downloads, connections and calls end.

The message orders allowed. `PacedConns` are peers whose messages are handled before the next
is read, as the 100 ms the remote writer sleeps after each message makes usual
(`peerconn.go:90`); while `RequestNextPiece` sleeps between two requests (`:433`), answers do
arrive. `hazards` does without this assumption for the growing peer, and so do `fast_answers` and
`lost_piece`.
`SlowConns` may exceed the timeouts, `LossyConns` may vanish. `Segmented = FALSE` in `framing`
is the same assumption at the level of bytes; `segments` drops it.

### Disagreements between code and documentation

Each of these runs ends in a counterexample.

| Run | What it shows |
|---|---|
| `late_answer` | `blocksLeft` counts both answers to a repeated request; a piece with a missing block is marked as done (`blockrequester.go:108`) |
| `dead_owner` | the reservation of a vanished peer is never given back (`blockrequester.go:81`) |
| `fast_answers` | a block is counted before it is written; the file can be assembled without it (`peermsghandlers.go:122`) |
| `lost_piece` | a HAVE and `RequestNextPiece` overwrite each other's queue; a piece is announced and never requested (`peerconn.go:411`) |
| `segments` | `ReadPeerMsg` drops what follows a message in one read and fills short reads up with old bytes (`peerconn.go:182`) |

Others need no run of their own, because a property of a passing run says exactly when they
happen:

| Where | What | Property |
|---|---|---|
| `blockrequester.go:50` | `reset` restores the count of the requester's first piece; a shorter last piece is stored and never done | `FileUnlessShort` |
| `fileinfo.go:197` | the offset of a shorter last piece is computed from its own block count | `AnswersAreExact` |
| `bitfield.go:16`, `piece.go:236` | a field one byte too short; the begin of a shorter last block wraps | `Survives` |
| `peermsghandlers.go:204` | an empty queue is taken for an idle connection and the requester is replaced | `HungOnlyAfterReplacement`; `OnePieceAtATime` is false with `Announcements <- Growing` |
| `peerconn.go:270` | an error is counted down twice; the client returns while a connection runs | `RemainingIsExact`, `ZeroMeansTried` |
| `fileinfo.go:248` | a file that is there is overwritten after all | `OverwrittenOnlyByOverlap` |
| `peer.go:79` | `Close` stops at a connection that is closed already | `GivesUpOnlyForTheChoked` |
| `peer.go:356` | an error of one function is hidden by the success of the other | `ErrorsTold` |
| `announce.go:129` | a left-over failure reason hides a good answer | `GoodAnswerReturned` |
| `announce.go:98` | a URL that cannot be parsed ends the query, though the loop is there to go on "until we get one response" (`:91-92`) | `NobodySkipped` |
| `blockrequester.go:107` | a late first answer and the answer to the retry close one channel twice | `PanicsOnlyUnderRaces` |
| `peerconn.go:132` | a peer that has vanished silently keeps the program running while something is downloaded | `EventuallyExits` |

One more has no run or property of its own, for it would only restate a guard: `peer.go:416`
compares before it counts, so of more peers than `maxPeerLimit` one more than that is tried,
while `peer.go:388-389` says "limited by 'limit'". `MayTryMore` models the comparison, and
`TriedByLimit` in `ClientProofs` has the exact number.

## 4. Fairness

`Download`: every goroutine that can run is run by the Go scheduler, a timer that is not
dismissed fires, and a connected peer answers (weak fairness per handler and per timer). Read
timeouts, disconnections and disk errors need never happen. `EventuallySeeding` is checked
where the peers that stay answer in time; a peer that vanishes with a piece reserved ends it
(`dead_owner`), and the property says so.

`Client`: the query goes on, except for a server that never answers, which the HTTP client
waits for without a timeout; the main loop and the connection goroutines run; a dial ends,
having a timeout of its own, and a connection that was closed, at either end, is read up to
there. Nothing is assumed of a connection that is open at both ends (`Lingering`): while the
client-wide downloading flag is set, `ReadPeerMsg` ignores its read timeouts, so a peer that
says nothing more, or has vanished without a word, keeps it open for ever. `EventuallyExits`
excepts the silent server and the lingering connection, and no other. No fairness is assumed of
the writer goroutines and of the remote peers.

`Framing`: bytes in the socket are read while the reader's loop runs. Nothing has to be
written, and the reader may give up whenever the socket is empty.

`Assembly`: a finished download has some handler call; a call under way runs on. No second
call, failure or kill has to happen.

`Listener`: the goroutine of the accept loop runs. Nobody has to connect, call `Close` or read
`errChan`; a loop that cannot report because the channel is full is excepted by
`AcceptLoopEnds`.

## 5. Hazards

`PROJECT.json` lists each hazard with its line and the properties that cover it. Modelled but
without a property are the peer tried beyond the limit, the lost misfire, the shared
downloading flag, the lost append to `PeerConnections` and the goroutines that leak behind
`errChan`; each note says why. That a weak peer is still used (`weak` is set and never read) is
modelled, too.

## 6. Proofs

Every theorem holds for arbitrary constants under the named assumptions of the module it is
about; the runs evaluate these on their instances. Assumptions say what the constants are: at
least one piece and one block in each (`CountAssumption`), announcements of pieces of the
torrent (`AnnouncementAssumption`), trackers that name known peers (`ClientAssumption`), the
two functions of an accepted connection (`ListenerAssumption`), the sizes and messages of
`Framing`. Three groups of theorems have a hypothesis besides, on the constants only: `PacedNetwork`,
`~Segmented` and `OrdinarySizes`. Each is
satisfied by the instance of a run (`paced`, `framing`, `transfer`).

### `Download`

`DownloadProofs`. That a request is sent only by the holder of its piece is not inductive: the
sender has to know, before it sends, that its reservation still stands. `Reservations`
strengthens it by
- `ReservedHasOwner`: a piece that is not IDLE has an owner, and an IDLE one has none;
- `RequesterHolds`: a handler between reservation and last request holds its piece;
- `SenderHolds`: every request that was made belongs to the holder, and its piece is not IDLE;
- `TimerWasSent`: a running timer belongs to a request that was sent, so a retry is one by the holder.

From it follow `OnlyOwnerRequestsHolds`, `OneSourcePerPieceHolds` (the same said of any two
requests) and `ImplementsLedger`: initial states map to initial states, and every step is a
step of `PieceLedger` or changes neither `downloader` nor the set of finished pieces.
Reservation maps to `Claim`, `MarkDone` to `Finish`; the invariant supplies that the finished
piece is owned.

In the second half of `DownloadProofs`, `HungOnlyAfterReplacement` says that a handler whose channel is absent
belongs to a replaced requester. `RequesterInv` is the conjunction of `TypeCore`, of
`Requested` (a request that was sent names an existing requester, which has a channel in its
slot ever after), of `LookedUp` (a handler waits for the mutex of a requester that is there), of
`Started` (a connection with a handler inside `RequestNextPiece` has a
requester), and of the property itself; slots are written by `MakeChannel` and never
cleared, and requesters are only appended. `TypeOKHolds` adds the queues, which only ever
hold pieces of the torrent; `OneTimerPerBlockHolds` is inductive together with `FirstWasSent`:
a request is repeated only after it was sent a first time, and the step that repeats it ends
the timer that ran for it.

The last part is about `Races`, and has no hypothesis. For `PieceLostOnlyByOverlapHolds`,
`OverlapInv` says that on a connection of which no two handlers were at the queue at once, what
a handler has read of the queue is what the queue still holds (`ReadsTrue`) and no announced
piece is missing (`KeptAll`); an index into an empty queue then contradicts `ReadsTrue`. For the
other half of `PanicsOnlyUnderRacesHolds`, `CrowdInv` says that as long as no two requests for
one block number were in flight on a connection and none was repeated, every channel belongs
to the request that is in its slot (`ChannelOwners`), that of an unanswered request is open and
in its place (`OpenChannels`), and no younger one was made (`Youngest`). Pieces are lost and
channels closed twice in the runs where such races happen, so neither condition can be dropped
(`lost_piece`, `hazards`).

`PacedProofs`. The theorems about counting, storing and assembling assume `PacedNetwork`: all
peers are paced, none is slow, the disk does not fail, each connection gets one announcement,
and all pieces have the same number of blocks. The instance of `paced`
satisfies it. Each clause is there because TLC refutes a property without it: an unpaced
peer breaks `DoneImpliesStored` and `FinalFileComplete` (`fast_answers`), a slow one
`DoneImpliesStored` (`late_answer`), a failing disk, a shorter last piece or a second
announcement `LeftCountsMissing`. Peers may vanish at any time: their timers then expire and
repeat requests, which replaces the channels handlers look for, but no answer comes any more.
The argument has two layers, the second an inductive invariant on top of the first:
- `PaceInv`: only the timers of vanished peers expire and only their requests are repeated; a
  repeated request is never answered; and one handler of a connection works at a time.
  Handlers become busy only by a delivery, which waits for the others.
- `BlockInv`: a connection has one requester (`OneRequester`) and at most one unfinished piece
  (`OneHeld`); an answer finds a channel nobody has closed, made for its request or a repetition
  of it (`Channels`); the countdown is the number of blocks not yet counted (`Countdown`, by
  cardinalities), which is `blocksLeft` under the lock, too (`Locks`); blocks that are counted
  are saved or about to be by the handler at work (`AllSaved`, `Saved`); a count of zero is
  noticed by exactly one handler (`Noticed`); the file is assembled from a full store
  (`Assembled`). Although the code counts a block before it writes it, the piece is marked
  only by the handler that counted last, after its own write, and the others have ended.

From these follow `DoneImpliesStoredHolds`, `StoredImpliesDoneHolds`,
`LeftCountsMissingHolds` and `FinalFileCompleteHolds`, for any number of connections, pieces and
blocks.

### `Transfer`

`SurvivesHolds` has no hypothesis. Its invariant `SurvivesInv` says that a BITFIELD on its way
has the bytes of `FieldBytes`, that the blocks requested or still to be are blocks of the
source's pieces (`Wanted`), and that a REQUEST is for one of these; `FieldCovers` then shows that every piece index
lies within the bytes unless the maximum is a multiple of eight, and `WholeIsFound` that a
block of a piece of whole blocks is found at its offset, even where the offset has wrapped.

The other five properties assume `OrdinarySizes`. With the code's numbers, blocks of 2^14
bytes and words of 32 bits, it says that pieces are shorter than 256 MiB, so that a piece has
fewer than 2^14 blocks. Offsets of regular blocks then fit into a word, while the begin of a
shorter last block, which the code computes as the number of blocks less 2^14, is negative and
wraps to an offset beyond the piece: no source answers a request for it. Above that size, the
begin can be that of another block. The instance of `transfer` satisfies the hypothesis, with
blocks of 3 bytes and pieces of at most 6.

`TransferInv` says of a state without failure that the download has not begun (`Started`),
is at some piece (`Fetching`), or has ended with the file (`Finished`). `Fetching` names the
piece `c`, the number `n` of its blocks already asked for, and the disjoint sets `A`, `S` and `G`
of those being asked, answered and saved, and describes the whole state by them:
- `OrderPart`: marked pieces are before `c`, queued ones after it, in order, and together
  they are what the source has;
- `WirePart`: the messages are the requests of `A` and the answers of `S`, which are regular blocks;
- `CountPart`: the count is that of the first piece less what is saved; marked pieces have as
  many blocks as it, all whole, and once anything is saved, the source seeds;
- `AskedPart`, `SavedPart`: what was asked for, and the block files with their content.

A failing step only takes messages away (`FailingStep`), so what holds of all messages goes on
holding. `AnswersAreExactHolds` (`ExactBytes`) needs that a piece other than the first is fetched
from a seeding source only after piece 0 was marked: its blocks are then whole, and
`LikeTheFirst` decides whether index times number of blocks is where the piece begins, and
`WithinTheFile` shows that a source that seeds does not reach the end of its file.
`AskedDistinct` and `ServedFacts` give `AnswerFindsItsSlotHolds`; `InOrderFacts` gives
`AsksForWhatIsThereHolds`. For `FileIdenticalHolds`, `SortedGrid` shows that sorting the names puts
block `b` of piece `p` at the rank `p` times the number of blocks plus `b`, and `FlattenFacts`
that flattening chunks of known content gives that content at the sum of the lengths before it;
`AssembledFacts` combines them. `FileUnlessShortHolds` follows because a count can end at zero
only when all blocks of a piece are answered, and a shorter last block never is.

### `Framing`

Under `~Segmented`. The lemmas say what the conversions do for every message: `HeaderFacts`
(four bytes hold the length, and `BigEndian` reads it back), `LengthParsed`
(`ParseRawPeerMsgLength` gets the length of the whole message out of the first buffer, though
the message may be longer or shorter than it) and `ParsedBack` (`NewPeerMsgFromBuffer` inverts
`Bytes`, and refuses exactly the unknown kinds). The invariant `Aligned` strengthens `InStep`:
within a message, what was received is all that was sent but that message, and the socket is
not empty, so that a writer that waits for an empty socket meets no message half read.
`ReadStep` says what one pass of the loop comes to: refuse, go on, return the message, or
break off. `InStepHolds`, `RefusalsAreRightHolds` and the refinement `KeepsWireHolds` follow;
`Write` maps to `Send`, the pass that completes a message to `Receive`. Without the hypothesis
all three are false (`segments`).

### `Assembly`

`KeepInv` carries, while calls do not overlap, that one call is under way (`OneCall`), that
its offset is the length of the final file (`Position`), that the chunk about to be removed
is copied (`Copied`), and that without a final file the directory is complete
(`Untouched`). It yields `NothingLostHolds` and the action property
`OverwrittenOnlyByOverlapHolds`, through failures and kills. `SeedInv` adds how far a call has
come when nothing fails (`Progress`): the directory is what is to be copied and the file what
has been, in the order `Order` sorts it. It yields `SeedsTheTorrentHolds`.

### `Client`, `Connections`, `Announce`

`ClientInv` has three parts. `ConnInv`: `RemainingIsExact` is inductive with `TypeOK`, once the
reports in the two channels are counted (`BlamesAppend`, `BlamesTail`, `RunningMoves`: each
step moves one goroutine or one report); `Launched` counts the peers tried against the loop's
position, and `TriedByLimit` says how many they are at its end. `AnnounceInv`: `decodedRespBody` holds what all answers so far have put into it
(`Gathered`), the outcome depends on that (`Concluded`), and of the usable servers those that
were not asked are still to come, until a malformed URL is reached (`Covered`). `Asleep`: no connection before the query has ended. The six theorems are the
properties of the `client` run but its liveness.

### `Listener`

`CloseInv`: listed connections were accepted (`Listed`), the slice `Close` ranges over is
part of the list (`Snapped`), what it has passed is closed (`Passed`), while the
listener is not closed, a closed connection was closed by its handler, or passed by the call
under way, or an earlier call met one closed by its handler (`ClosedBy`), and a call that gave
up met such a one (`GaveUp`). `Results` and `Shared` say of which function's outcome the shared `err` can
be; from them follows `ErrorsToldHolds`, an action property.

### `Order`

`InOrderFacts`, `AtFacts`, `OnlyFacts` and `DistinctFacts` say that the operators return every
element of a set once and in ascending order, or the chosen elements of a sequence. They are
defined by rank instead of by recursion or fold, so that their properties follow from
cardinalities. The one recursive operator that is proved about is `FlattenSeq` of the
community modules: the library's induction theorems take an operator as a parameter and
cannot be used, but `LeastNatural` in `TransferProofs`, that every non-empty set of naturals
has a least element, serves in their place.

### Only model-checked

- `OnePieceAtATime`: with one announcement per connection it is a step on the way of the proofs
  (`OneHeld`), and with more it is false (section 3).
- Liveness: `EventuallySeeding`, `EventuallyExits`, `EndsUpSeeding`, `EveryMessageArrives`,
  `AcceptLoopEnds`. It is out of the prover's reach.

## 7. Not modelled

- Directory torrents: reading and assembling them is a `panic("TODO")` in the code.
- The flags, the reading of the torrent file and the inspection mode of `main`, which print.
- Bencoding and the parameters of the tracker request: data whose wording no property is about.
- A read of `PeerConnections` or of a queue that sees half of a slice header: the race detector's
  subject. The models read and write a slice in one step each, between which others act.
- The 1000-place channel in front of a writer, which no instance fills.
- Random identifiers, port helpers, generated mocks and test peers.

## 8. Plan

All components with state of their own are modelled, and their safety properties proved. One extension is left: a client that downloads and serves at once, composed of
`Download` and the serving side of `Transfer`, if its states can be kept few enough.
