------------------------------ MODULE Assembly ------------------------------
(***************************************************************************)
(* DefaultFinalizeFunc, file operation by file operation: the block files  *)
(* of a finished download are copied into one file, in the order of their  *)
(* names, and removed one by one.  Every handler that finds no undone      *)
(* piece calls it, so two calls may overlap; an operation may fail, and    *)
(* the client may be killed and started again with the final file as it    *)
(* was and a new directory for its blocks.                                 *)
(***************************************************************************)
EXTENDS Integers, Sequences, SequencesExt, Order

CONSTANTS
    NumBlocks,      \* blocks of the torrent; a block is two bytes of it
    Finalizers,     \* calls of DefaultFinalizeFunc
    MaxFaults       \* BOUND: operations that fail, and kills

ASSUME AssemblyAssumption ==
    /\ NumBlocks \in Nat \ {0} /\ MaxFaults \in Nat

Blocks == 1 .. NumBlocks

VARIABLES
    apart,      \* whether a call begins only when no other is under way
    dir,        \* DownloadedBlocksDir: the blocks it has files of
    exists,     \* whether the final file exists
    final,      \* its content; a byte is its position in the torrent, or 0
    pc,         \* pc[f]: where call f stands
    todo,       \* todo[f]: sortedChunkPaths still to copy
    offset,     \* offset[f]: where f's handle of the final file stands
    seeding,    \* IsSeeding
    faults      \* failures and kills so far

fileVars == <<dir, exists, final>>
callVars == <<pc, todo, offset>>
vars == <<apart, fileVars, callVars, seeding, faults>>

Content(b) == <<2 * b - 1, 2 * b>>
Torrent == [i \in 1 .. 2 * NumBlocks |-> i]

\* Seeded fault: the directory is taken in reverse.
Backwards(names) == Reverse(InOrder(names))

(* Names hold their block's number in ten digits, so they sort as numbers. *)
SortedChunkPaths(names) == InOrder(names)

Init ==
    /\ apart \in BOOLEAN
    /\ dir = Blocks /\ exists = FALSE /\ final = <<>>
    /\ pc = [f \in Finalizers |-> "idle"]
    /\ todo = [f \in Finalizers |-> <<>>]
    /\ offset = [f \in Finalizers |-> 0]
    /\ seeding = FALSE /\ faults = 0

UnderWay(f) == pc[f] \notin {"idle", "done", "failed"}

Goto(f, from, to) ==
    /\ pc[f] = from
    /\ pc' = [pc EXCEPT ![f] = to]

ReadDir(f) ==
    /\ apart => \A g \in Finalizers : ~UnderWay(g)
    /\ Goto(f, "idle", "check")
    /\ todo' = [todo EXCEPT ![f] = SortedChunkPaths(dir)]
    /\ UNCHANGED <<apart, fileVars, offset, seeding, faults>>

(* ALREADY_EXISTS is taken for "we've assembled the file already". *)
FindsFile(f) ==
    /\ exists
    /\ Goto(f, "check", "done")
    /\ seeding' = TRUE
    /\ UNCHANGED <<apart, fileVars, todo, offset, faults>>

\* Seeded fault: the check is not made.
MayCreateAnyway == TRUE

MayCreate == ~exists

FindsNoFile(f) ==
    /\ MayCreate
    /\ Goto(f, "check", "create")
    /\ UNCHANGED <<apart, fileVars, todo, offset, seeding, faults>>

(* os.Create truncates what is there. *)
CreateFile(f) ==
    /\ Goto(f, "create", "open")
    /\ exists' = TRUE /\ final' = <<>>
    /\ offset' = [offset EXCEPT ![f] = 0]
    /\ UNCHANGED <<apart, dir, todo, seeding, faults>>

OpenChunk(f) ==
    /\ todo[f] # <<>>
    /\ Goto(f, "open", IF Head(todo[f]) \in dir THEN "copy" ELSE "failed")
    /\ UNCHANGED <<apart, fileVars, todo, offset, seeding, faults>>

(* bytes at the handle's own offset, over what is there or past the end *)
Written(f, bytes) ==
    LET end == offset[f] + Len(bytes)
    IN  [i \in 1 .. (IF end > Len(final) THEN end ELSE Len(final)) |->
            IF i > offset[f] /\ i <= end THEN bytes[i - offset[f]]
            ELSE IF i <= Len(final) THEN final[i] ELSE 0]

Moved(f, bytes) == offset[f] + Len(bytes)

CopyChunk(f) ==
    /\ Goto(f, "copy", "remove")
    /\ LET bytes == Content(Head(todo[f]))
       IN  /\ final' = Written(f, bytes)
           /\ offset' = [offset EXCEPT ![f] = Moved(f, bytes)]
    /\ UNCHANGED <<apart, dir, exists, todo, seeding, faults>>

\* Seeded fault: the rest of the directory is removed at once.
RemoveTheRest(f) == dir \ ToSet(todo[f])

Kept(f) == dir \ {Head(todo[f])}

(* An error of os.Remove is ignored. *)
RemoveChunk(f) ==
    /\ Goto(f, "remove", "open")
    /\ dir' = Kept(f)
    /\ todo' = [todo EXCEPT ![f] = Tail(@)]
    /\ UNCHANGED <<apart, exists, final, offset, seeding, faults>>

\* Seeded fault: the call ends without entering the seeding state.
StaysLeeching == UNCHANGED seeding

Enter == seeding' = TRUE

Finish(f) ==
    /\ todo[f] = <<>>
    /\ Goto(f, "open", "done")
    /\ Enter
    /\ UNCHANGED <<apart, fileVars, todo, offset, faults>>

Fault == faults < MaxFaults /\ faults' = faults + 1

(* ReadDir, Create or Open returns an error. *)
OperationFails(f) ==
    /\ Fault
    /\ \/ Goto(f, "idle", "failed")
       \/ Goto(f, "create", "failed")
       \/ todo[f] # <<>> /\ Goto(f, "open", "failed")
    /\ apart /\ pc[f] = "idle" => \A g \in Finalizers : ~UnderWay(g)
    /\ UNCHANGED <<apart, fileVars, todo, offset, seeding>>

(* io.Copy fails with some of the chunk written. *)
CopyFails(f) ==
    /\ Fault
    /\ Goto(f, "copy", "failed")
    /\ \E n \in {0, 1} : final' = Written(f, SubSeq(Content(Head(todo[f])), 1, n))
    /\ UNCHANGED <<apart, dir, exists, todo, offset, seeding>>

(* The client is killed, started again, and has downloaded everything into *)
(* a new directory.                                                        *)
Restart ==
    /\ Fault
    /\ dir' = Blocks
    /\ pc' = [f \in Finalizers |-> "idle"]
    /\ todo' = [f \in Finalizers |-> <<>>]
    /\ offset' = [f \in Finalizers |-> 0]
    /\ seeding' = FALSE
    /\ UNCHANGED <<apart, exists, final>>

Call(f) ==
    \/ ReadDir(f) \/ FindsFile(f) \/ FindsNoFile(f) \/ CreateFile(f)
    \/ OpenChunk(f) \/ CopyChunk(f) \/ RemoveChunk(f) \/ Finish(f)

Next ==
    \/ \E f \in Finalizers : Call(f) \/ OperationFails(f) \/ CopyFails(f)
    \/ Restart

Spec == Init /\ [][Next]_vars

(* The download is finished, so some handler calls; a call that has begun  *)
(* runs on.  Nothing has to fail, and no second call has to be made.       *)
FairSpec ==
    /\ Spec
    /\ WF_vars((\A f \in Finalizers : pc[f] = "idle") /\ \E f \in Finalizers : ReadDir(f))
    /\ \A f \in Finalizers : WF_vars(UnderWay(f) /\ Call(f))
-----------------------------------------------------------------------------
(* Properties *)

(* A client that seeds has assembled the torrent, byte for byte, when its  *)
(* calls did not overlap and nothing failed: a file found to exist is then *)
(* a finished one (DefaultFinalizeFunc).                                   *)
SeedsTheTorrent ==
    seeding /\ apart /\ faults = 0 => final = Torrent

(* No byte is lost on the way, whatever fails and whenever the client is   *)
(* killed: it is in a block file until it is in the final file.            *)
NothingLost ==
    apart => \A b \in Blocks :
                 b \in dir \/ ToSet(Content(b)) \subseteq ToSet(final)

AppendedTo == exists => exists' /\ IsPrefix(final, final')

(* "so as not to overwrite it": a final file is only ever added to, unless *)
(* two calls overlap between the check and the creation.                   *)
OverwrittenOnlyByOverlap == [][apart => AppendedTo]_vars

(* However two calls overlap and whenever the client is killed, it ends up *)
(* seeding, unless an operation of a call has failed: calls that remove    *)
(* each other's files cannot all fail.                                     *)
EndsUpSeeding == <>[](seeding \/ (faults > 0 /\ \E f \in Finalizers : pc[f] = "failed"))
=============================================================================
