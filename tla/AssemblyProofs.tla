--------------------------- MODULE AssemblyProofs ---------------------------
(***************************************************************************)
(* What DefaultFinalizeFunc keeps of the blocks when its calls do not      *)
(* overlap, for any number of blocks, calls, failures and kills.           *)
(***************************************************************************)
EXTENDS Assembly, OrderProofs

CallStates == {"idle", "check", "create", "open", "copy", "remove", "done", "failed"}

AssemblyType ==
    /\ apart \in BOOLEAN /\ exists \in BOOLEAN /\ seeding \in BOOLEAN /\ faults \in Nat
    /\ dir \subseteq Blocks /\ final \in Seq(Nat)
    /\ pc \in [Finalizers -> CallStates]
    /\ todo \in [Finalizers -> Seq(Blocks)]
    /\ offset \in [Finalizers -> Nat]
    /\ \A f \in Finalizers : pc[f] \in {"copy", "remove"} => todo[f] # <<>>

Copying(f) == pc[f] \in {"open", "copy", "remove"}

(* One call at a time, so that what a call has found of the final file is  *)
(* still true when it goes on.                                             *)
OneCall == \A f, g \in Finalizers : UnderWay(f) /\ UnderWay(g) => f = g

Position(f) ==
    /\ pc[f] = "create" => ~exists
    /\ Copying(f) => exists /\ offset[f] = Len(final)

(* The chunk that is about to be removed has been copied. *)
Copied(f) ==
    pc[f] = "remove" => ToSet(Content(Head(todo[f]))) \subseteq ToSet(final)

Untouched == ~exists => dir = Blocks

Apart == OneCall /\ Untouched /\ \A f \in Finalizers : Position(f) /\ Copied(f)

KeepInv == AssemblyType /\ (apart => Apart) /\ NothingLost

(* How far a call has come when nothing has failed. *)
Removed(f) == NumBlocks - Len(todo[f])

InFinal(f) == Removed(f) + (IF pc[f] = "remove" THEN 1 ELSE 0)

Progress(f) ==
    /\ pc[f] \in {"check", "create"} /\ ~exists => Removed(f) = 0
    /\ UnderWay(f) /\ ~(pc[f] = "check" /\ exists) =>
           /\ Len(todo[f]) <= NumBlocks
           /\ \A k \in 1 .. Len(todo[f]) : todo[f][k] = Removed(f) + k
    /\ Copying(f) =>
           dir = Removed(f) + 1 .. NumBlocks /\ final = [i \in 1 .. 2 * InFinal(f) |-> i]

Finished ==
    /\ exists /\ (\A f \in Finalizers : ~Copying(f)) => final = Torrent
    /\ seeding => exists /\ \A f \in Finalizers : ~Copying(f)

SeedInv == apart /\ faults = 0 => Finished /\ \A f \in Finalizers : Progress(f)

-----------------------------------------------------------------------------
(* Writing at an offset *)

LEMMA WrittenType ==
  ASSUME AssemblyType, NEW f \in Finalizers, NEW bytes \in Seq(Nat)
  PROVE  Written(f, bytes) \in Seq(Nat)
<1> DEFINE end == offset[f] + Len(bytes)
           size == IF end > Len(final) THEN end ELSE Len(final)
<1>1. /\ offset[f] \in Nat /\ Len(bytes) \in Nat /\ Len(final) \in Nat
      /\ \A i \in 1 .. Len(bytes) : bytes[i] \in Nat
      /\ \A i \in 1 .. Len(final) : final[i] \in Nat
  BY LenProperties DEF AssemblyType
<1>2. size \in Nat
  BY <1>1
<1>3. \A i \in 1 .. size :
          /\ i > offset[f] /\ i <= end => bytes[i - offset[f]] \in Nat
          /\ i <= Len(final) => final[i] \in Nat
  BY <1>1, <1>2
<1>4. Written(f, bytes) \in [1 .. size -> Nat]
  BY <1>3 DEF Written
<1> HIDE DEF size
<1>5. [1 .. size -> Nat] \in {[1 .. n -> Nat] : n \in Nat}
  BY <1>2
<1> QED
  BY <1>4, <1>5, SeqDef

(* At the end of the file, to write is to append. *)
LEMMA WrittenAtEnd ==
  ASSUME AssemblyType, NEW f \in Finalizers, NEW bytes \in Seq(Nat), offset[f] = Len(final)
  PROVE  /\ Len(Written(f, bytes)) = Len(final) + Len(bytes)
         /\ \A i \in 1 .. Len(final) : Written(f, bytes)[i] = final[i]
         /\ \A i \in 1 .. Len(bytes) : Written(f, bytes)[Len(final) + i] = bytes[i]
<1>1. Len(bytes) \in Nat /\ Len(final) \in Nat
  BY LenProperties DEF AssemblyType
<1>2. Written(f, bytes) =
          [i \in 1 .. Len(final) + Len(bytes) |->
              IF i > Len(final) /\ i <= Len(final) + Len(bytes) THEN bytes[i - Len(final)]
              ELSE IF i <= Len(final) THEN final[i] ELSE 0]
  BY <1>1 DEF Written
<1>3. DOMAIN Written(f, bytes) = 1 .. Len(final) + Len(bytes)
  BY <1>2
<1>4. Len(Written(f, bytes)) = Len(final) + Len(bytes)
  BY <1>1, <1>3, WrittenType, LenProperties
<1>5. \A i \in 1 .. Len(final) : Written(f, bytes)[i] = final[i]
  BY <1>1, <1>2
<1>6. ASSUME NEW i \in 1 .. Len(bytes)
      PROVE  Written(f, bytes)[Len(final) + i] = bytes[i]
  <2>1. /\ Len(final) + i \in 1 .. Len(final) + Len(bytes)
        /\ Len(final) + i > Len(final) /\ Len(final) + i <= Len(final) + Len(bytes)
        /\ (Len(final) + i) - Len(final) = i
    BY <1>1
  <2> QED
    BY <1>2, <2>1
<1> QED
  BY <1>4, <1>5, <1>6

LEMMA PrefixIndexed ==
  ASSUME NEW S, NEW s \in Seq(S), NEW t \in Seq(S), Len(s) <= Len(t),
         \A i \in 1 .. Len(s) : s[i] = t[i]
  PROVE  IsPrefix(s, t)
<1>1. Len(s) \in Nat /\ Len(t) \in Nat
  BY LenProperties
<1>2. SubSeq(s, 1, Len(s)) = s
  BY SubSeqFull
<1>3. /\ SubSeq(t, 1, Len(s)) \in Seq(S)
      /\ Len(SubSeq(t, 1, Len(s))) = Len(s)
      /\ \A i \in 1 .. Len(s) : SubSeq(t, 1, Len(s))[i] = t[i]
  BY <1>1
<1>4. SubSeq(t, 1, Len(s)) = s
  BY <1>3, SeqEqual
<1> QED
  BY <1>2, <1>4 DEF IsPrefix

LEMMA WrittenKeeps ==
  ASSUME AssemblyType, NEW f \in Finalizers, NEW bytes \in Seq(Nat), offset[f] = Len(final)
  PROVE  /\ IsPrefix(final, Written(f, bytes))
         /\ ToSet(final) \subseteq ToSet(Written(f, bytes))
         /\ ToSet(bytes) \subseteq ToSet(Written(f, bytes))
<1> DEFINE w == Written(f, bytes)
<1>1. /\ final \in Seq(Nat) /\ w \in Seq(Nat)
      /\ Len(final) \in Nat /\ Len(bytes) \in Nat /\ Len(w) = Len(final) + Len(bytes)
      /\ \A i \in 1 .. Len(final) : w[i] = final[i]
      /\ \A i \in 1 .. Len(bytes) : w[Len(final) + i] = bytes[i]
  BY WrittenType, WrittenAtEnd, LenProperties DEF AssemblyType
<1> HIDE DEF w
<1>2. IsPrefix(final, w)
  BY <1>1, PrefixIndexed
<1>3. /\ ToSet(final) = {final[i] : i \in 1 .. Len(final)}
      /\ ToSet(bytes) = {bytes[i] : i \in 1 .. Len(bytes)}
      /\ ToSet(w) = {w[i] : i \in 1 .. Len(w)}
  BY <1>1, ToSetIndexed
<1>4. /\ \A i \in 1 .. Len(final) : i \in 1 .. Len(w)
      /\ \A i \in 1 .. Len(bytes) : Len(final) + i \in 1 .. Len(w)
  BY <1>1
<1>5. ToSet(final) \subseteq ToSet(w)
  BY <1>1, <1>3, <1>4
<1>6. ToSet(bytes) \subseteq ToSet(w)
  BY <1>1, <1>3, <1>4
<1> QED
  BY <1>2, <1>5, <1>6 DEF w

LEMMA ContentType ==
  ASSUME NEW b \in Blocks
  PROVE  /\ Content(b) \in Seq(Nat) /\ Len(Content(b)) = 2
         /\ Content(b)[1] = 2 * b - 1 /\ Content(b)[2] = 2 * b
         /\ \A n \in {0, 1} : SubSeq(Content(b), 1, n) \in Seq(Nat)
<1>1. b \in Nat /\ 2 * b - 1 \in Nat /\ 2 * b \in Nat
  BY AssemblyAssumption DEF Blocks
<1>2. Content(b) \in Seq(Nat) /\ Len(Content(b)) = 2
  BY <1>1 DEF Content
<1>3. Content(b)[1] = 2 * b - 1 /\ Content(b)[2] = 2 * b
  BY DEF Content
<1>4. ASSUME NEW n \in {0, 1}
      PROVE  SubSeq(Content(b), 1, n) \in Seq(Nat)
  BY <1>1, <1>2, <1>3
<1> QED
  BY <1>2, <1>3, <1>4

-----------------------------------------------------------------------------
(* Types *)

LEMMA DirSorted ==
  ASSUME AssemblyType
  PROVE  SortedChunkPaths(dir) \in Seq(Blocks)
<1>1. IsFiniteSet(Blocks) /\ Blocks \in SUBSET Int
  BY AssemblyAssumption, FS_Interval DEF Blocks
<1>2. dir \in SUBSET Int /\ IsFiniteSet(dir) /\ dir \subseteq Blocks
  BY <1>1, FS_Subset DEF AssemblyType
<1> QED
  BY <1>2, InOrderFacts, SeqMonotonic DEF SortedChunkPaths

LEMMA HeadOfTodo ==
  ASSUME AssemblyType, NEW f \in Finalizers, todo[f] # <<>>
  PROVE  Head(todo[f]) \in Blocks /\ Tail(todo[f]) \in Seq(Blocks)
BY HeadTailProperties DEF AssemblyType

LEMMA CallType ==
  ASSUME AssemblyType, NEW f \in Finalizers,
         Call(f) \/ OperationFails(f) \/ CopyFails(f)
  PROVE  AssemblyType'
<1>h. pc[f] \in {"copy", "remove"} =>
          /\ Head(todo[f]) \in Blocks /\ Tail(todo[f]) \in Seq(Blocks)
          /\ Content(Head(todo[f])) \in Seq(Nat) /\ Len(Content(Head(todo[f]))) = 2
          /\ \A n \in {0, 1} : SubSeq(Content(Head(todo[f])), 1, n) \in Seq(Nat)
  BY HeadOfTodo, ContentType DEF AssemblyType
<1> USE DEF AssemblyType, Goto, CallStates
<1>1. CASE ReadDir(f)
  BY <1>1, DirSorted DEF ReadDir, fileVars
<1>2. CASE FindsFile(f) \/ FindsNoFile(f) \/ OpenChunk(f) \/ Finish(f)
  BY <1>2 DEF FindsFile, FindsNoFile, OpenChunk, Finish, Enter, fileVars
<1>3. CASE CreateFile(f)
  <2>1. <<>> \in Seq(Nat)
    BY EmptySeq
  <2> QED
    BY <1>3, <2>1 DEF CreateFile
<1>4. CASE CopyChunk(f)
  <2>1. Written(f, Content(Head(todo[f]))) \in Seq(Nat)
    BY <1>4, <1>h, WrittenType DEF CopyChunk
  <2>2. Moved(f, Content(Head(todo[f]))) \in Nat
    BY <1>4, <1>h DEF CopyChunk, Moved
  <2> QED
    BY <1>4, <2>1, <2>2 DEF CopyChunk
<1>5. CASE RemoveChunk(f)
  BY <1>5, <1>h DEF RemoveChunk, Kept
<1>6. CASE OperationFails(f)
  <2>1. /\ pc' = [pc EXCEPT ![f] = "failed"] /\ faults' = faults + 1
        /\ UNCHANGED <<apart, dir, exists, final, todo, offset, seeding>>
    BY <1>6 DEF OperationFails, Fault, fileVars
  <2> QED
    BY <2>1
<1>7. CASE CopyFails(f)
  <2>1. PICK n \in {0, 1} : final' = Written(f, SubSeq(Content(Head(todo[f])), 1, n))
    BY <1>7 DEF CopyFails
  <2>2. final' \in Seq(Nat)
    BY <1>7, <1>h, <2>1, WrittenType DEF CopyFails
  <2> QED
    BY <1>7, <2>2 DEF CopyFails, Fault
<1> QED
  BY <1>1, <1>2, <1>3, <1>4, <1>5, <1>6, <1>7 DEF Call

LEMMA TypeStep == AssemblyType /\ [Next]_vars => AssemblyType'
<1> SUFFICES ASSUME AssemblyType, [Next]_vars  PROVE AssemblyType'
  OBVIOUS
<1>1. CASE Restart
  <2>1. <<>> \in Seq(Blocks)
    BY EmptySeq
  <2>2. /\ dir' = Blocks /\ faults' = faults + 1 /\ seeding' = FALSE
        /\ pc' = [f \in Finalizers |-> "idle"] /\ offset' = [f \in Finalizers |-> 0]
        /\ todo' = [f \in Finalizers |-> <<>>] /\ UNCHANGED <<apart, exists, final>>
    BY <1>1 DEF Restart, Fault
  <2>3. /\ pc' \in [Finalizers -> CallStates] /\ offset' \in [Finalizers -> Nat]
        /\ todo' \in [Finalizers -> Seq(Blocks)]
        /\ \A f \in Finalizers : pc'[f] = "idle"
    BY <2>1, <2>2 DEF CallStates
  <2>4. faults' \in Nat /\ dir' \subseteq Blocks /\ final' \in Seq(Nat)
    BY <2>2 DEF AssemblyType
  <2>5. apart' \in BOOLEAN /\ exists' \in BOOLEAN /\ seeding' \in BOOLEAN
    BY <2>2, Zenon DEF AssemblyType
  <2> QED
    BY <2>3, <2>4, <2>5 DEF AssemblyType
<1>2. CASE UNCHANGED vars
  BY <1>2 DEF vars, fileVars, callVars, AssemblyType
<1> QED
  BY <1>1, <1>2, CallType DEF Next

-----------------------------------------------------------------------------
(* Calls that do not overlap *)

AtRest == {"idle", "done", "failed"}

LEMMA Focus ==
  ASSUME AssemblyType, OneCall, NEW f \in Finalizers,
         \A g \in Finalizers \ {f} : pc'[g] = pc[g],
         UnderWay(f) \/ \A g \in Finalizers : ~UnderWay(g)
  PROVE  /\ OneCall'
         /\ \A g \in Finalizers \ {f} : pc[g] \in AtRest /\ pc'[g] \in AtRest
<1>1. \A g \in Finalizers \ {f} : ~UnderWay(g)
  BY DEF OneCall
<1>2. \A g \in Finalizers \ {f} : pc[g] \in AtRest /\ pc'[g] \in AtRest
  BY <1>1 DEF UnderWay, AtRest
<1>3. OneCall'
  BY <1>2 DEF OneCall, UnderWay, AtRest
<1> QED
  BY <1>2, <1>3

(* A step of a call f, by what it does to the files. *)
LEMMA ApartRest ==
  ASSUME AssemblyType, Apart, NEW f \in Finalizers,
         \A g \in Finalizers \ {f} : pc'[g] = pc[g],
         UnderWay(f) \/ \A g \in Finalizers : ~UnderWay(g),
         Untouched', Position(f)', Copied(f)'
  PROVE  Apart'
<1>1. OneCall' /\ \A g \in Finalizers \ {f} : pc'[g] \in AtRest
  BY Focus DEF Apart
<1>2. \A g \in Finalizers \ {f} : Position(g)' /\ Copied(g)'
  BY <1>1 DEF Position, Copied, Copying, AtRest
<1> QED
  BY <1>1, <1>2 DEF Apart

LEMMA SamePrefix ==
  ASSUME AssemblyType, final' = final, exists' = exists
  PROVE  AppendedTo
<1>1. IsPrefix(final, final)
  BY LenProperties, PrefixIndexed DEF AssemblyType
<1> QED
  BY <1>1, Zenon DEF AppendedTo

LEMMA ApartCall ==
  ASSUME AssemblyType, apart, Apart, NothingLost, NEW f \in Finalizers,
         Call(f) \/ OperationFails(f) \/ CopyFails(f)
  PROVE  Apart' /\ NothingLost' /\ AppendedTo
<1>a. Untouched /\ Position(f) /\ Copied(f) /\ pc[f] \in CallStates
  BY DEF Apart, AssemblyType
<1>p. \A g \in Finalizers \ {f} : pc'[g] = pc[g]
  BY DEF AssemblyType, Call, ReadDir, FindsFile, FindsNoFile, CreateFile, OpenChunk, CopyChunk,
         RemoveChunk, Finish, OperationFails, CopyFails, Goto
<1>u. UnderWay(f) \/ \A g \in Finalizers : ~UnderWay(g)
  BY DEF Call, ReadDir, FindsFile, FindsNoFile, CreateFile, OpenChunk, CopyChunk,
         RemoveChunk, Finish, OperationFails, CopyFails, Goto, UnderWay
<1>f. ASSUME UNCHANGED <<apart, dir, exists, final>>, Position(f)', Copied(f)'
      PROVE  Apart' /\ NothingLost' /\ AppendedTo
  <2>1. Untouched'
    BY <1>a, <1>f DEF Untouched
  <2>2. NothingLost'
    BY <1>f DEF NothingLost
  <2> QED
    BY <1>p, <1>u, <1>f, <2>1, <2>2, ApartRest, SamePrefix
<1>w. ASSUME pc[f] = "copy", UNCHANGED <<apart, dir, exists>>,
             NEW bytes \in Seq(Nat), final' = Written(f, bytes)
      PROVE  /\ ToSet(final) \subseteq ToSet(final') /\ ToSet(bytes) \subseteq ToSet(final')
             /\ Len(final') = Len(final) + Len(bytes) /\ exists
             /\ NothingLost' /\ AppendedTo /\ Untouched'
  <2>1. exists /\ offset[f] = Len(final)
    BY <1>a, <1>w DEF Position, Copying
  <2>2. /\ IsPrefix(final, final')
        /\ ToSet(final) \subseteq ToSet(final') /\ ToSet(bytes) \subseteq ToSet(final')
        /\ Len(final') = Len(final) + Len(bytes)
    BY <1>w, <2>1, WrittenKeeps, WrittenAtEnd
  <2>3. NothingLost'
    BY <1>w, <2>2 DEF NothingLost
  <2>4. AppendedTo
    BY <1>w, <2>1, <2>2 DEF AppendedTo
  <2>5. Untouched'
    BY <1>w, <2>1 DEF Untouched
  <2> QED
    BY <2>1, <2>2, <2>3, <2>4, <2>5
<1>h. pc[f] \in {"copy", "remove"} =>
          /\ Head(todo[f]) \in Blocks
          /\ Content(Head(todo[f])) \in Seq(Nat)
          /\ \A n \in {0, 1} : SubSeq(Content(Head(todo[f])), 1, n) \in Seq(Nat)
  BY HeadOfTodo, ContentType DEF AssemblyType
<1>1. CASE ReadDir(f) \/ FindsFile(f) \/ FindsNoFile(f) \/ OpenChunk(f) \/ Finish(f)
           \/ OperationFails(f)
  <2>1. UNCHANGED <<apart, dir, exists, final>>
    BY <1>1 DEF ReadDir, FindsFile, FindsNoFile, OpenChunk, Finish, OperationFails, fileVars
  <2>2. /\ pc'[f] \in {"check", "done", "failed", "create", "copy"}
        /\ pc'[f] = "create" => ~exists
        /\ pc'[f] = "copy" => pc[f] = "open" /\ UNCHANGED offset
    BY <1>1 DEF ReadDir, FindsFile, FindsNoFile, OpenChunk, Finish, OperationFails, Goto,
                MayCreate, AssemblyType
  <2>3. Position(f)' /\ Copied(f)'
    BY <1>a, <2>1, <2>2 DEF Position, Copied, Copying
  <2> QED
    BY <1>f, <2>1, <2>3
<1>2. CASE CreateFile(f)
  <2>1. /\ pc[f] = "create" /\ pc'[f] = "open" /\ exists' = TRUE /\ final' = <<>>
        /\ offset'[f] = 0 /\ UNCHANGED <<apart, dir>>
    BY <1>2 DEF CreateFile, Goto, AssemblyType
  <2>2. ~exists /\ dir = Blocks
    BY <1>a, <2>1 DEF Position, Untouched
  <2>3. Position(f)' /\ Copied(f)'
    BY <2>1, EmptySeq DEF Position, Copied, Copying
  <2>4. Untouched' /\ NothingLost' /\ AppendedTo
    BY <2>1, <2>2 DEF Untouched, NothingLost, AppendedTo
  <2> QED
    BY <1>p, <1>u, <2>3, <2>4, ApartRest
<1>3. CASE CopyChunk(f)
  <2> DEFINE bytes == Content(Head(todo[f]))
  <2>1. /\ pc[f] = "copy" /\ pc'[f] = "remove" /\ UNCHANGED <<apart, dir, exists, todo>>
        /\ final' = Written(f, bytes) /\ offset'[f] = offset[f] + Len(bytes)
    BY <1>3 DEF CopyChunk, Goto, Moved, AssemblyType
  <2>2. bytes \in Seq(Nat) /\ offset[f] = Len(final)
    BY <1>a, <1>h, <2>1 DEF Position, Copying
  <2> HIDE DEF bytes
  <2>3. /\ ToSet(bytes) \subseteq ToSet(final') /\ Len(final') = Len(final) + Len(bytes)
        /\ exists /\ NothingLost' /\ AppendedTo /\ Untouched'
    BY <1>w, <2>1, <2>2
  <2>4. Position(f)'
    BY <2>1, <2>2, <2>3 DEF Position, Copying
  <2>5. Copied(f)'
    BY <2>1, <2>3 DEF Copied, bytes
  <2> QED
    BY <1>p, <1>u, <2>3, <2>4, <2>5, ApartRest
<1>4. CASE RemoveChunk(f)
  <2>1. /\ pc[f] = "remove" /\ pc'[f] = "open" /\ UNCHANGED <<apart, exists, final, offset>>
        /\ dir' = dir \ {Head(todo[f])}
    BY <1>4 DEF RemoveChunk, Goto, Kept, AssemblyType
  <2>2. /\ exists /\ offset[f] = Len(final)
        /\ ToSet(Content(Head(todo[f]))) \subseteq ToSet(final)
    BY <1>a, <2>1 DEF Position, Copied, Copying
  <2>3. Position(f)' /\ Copied(f)' /\ Untouched'
    BY <2>1, <2>2 DEF Position, Copied, Copying, Untouched
  <2>4. NothingLost'
    BY <2>1, <2>2 DEF NothingLost
  <2> QED
    BY <1>p, <1>u, <2>1, <2>3, <2>4, ApartRest, SamePrefix
<1>5. CASE CopyFails(f)
  <2>1. pc[f] = "copy" /\ pc'[f] = "failed" /\ UNCHANGED <<apart, dir, exists>>
    BY <1>5 DEF CopyFails, Goto, AssemblyType
  <2>2. PICK n \in {0, 1} : final' = Written(f, SubSeq(Content(Head(todo[f])), 1, n))
    BY <1>5 DEF CopyFails
  <2>3. NothingLost' /\ AppendedTo /\ Untouched'
    BY <1>h, <1>w, <2>1, <2>2
  <2>4. Position(f)' /\ Copied(f)'
    BY <2>1 DEF Position, Copied, Copying
  <2> QED
    BY <1>p, <1>u, <2>3, <2>4, ApartRest
<1> QED
  BY <1>1, <1>2, <1>3, <1>4, <1>5 DEF Call

LEMMA KeepInit == Init => KeepInv
<1> SUFFICES ASSUME Init  PROVE KeepInv
  OBVIOUS
<1>1. <<>> \in Seq(Nat) /\ <<>> \in Seq(Blocks)
  BY EmptySeq
<1>2. AssemblyType
  BY <1>1 DEF Init, AssemblyType, CallStates
<1>3. Apart /\ NothingLost
  BY DEF Init, Apart, OneCall, UnderWay, Untouched, Position, Copied, Copying, NothingLost
<1> QED
  BY <1>2, <1>3 DEF KeepInv

LEMMA ApartKept == Next => apart' = apart
BY DEF Next, Call, ReadDir, FindsFile, FindsNoFile, CreateFile, OpenChunk, CopyChunk,
       RemoveChunk, Finish, OperationFails, CopyFails, Restart

LEMMA KeepStep ==
  ASSUME KeepInv, [Next]_vars
  PROVE  KeepInv' /\ [apart => AppendedTo]_vars
<1>1. AssemblyType /\ AssemblyType'
  BY TypeStep DEF KeepInv
<1>2. CASE Next /\ ~apart
  <2>1. ~apart'
    BY <1>2, ApartKept
  <2> QED
    BY <1>1, <1>2, <2>1 DEF KeepInv, NothingLost
<1>3. CASE Restart /\ apart
  <2>1. /\ dir' = Blocks /\ pc' = [f \in Finalizers |-> "idle"]
        /\ UNCHANGED <<apart, exists, final>>
    BY <1>3 DEF Restart
  <2>2. Apart' /\ NothingLost'
    BY <2>1 DEF Apart, OneCall, UnderWay, Untouched, Position, Copied, Copying, NothingLost
  <2>3. AppendedTo
    BY <1>1, <2>1, SamePrefix
  <2> QED
    BY <1>1, <2>2, <2>3 DEF KeepInv
<1>4. ASSUME apart, NEW f \in Finalizers, Call(f) \/ OperationFails(f) \/ CopyFails(f)
      PROVE  KeepInv' /\ [apart => AppendedTo]_vars
  <2>1. Apart' /\ NothingLost' /\ AppendedTo
    BY <1>1, <1>4, ApartCall DEF KeepInv
  <2> QED
    BY <1>1, <2>1 DEF KeepInv
<1>5. CASE UNCHANGED vars
  <2>1. apart' = apart /\ (Apart => Apart') /\ (NothingLost => NothingLost')
    BY <1>5 DEF vars, fileVars, callVars, Apart, OneCall, UnderWay, Untouched, Position,
                Copied, Copying, NothingLost
  <2> QED
    BY <1>1, <1>5, <2>1 DEF KeepInv
<1> QED
  BY <1>2, <1>3, <1>4, <1>5 DEF Next

(* DefaultFinalizeFunc loses no byte, whatever fails and whenever the      *)
(* client is killed, as long as its calls do not overlap: os.Remove is     *)
(* reached only when the chunk is in the final file, and os.Create only    *)
(* when every chunk is still there.                                        *)
THEOREM NothingLostHolds == Spec => []NothingLost
<1>1. KeepInv /\ [Next]_vars => KeepInv'
  BY KeepStep
<1>2. KeepInv => NothingLost
  BY DEF KeepInv
<1> QED
  BY <1>1, <1>2, KeepInit, PTL DEF Spec

(* The check that answers ALREADY_EXISTS protects the final file: unless   *)
(* calls overlap, it is only ever appended to, by a copy that fails too.   *)
THEOREM OverwrittenOnlyByOverlapHolds == Spec => OverwrittenOnlyByOverlap
<1>1. KeepInv /\ [Next]_vars => KeepInv'
  BY KeepStep
<1>2. KeepInv /\ [Next]_vars => [apart => AppendedTo]_vars
  BY KeepStep
<1> QED
  BY <1>1, <1>2, KeepInit, PTL DEF Spec, OverwrittenOnlyByOverlap

-----------------------------------------------------------------------------
(* Calls that do not overlap, and nothing fails *)

LEMMA SeedRest ==
  ASSUME AssemblyType, Apart, NEW f \in Finalizers,
         \A g \in Finalizers \ {f} : pc'[g] = pc[g],
         UnderWay(f) \/ \A g \in Finalizers : ~UnderWay(g),
         Progress(f)'
  PROVE  /\ \A g \in Finalizers : Progress(g)'
         /\ \A g \in Finalizers \ {f} : ~Copying(g) /\ ~Copying(g)'
<1>1. \A g \in Finalizers \ {f} : pc[g] \in AtRest /\ pc'[g] \in AtRest
  BY Focus DEF Apart
<1>2. \A g \in Finalizers \ {f} : Progress(g)' /\ ~Copying(g) /\ ~Copying(g)'
  BY <1>1 DEF Progress, UnderWay, Copying, AtRest
<1> QED
  BY <1>2

(* The next chunk of a call, as long as there is one. *)
LEMMA NextChunk ==
  ASSUME AssemblyType, NEW f \in Finalizers, Progress(f), Copying(f)
  PROVE  /\ Removed(f) \in 0 .. NumBlocks /\ Len(todo[f]) \in 0 .. NumBlocks
         /\ Len(todo[f]) = NumBlocks - Removed(f)
         /\ dir = Removed(f) + 1 .. NumBlocks
         /\ final = [i \in 1 .. 2 * InFinal(f) |-> i]
         /\ todo[f] # <<>> => Head(todo[f]) = Removed(f) + 1 /\ Removed(f) < NumBlocks
<1>1. todo[f] \in Seq(Blocks) /\ Len(todo[f]) \in Nat /\ NumBlocks \in Nat
  BY LenProperties, AssemblyAssumption DEF AssemblyType
<1>2. /\ Len(todo[f]) <= NumBlocks
      /\ \A k \in 1 .. Len(todo[f]) : todo[f][k] = Removed(f) + k
      /\ dir = Removed(f) + 1 .. NumBlocks /\ final = [i \in 1 .. 2 * InFinal(f) |-> i]
  BY DEF Progress, UnderWay, Copying
<1>3. Removed(f) \in 0 .. NumBlocks /\ Len(todo[f]) = NumBlocks - Removed(f)
  BY <1>1, <1>2 DEF Removed
<1>4. ASSUME todo[f] # <<>>
      PROVE  Head(todo[f]) = Removed(f) + 1 /\ Removed(f) < NumBlocks
  <2>1. Len(todo[f]) >= 1 /\ Head(todo[f]) = todo[f][1]
    BY <1>1, <1>4, EmptySeq
  <2> QED
    BY <1>1, <1>2, <1>3, <2>1
<1> QED
  BY <1>1, <1>2, <1>3, <1>4

LEMMA SeedCall ==
  ASSUME AssemblyType, AssemblyType', Apart, Finished, \A g \in Finalizers : Progress(g),
         apart, NEW f \in Finalizers, Call(f)
  PROVE  Finished' /\ \A g \in Finalizers : Progress(g)'
<1>a. /\ Untouched /\ Position(f) /\ Progress(f) /\ NumBlocks \in Nat
      /\ pc[f] \in CallStates
  BY AssemblyAssumption DEF Apart, AssemblyType
<1>p. \A g \in Finalizers \ {f} : pc'[g] = pc[g]
  BY DEF AssemblyType, Call, ReadDir, FindsFile, FindsNoFile, CreateFile, OpenChunk, CopyChunk,
         RemoveChunk, Finish, Goto
<1>u. UnderWay(f) \/ \A g \in Finalizers : ~UnderWay(g)
  <2>1. pc[f] \notin {"idle", "done", "failed"} \/ ReadDir(f)
    BY DEF Call, FindsFile, FindsNoFile, CreateFile, OpenChunk, CopyChunk, RemoveChunk,
           Finish, Goto
  <2> QED
    BY <2>1 DEF ReadDir, UnderWay
<1>r. Progress(f)' => /\ \A g \in Finalizers : Progress(g)'
                      /\ \A g \in Finalizers \ {f} : ~Copying(g) /\ ~Copying(g)'
  BY <1>p, <1>u, SeedRest
<1>s. Copying(f) \/ ~exists => ~seeding
  BY DEF Finished
<1>1. CASE ReadDir(f)
  <2>1. /\ pc[f] = "idle" /\ pc'[f] = "check" /\ todo'[f] = InOrder(dir)
        /\ UNCHANGED <<dir, exists, final, seeding>>
    BY <1>1 DEF ReadDir, Goto, SortedChunkPaths, fileVars, AssemblyType
  <2>2. ASSUME ~exists
        PROVE  todo'[f] = [k \in 1 .. NumBlocks |-> k] /\ Len(todo'[f]) = NumBlocks
    <3>1. todo'[f] = [k \in 1 .. NumBlocks |-> k]
      BY <1>a, <2>1, <2>2, InOrderInterval DEF Untouched, Blocks
    <3> QED
      BY <1>a, <3>1
  <2>3. Progress(f)'
    BY <1>a, <2>1, <2>2 DEF Progress, Copying, UnderWay, Removed
  <2>4. Finished'
    BY <1>r, <2>1, <2>3 DEF Finished, Copying
  <2> QED
    BY <1>r, <2>3, <2>4
<1>2. CASE FindsFile(f)
  <2>1. /\ exists /\ pc[f] = "check" /\ pc'[f] = "done" /\ seeding' = TRUE
        /\ UNCHANGED <<exists, final>>
    BY <1>2 DEF FindsFile, Goto, fileVars, AssemblyType
  <2>2. Progress(f)'
    BY <2>1 DEF Progress, Copying, UnderWay
  <2>3. Finished'
    BY <1>r, <2>1, <2>2 DEF Finished, Copying
  <2> QED
    BY <1>r, <2>2, <2>3
<1>3. CASE FindsNoFile(f)
  <2>1. /\ ~exists /\ pc[f] = "check" /\ pc'[f] = "create"
        /\ UNCHANGED <<dir, exists, final, todo, seeding>>
    BY <1>3 DEF FindsNoFile, MayCreate, Goto, fileVars, AssemblyType
  <2>2. Progress(f)'
    BY <1>a, <2>1 DEF Progress, Copying, UnderWay, Removed
  <2>3. Finished'
    BY <1>r, <1>s, <2>1, <2>2 DEF Finished
  <2> QED
    BY <1>r, <2>2, <2>3
<1>4. CASE CreateFile(f)
  <2>1. /\ pc[f] = "create" /\ pc'[f] = "open" /\ exists' = TRUE /\ final' = <<>>
        /\ UNCHANGED <<dir, todo, seeding>>
    BY <1>4 DEF CreateFile, Goto, AssemblyType
  <2>2. ~exists /\ dir = Blocks
    BY <1>a, <2>1 DEF Position, Untouched
  <2>3. /\ Removed(f) = 0 /\ Len(todo[f]) <= NumBlocks
        /\ \A k \in 1 .. Len(todo[f]) : todo[f][k] = Removed(f) + k
    BY <1>a, <2>1, <2>2 DEF Progress, UnderWay
  <2>4. /\ Removed(f)' = 0 /\ InFinal(f)' = 0
    BY <2>1, <2>3 DEF Removed, InFinal
  <2>5. dir' = 0 + 1 .. NumBlocks /\ final' = [i \in 1 .. 2 * 0 |-> i]
    BY <2>1, <2>2 DEF Blocks
  <2>6. Progress(f)'
    BY <2>1, <2>3, <2>4, <2>5 DEF Progress
  <2>7. Finished'
    BY <1>s, <2>1, <2>2 DEF Finished, Copying
  <2> QED
    BY <1>r, <2>6, <2>7
<1>5. CASE OpenChunk(f)
  <2>1. /\ pc[f] = "open" /\ todo[f] # <<>> /\ UNCHANGED <<dir, exists, final, todo, seeding>>
        /\ pc'[f] = IF Head(todo[f]) \in dir THEN "copy" ELSE "failed"
    BY <1>5 DEF OpenChunk, Goto, fileVars, AssemblyType
  <2>2. /\ Removed(f) \in 0 .. NumBlocks /\ dir = Removed(f) + 1 .. NumBlocks
        /\ Head(todo[f]) = Removed(f) + 1 /\ Removed(f) < NumBlocks
    BY <1>a, <2>1, NextChunk DEF Copying
  <2>3. pc'[f] = "copy"
    BY <1>a, <2>1, <2>2
  <2>4. Progress(f)'
    BY <1>a, <2>1, <2>3 DEF Progress, Copying, UnderWay, Removed, InFinal
  <2>5. Finished'
    BY <1>s, <2>1, <2>3 DEF Finished, Copying
  <2> QED
    BY <1>r, <2>4, <2>5
<1>6. CASE CopyChunk(f)
  <2> DEFINE d == Removed(f)
             bytes == Content(Head(todo[f]))
  <2>1. /\ pc[f] = "copy" /\ pc'[f] = "remove" /\ UNCHANGED <<dir, exists, todo, seeding>>
        /\ final' = Written(f, bytes)
    BY <1>6 DEF CopyChunk, Goto, AssemblyType
  <2>2. /\ todo[f] # <<>> /\ offset[f] = Len(final) /\ Head(todo[f]) \in Blocks
    BY <1>a, <2>1, HeadOfTodo DEF Position, Copying, AssemblyType
  <2>3. /\ d \in 0 .. NumBlocks /\ Head(todo[f]) = d + 1 /\ dir = d + 1 .. NumBlocks
        /\ InFinal(f) = d /\ final = [i \in 1 .. 2 * d |-> i]
    BY <1>a, <2>1, <2>2, NextChunk DEF Copying, InFinal
  <2>4. /\ bytes \in Seq(Nat) /\ Len(bytes) = 2
        /\ bytes[1] = 2 * (d + 1) - 1 /\ bytes[2] = 2 * (d + 1)
    BY <2>2, <2>3, ContentType
  <2>5. InFinal(f)' = d + 1 /\ Removed(f)' = d
    BY <1>a, <2>1 DEF InFinal, Removed
  <2> HIDE DEF d, bytes
  <2>6. Len(final) = 2 * d /\ \A i \in 1 .. 2 * d : final[i] = i
    BY <1>a, <2>3
  <2>7. /\ Len(final') = 2 * d + 2
        /\ \A i \in 1 .. 2 * d : final'[i] = i
        /\ final'[2 * d + 1] = bytes[1] /\ final'[2 * d + 2] = bytes[2]
    <3>1. /\ Len(final') = Len(final) + Len(bytes)
          /\ \A i \in 1 .. Len(final) : final'[i] = final[i]
          /\ \A i \in 1 .. Len(bytes) : final'[Len(final) + i] = bytes[i]
      BY <2>1, <2>2, <2>4, WrittenAtEnd
    <3>2. 1 \in 1 .. Len(bytes) /\ 2 \in 1 .. Len(bytes)
      BY <2>4
    <3> QED
      BY <2>4, <2>6, <3>1, <3>2
  <2>8. \A i \in 1 .. 2 * (d + 1) : final'[i] = i
    <3>1. \A i \in 1 .. 2 * (d + 1) :
              i \in 1 .. 2 * d \/ i = 2 * d + 1 \/ i = 2 * d + 2
      BY <1>a, <2>3
    <3>2. 2 * (d + 1) - 1 = 2 * d + 1 /\ 2 * (d + 1) = 2 * d + 2
      BY <1>a, <2>3
    <3> QED
      BY <2>4, <2>7, <3>1, <3>2
  <2>9. final' = [i \in 1 .. 2 * (d + 1) |-> i]
    <3>1. DOMAIN final' = 1 .. Len(final') /\ final' \in [1 .. Len(final') -> Nat]
      BY LenProperties DEF AssemblyType
    <3>2. Len(final') = 2 * (d + 1)
      BY <1>a, <2>3, <2>7
    <3> QED
      BY <2>8, <3>1, <3>2
  <2>10. Progress(f)'
    <3>1. /\ Len(todo[f]) <= NumBlocks
          /\ \A k \in 1 .. Len(todo[f]) : todo[f][k] = d + k
      BY <1>a, <2>1 DEF Progress, UnderWay, d
    <3> QED
      BY <2>1, <2>3, <2>5, <2>9, <3>1 DEF Progress
  <2>11. Finished'
    BY <1>s, <2>1 DEF Finished, Copying
  <2> QED
    BY <1>r, <2>10, <2>11
<1>7. CASE RemoveChunk(f)
  <2> DEFINE d == Removed(f)
  <2>1. /\ pc[f] = "remove" /\ pc'[f] = "open" /\ UNCHANGED <<exists, final, seeding>>
        /\ dir' = dir \ {Head(todo[f])} /\ todo'[f] = Tail(todo[f])
    BY <1>7 DEF RemoveChunk, Goto, Kept, AssemblyType
  <2>2. todo[f] # <<>> /\ todo[f] \in Seq(Blocks)
    BY <2>1 DEF AssemblyType
  <2>3. /\ d \in 0 .. NumBlocks /\ d < NumBlocks /\ Head(todo[f]) = d + 1
        /\ dir = d + 1 .. NumBlocks /\ Len(todo[f]) = NumBlocks - d
        /\ InFinal(f) = d + 1 /\ final = [i \in 1 .. 2 * (d + 1) |-> i]
    BY <1>a, <2>1, <2>2, NextChunk DEF Copying, InFinal
  <2>4. \A k \in 1 .. Len(todo[f]) : todo[f][k] = d + k
    BY <1>a, <2>1 DEF Progress, UnderWay
  <2> HIDE DEF d
  <2>5. /\ Len(todo'[f]) = NumBlocks - (d + 1)
        /\ \A k \in 1 .. Len(todo'[f]) : todo'[f][k] = todo[f][k + 1]
    BY <1>a, <2>1, <2>2, <2>3, HeadTailProperties
  <2>6. Removed(f)' = d + 1 /\ InFinal(f)' = d + 1
    BY <1>a, <2>1, <2>3, <2>5 DEF Removed, InFinal
  <2>7. \A k \in 1 .. Len(todo'[f]) : todo'[f][k] = (d + 1) + k
    BY <1>a, <2>3, <2>4, <2>5
  <2>8. dir' = (d + 1) + 1 .. NumBlocks
    BY <1>a, <2>1, <2>3
  <2>9. Progress(f)'
    BY <1>a, <2>1, <2>3, <2>5, <2>6, <2>7, <2>8 DEF Progress
  <2>10. Finished'
    BY <1>s, <2>1 DEF Finished, Copying
  <2> QED
    BY <1>r, <2>9, <2>10
<1>8. CASE Finish(f)
  <2>1. /\ pc[f] = "open" /\ pc'[f] = "done" /\ todo[f] = <<>> /\ seeding' = TRUE
        /\ UNCHANGED <<exists, final>>
    BY <1>8 DEF Finish, Enter, Goto, fileVars, AssemblyType
  <2>2. exists /\ Removed(f) = NumBlocks /\ InFinal(f) = NumBlocks
    BY <1>a, <2>1 DEF Position, Copying, Removed, InFinal
  <2>3. final = Torrent
    <3>1. final = [i \in 1 .. 2 * InFinal(f) |-> i]
      BY <1>a, <2>1, NextChunk DEF Copying
    <3> QED
      BY <2>2, <3>1 DEF Torrent
  <2>4. Progress(f)'
    BY <2>1 DEF Progress, Copying, UnderWay
  <2>5. Finished'
    BY <1>r, <2>1, <2>2, <2>3, <2>4 DEF Finished, Copying
  <2> QED
    BY <1>r, <2>4, <2>5
<1> QED
  BY <1>1, <1>2, <1>3, <1>4, <1>5, <1>6, <1>7, <1>8 DEF Call

LEMMA SeedInit == Init => SeedInv
<1> SUFFICES ASSUME Init  PROVE Finished /\ \A f \in Finalizers : Progress(f)
  BY DEF SeedInv
<1>1. ~exists /\ ~seeding /\ \A f \in Finalizers : pc[f] = "idle"
  BY DEF Init
<1> QED
  BY <1>1 DEF Finished, Progress, Copying, UnderWay

LEMMA SeedStep == KeepInv /\ SeedInv /\ [Next]_vars => SeedInv'
<1> SUFFICES ASSUME KeepInv, SeedInv, [Next]_vars, apart', faults' = 0
             PROVE  Finished' /\ \A f \in Finalizers : Progress(f)'
  BY DEF SeedInv
<1>1. AssemblyType /\ AssemblyType' /\ faults \in Nat
  BY TypeStep DEF KeepInv, AssemblyType
<1>2. CASE Next
  <2>1. apart /\ Apart
    BY <1>2, ApartKept DEF KeepInv
  <2>2. ~Restart /\ \A f \in Finalizers : ~OperationFails(f) /\ ~CopyFails(f)
    <3>1. ~Fault
      BY <1>1 DEF Fault
    <3> QED
      BY <3>1, Zenon DEF Restart, OperationFails, CopyFails
  <2>3. PICK f \in Finalizers : Call(f)
    BY <1>2, <2>2 DEF Next
  <2>4. faults = 0
    BY <2>3 DEF Call, ReadDir, FindsFile, FindsNoFile, CreateFile, OpenChunk, CopyChunk,
                RemoveChunk, Finish
  <2>5. Finished /\ \A g \in Finalizers : Progress(g)
    BY <2>1, <2>4 DEF SeedInv
  <2> QED
    BY <1>1, <2>1, <2>3, <2>5, SeedCall
<1>3. CASE UNCHANGED vars
  <2>1. UNCHANGED <<apart, dir, exists, final, pc, todo, seeding, faults>>
    BY <1>3 DEF vars, fileVars, callVars
  <2>2. apart /\ faults = 0
    BY <2>1
  <2>3. Finished /\ \A g \in Finalizers : Progress(g)
    BY <2>2 DEF SeedInv
  <2> QED
    BY <2>1, <2>3 DEF Finished, Progress, Copying, UnderWay, Removed, InFinal
<1> QED
  BY <1>2, <1>3

(* A client that seeds has assembled the torrent byte for byte, however    *)
(* many blocks it has and however often DefaultFinalizeFunc is called, as  *)
(* long as no two calls overlap and nothing fails.                         *)
THEOREM SeedsTheTorrentHolds == Spec => []SeedsTheTorrent
<1>1. KeepInv /\ [Next]_vars => KeepInv'
  BY KeepStep
<1>2. KeepInv /\ SeedInv => SeedsTheTorrent
  BY DEF SeedInv, Finished, SeedsTheTorrent
<1> QED
  BY <1>1, <1>2, KeepInit, SeedInit, SeedStep, PTL DEF Spec
=============================================================================
