------------------------------- MODULE Binmap -------------------------------
(* The chunk map a downloading node shares between its channels (class       *)
(* Binmap): the list of chunk ranges it has, the map of chunks some channel  *)
(* has requested, the "continuous point" CP, and the file the chunks go to.  *)
(* Each channel calls it from its own receive thread; a step here is one     *)
(* critical section of the code, or one plain store without a mutex. What    *)
(* PPClient::ReceiveData passes on from the hash tree is what it may find    *)
(* there (HashTree and Download model how it comes about).                   *)
EXTENDS ChunkRanges

CONSTANTS
    NumChunks,      \* chunks of the content
    ChunkSize,      \* bytes of a chunk, LastSize of the last one
    LastSize,
    PaddedEnd,      \* last leaf of the hash tree, which has 2^k leaves
    Threads,        \* the receive threads, one per channel
    NoThread,       \* the owner of a free mutex
    PeerLists       \* the range lists a peer may have announced

ASSUME NumChunksAssumption == NumChunks \in Nat \ {0}
ASSUME SizeAssumption ==
    ChunkSize \in Nat \ {0} /\ LastSize \in 1..ChunkSize
ASSUME ThreadAssumption == NoThread \notin Threads
ASSUME PaddedEndAssumption == PaddedEnd \in Nat /\ PaddedEnd >= NumChunks - 1

Chunks == 0..(NumChunks - 1)

ASSUME PeerListsAssumption ==
    \A list \in PeerLists :
        /\ list \in Seq(ChunkRangeSt)
        /\ \A k \in DOMAIN list : list[k].End < NumChunks

\* What ReceiveData may read of HashTree's ChunkRange and LastChunkSize, without
\* a lock, when ContentSize is known: they are those of the content, but
\* ChunkRange may have been overwritten with the end of the padded tree (by a
\* check that began before it was known), and LastChunkSize is stored only after
\* ContentSize.
Answers == [last : {NumChunks - 1, PaddedEnd}, size : {0, LastSize}]
RightAnswer == [last |-> NumChunks - 1, size |-> LastSize]

\* Any value of LogPrintSize that is neither -1 nor a LastChunk.
OtherChunk == -2

VARIABLES
    ChunkRangeList, \* the ranges of chunks the node has, in list order
    CP,             \* end of the range that starts at 0, -1 while unknown
    RequestedMap,   \* the chunks some channel has requested
    LastChunk,      \* index of the last chunk, -1 while unknown
    LastChunkSize,  \* its size, 0 while unknown
    LogPrintSize,   \* the chunk logged last: -1, the last one or OtherChunk
    FilePointer,    \* is the file open?
    disk,           \* bytes of every chunk in the file
    created,        \* does the file exist?
    FileMutex,      \* owner of FileMutex and of RequestedMutex
    RequestedMutex,
    pc,             \* where each thread is inside ReceiveData or Binmap
    index,          \* the chunk of its DATA, the CP a request read
    told,           \* the size its SetLastChunk is to store
    found,          \* the range CheckFinish has put together
    had,            \* history: every chunk SetHave was told of
    finished,       \* history: CheckFinish has answered 1
    late,           \* history: a chunk was stored after that
    misled          \* history: the last chunk was not known for what it is, or
                    \* SetLastChunk was told something else, or undone

mapVars  == <<ChunkRangeList, CP, had>>
lastVars == <<LastChunk, LastChunkSize, LogPrintSize>>
fileVars == <<FilePointer, disk, created>>
mutexes  == <<FileMutex, RequestedMutex>>
registers == <<index, told, found>>
history  == <<finished, late, misled>>
vars == <<mapVars, RequestedMap, lastVars, fileVars, mutexes, pc, registers,
          history>>

-----------------------------------------------------------------------------
(* The file *)

NoBytes == [i \in Chunks |-> 0]

ContentBytes(i) == IF i = NumChunks - 1 THEN LastSize ELSE ChunkSize

\* Mutant of DataSize: the last chunk is written like any other.
DataSizeOfAnyChunk(i) == ChunkSize

\* The datasize SetData passes to fwrite.
DataSize(i) ==
    ChunkSize - (IF i = LastChunk THEN ChunkSize - LastChunkSize ELSE 0)

Written(i) ==
    [disk EXCEPT ![i] = IF @ >= DataSize(i) THEN @ ELSE DataSize(i)]

-----------------------------------------------------------------------------
NoRange == [Start |-> -1, End |-> -1]

Init ==
    /\ ChunkRangeList = <<>> /\ CP = -1 /\ RequestedMap = {}
    /\ LastChunk = -1 /\ LastChunkSize = 0
    /\ LogPrintSize \in {-1, OtherChunk}      \* uninitialised
    /\ FilePointer = FALSE /\ disk = NoBytes /\ created = FALSE
    /\ FileMutex = NoThread /\ RequestedMutex = NoThread
    /\ pc = [t \in Threads |-> "idle"]
    /\ index = [t \in Threads |-> -1]
    /\ told = [t \in Threads |-> 0]
    /\ found = [t \in Threads |-> NoRange]
    /\ had = {} /\ finished = FALSE /\ late = FALSE /\ misled = FALSE

goto(t, label) == pc' = [pc EXCEPT ![t] = label]

-----------------------------------------------------------------------------
(* PPClient::ReceiveData: SetLastChunk, then SetData *)

\* A DATA has passed its checks. While the map does not know the size of the
\* last chunk, and the tree knows that of the content, SetLastChunk is called
\* first. The last chunk itself may come before either does: its own check
\* finds the size only if ChunkRange is its index by then.
ReceiveData(t, i) ==
    /\ pc[t] = "idle"
    /\ index' = [index EXCEPT ![t] = i]
    /\ \/ /\ LastChunk = -1 \/ LastChunkSize > 0
          /\ goto(t, "store")
          /\ misled' = (misled \/ (i = NumChunks - 1 /\ LastChunkSize <= 0))
       \/ /\ LastChunkSize <= 0
          /\ goto(t, "lastchunk")
          /\ UNCHANGED misled
    /\ UNCHANGED <<mapVars, RequestedMap, lastVars, fileVars, mutexes, told,
                   found, finished, late>>

\* Mutant of SetLastChunkIndex: the number of chunks instead of an index.
SetLastChunkCount(t, answer) ==
    /\ pc[t] = "lastchunk"
    /\ LastChunk' = answer.last + 1
    /\ told' = [told EXCEPT ![t] = answer.size]
    /\ misled' = (misled \/ answer # RightAnswer)
    /\ goto(t, "lastsize")
    /\ UNCHANGED <<mapVars, RequestedMap, LastChunkSize, LogPrintSize, fileVars,
                   mutexes, index, found, finished, late>>

\* SetLastChunk: two plain stores, without a mutex.
SetLastChunkIndex(t, answer) ==
    /\ pc[t] = "lastchunk"
    /\ LastChunk' = answer.last
    /\ told' = [told EXCEPT ![t] = answer.size]
    /\ misled' = (misled \/ answer # RightAnswer)
    /\ goto(t, "lastsize")
    /\ UNCHANGED <<mapVars, RequestedMap, LastChunkSize, LogPrintSize, fileVars,
                   mutexes, index, found, finished, late>>

SetLastChunkSize(t) ==
    /\ pc[t] = "lastsize"
    /\ LastChunkSize' = told[t]
    /\ told' = [told EXCEPT ![t] = 0]
    /\ goto(t, "store")
    /\ UNCHANGED <<mapVars, RequestedMap, LastChunk, LogPrintSize, fileVars,
                   mutexes, index, found, history>>

\* SetData takes FileMutex and opens the file, truncating it, when it is not
\* open.
SetDataOpen(t) ==
    /\ pc[t] = "store" /\ FileMutex = NoThread
    /\ FileMutex' = t
    /\ FilePointer' = TRUE /\ created' = TRUE
    /\ disk' = IF FilePointer THEN disk ELSE NoBytes
    /\ late' = (late \/ finished)
    /\ goto(t, "have")
    /\ UNCHANGED <<mapVars, RequestedMap, lastVars, RequestedMutex, registers,
                   finished, misled>>

\* The file cannot be opened: SetData stores nothing and releases nothing, and
\* its caller goes on. (There is always data: CheckDataIntegrity rejects a DATA
\* without.)
SetDataFails(t) ==
    /\ pc[t] = "store" /\ FileMutex = NoThread
    /\ ~FilePointer
    /\ index' = [index EXCEPT ![t] = -1]
    /\ goto(t, "idle")
    /\ UNCHANGED <<mapVars, RequestedMap, lastVars, fileVars, mutexes, told,
                   found, history>>

\* Mutant of SetDataHave: FileMutex is given back before the write.
SetDataHaveUnlocks(t) ==
    /\ pc[t] = "have"
    /\ LET after == AfterSetHave(ChunkRangeList, CP, index[t], index[t])
       IN  ChunkRangeList' = after.list /\ CP' = after.CP
    /\ had' = had \cup {index[t]}
    /\ FileMutex' = NoThread
    /\ goto(t, "release")
    /\ UNCHANGED <<RequestedMap, lastVars, fileVars, RequestedMutex, registers,
                   history>>

\* SetData calls SetHave, under ChunkRangeMutex.
SetDataHave(t) ==
    /\ pc[t] = "have"
    /\ LET after == AfterSetHave(ChunkRangeList, CP, index[t], index[t])
       IN  ChunkRangeList' = after.list /\ CP' = after.CP
    /\ had' = had \cup {index[t]}
    /\ goto(t, "release")
    /\ UNCHANGED <<RequestedMap, lastVars, fileVars, mutexes, registers, history>>

\* Mutant of SetDataRelease: the chunk stays recorded.
SetDataForgetsRelease(t) ==
    /\ pc[t] = "release" /\ RequestedMutex = NoThread
    /\ goto(t, "write")
    /\ UNCHANGED <<mapVars, RequestedMap, lastVars, fileVars, mutexes, registers,
                   history>>

\* SetData calls ReleaseRequested, under RequestedMutex.
SetDataRelease(t) ==
    /\ pc[t] = "release" /\ RequestedMutex = NoThread
    /\ RequestedMap' = RequestedMap \ {index[t]}
    /\ goto(t, "write")
    /\ UNCHANGED <<mapVars, lastVars, fileVars, mutexes, registers, history>>

\* What t stores in LogPrintSize, as far as it matters: the last chunk to a
\* thread that is between its two comparisons, any other to none.
Logged(t) ==
    IF index[t] = NumChunks - 1 /\ \E u \in Threads \ {t} : pc[u] = "log"
    THEN NumChunks - 1 ELSE OtherChunk

\* SetData writes the bytes and gives FileMutex back. To log its progress it
\* then goes on, without a mutex, if the chunk logged before comes before this
\* one, which may be unless that is the last chunk.
SetDataWrite(t) ==
    /\ pc[t] = "write"
    /\ disk' = Written(index[t])
    /\ FileMutex' = NoThread
    /\ IF LogPrintSize = NumChunks - 1
       THEN /\ goto(t, "idle")
            /\ LogPrintSize' = Logged(t)
            /\ index' = [index EXCEPT ![t] = -1]
       ELSE /\ goto(t, "log")
            /\ index' = [index EXCEPT ![t] =
                            IF @ = NumChunks - 1 THEN @ ELSE -1]
            /\ UNCHANGED LogPrintSize
    /\ UNCHANGED <<mapVars, RequestedMap, LastChunk, LastChunkSize,
                   FilePointer, created, RequestedMutex, told, found, history>>

\* The chunk logged before is LastChunk: another thread has stored that since,
\* or an uninitialised -1 looks like it while LastChunk is unknown.
SetDataLog(t) ==
    /\ pc[t] = "log" /\ LogPrintSize = LastChunk
    /\ goto(t, "forget")
    /\ UNCHANGED <<mapVars, RequestedMap, lastVars, fileVars, mutexes,
                   registers, history>>

\* Then SetData forgets the size of the last chunk. In the end this chunk is the
\* one logged.
SetDataLogged(t) ==
    /\ pc[t] \in {"log", "forget"}
    /\ LastChunkSize' = IF pc[t] = "forget" THEN 0 ELSE LastChunkSize
    /\ misled' = (misled \/ LastChunkSize' # LastChunkSize)
    /\ LogPrintSize' = Logged(t)
    /\ index' = [index EXCEPT ![t] = -1]
    /\ goto(t, "idle")
    /\ UNCHANGED <<mapVars, RequestedMap, LastChunk, fileVars, mutexes, told,
                   found, finished, late>>

-----------------------------------------------------------------------------
(* The other methods *)

\* GetData opens an existing file without truncating it. Its read changes
\* nothing.
GetData(t) ==
    /\ pc[t] = "idle" /\ FileMutex = NoThread
    /\ ~FilePointer /\ created
    /\ FilePointer' = TRUE
    /\ UNCHANGED <<mapVars, RequestedMap, lastVars, disk, created, mutexes, pc,
                   registers, history>>

\* GetRequestData takes RequestedMutex and reads CP, without ChunkRangeMutex.
GetRequestLock(t) ==
    /\ pc[t] = "idle" /\ RequestedMutex = NoThread
    /\ RequestedMutex' = t
    /\ index' = [index EXCEPT ![t] = CP]
    /\ goto(t, "scan")
    /\ UNCHANGED <<mapVars, RequestedMap, lastVars, fileVars, FileMutex, told,
                   found, history>>

\* It then looks for a chunk under ChunkRangeMutex and records it. The chunk
\* may be chosen with a CP that SetHave has moved since.
GetRequestScan(t, peer) ==
    /\ pc[t] = "scan"
    /\ LET i == RequestIndex(ChunkRangeList, RequestedMap, index[t],
                             LastChunk, peer)
       IN  RequestedMap' = IF i = -1 THEN RequestedMap
                                     ELSE RequestedMap \cup {i}
    /\ RequestedMutex' = NoThread
    /\ index' = [index EXCEPT ![t] = -1]
    /\ goto(t, "idle")
    /\ UNCHANGED <<mapVars, lastVars, fileVars, FileMutex, told, found, history>>

\* Mutant of ReleaseRequested: the whole map is cleared.
ReleaseAllRequested(t, i) ==
    /\ pc[t] = "idle" /\ RequestedMutex = NoThread
    /\ i \in RequestedMap
    /\ RequestedMap' = {}
    /\ UNCHANGED <<mapVars, lastVars, fileVars, mutexes, pc, registers, history>>

\* ReleaseRequested called by a channel whose data failed its check.
ReleaseRequested(t, i) ==
    /\ pc[t] = "idle" /\ RequestedMutex = NoThread
    /\ i \in RequestedMap
    /\ RequestedMap' = RequestedMap \ {i}
    /\ UNCHANGED <<mapVars, lastVars, fileVars, mutexes, pc, registers, history>>

\* CheckFinish puts the ranges together under ChunkRangeMutex ...
CheckFinishScan(t) ==
    /\ pc[t] = "idle"
    /\ found' = [found EXCEPT ![t] = FinishRange(ChunkRangeList)]
    /\ goto(t, "test")
    /\ UNCHANGED <<mapVars, RequestedMap, lastVars, fileVars, mutexes, index,
                   told, history>>

\* ... compares the result with LastChunk ...
CheckFinishTest(t) ==
    /\ pc[t] = "test"
    /\ goto(t, IF found[t] = [Start |-> 0, End |-> LastChunk]
               THEN "close" ELSE "idle")
    /\ found' = [found EXCEPT ![t] = NoRange]
    /\ UNCHANGED <<mapVars, RequestedMap, lastVars, fileVars, mutexes, index,
                   told, history>>

\* ... and closes the file of a finished download, under FileMutex.
CheckFinishClose(t) ==
    /\ pc[t] = "close" /\ FileMutex = NoThread
    /\ FilePointer' = FALSE
    /\ finished' = TRUE
    /\ goto(t, "idle")
    /\ UNCHANGED <<mapVars, RequestedMap, lastVars, disk, created, mutexes,
                   registers, late, misled>>

-----------------------------------------------------------------------------
Next ==
    \E t \in Threads :
        \/ \E i \in Chunks : ReceiveData(t, i) \/ ReleaseRequested(t, i)
        \/ \E answer \in Answers : SetLastChunkIndex(t, answer)
        \/ SetLastChunkSize(t)
        \/ SetDataOpen(t) \/ SetDataFails(t)
        \/ SetDataHave(t) \/ SetDataRelease(t) \/ SetDataWrite(t)
        \/ SetDataLog(t) \/ SetDataLogged(t)
        \/ GetData(t)
        \/ GetRequestLock(t)
        \/ \E peer \in PeerLists : GetRequestScan(t, peer)
        \/ CheckFinishScan(t) \/ CheckFinishTest(t) \/ CheckFinishClose(t)

Spec == Init /\ [][Next]_vars

-----------------------------------------------------------------------------
(* Properties *)

PcType == {"idle", "lastchunk", "lastsize", "store", "have", "release",
           "write", "log", "forget", "scan", "test", "close"}

\* Types of the members of Binmap and of the threads' registers.
TypeOK ==
    /\ ChunkRangeList \in Seq(ChunkRangeSt)
    /\ CP \in Chunks \cup {-1}
    /\ RequestedMap \subseteq Chunks
    /\ LastChunk \in {-1, NumChunks - 1, PaddedEnd}
    /\ LastChunkSize \in {0, LastSize}
    /\ LogPrintSize \in {-1, NumChunks - 1, OtherChunk}
    /\ FilePointer \in BOOLEAN /\ created \in BOOLEAN
    /\ disk \in [Chunks -> 0..ChunkSize]
    /\ FileMutex \in Threads \cup {NoThread}
    /\ RequestedMutex \in Threads \cup {NoThread}
    /\ pc \in [Threads -> PcType]
    /\ index \in [Threads -> Chunks \cup {-1}]
    /\ told \in [Threads -> {0, LastSize}]
    /\ DOMAIN found = Threads
    /\ had \subseteq Chunks
    /\ finished \in BOOLEAN /\ late \in BOOLEAN /\ misled \in BOOLEAN

\* SetHave neither loses nor invents a chunk, in whatever order the chunks
\* arrive: the ranges are the maximal runs of exactly the chunks stored.
RangesExact == Separated(ChunkRangeList) /\ Covered(ChunkRangeList) = had

\* cp ends the run of chunks of S that starts at chunk 0. A cp of -1 says that
\* there is none, or that chunk 0 stands alone (push_back does not set CP).
EndsPrefix(S, cp) ==
    IF cp >= 0 THEN 0..cp \subseteq S /\ cp + 1 \notin S
               ELSE 0 \in S => 1 \notin S

\* GetRequestData skips everything up to CP. So SetHave must never leave CP
\* ahead of a missing chunk, nor behind the run of chunks it ends.
CPExact == EndsPrefix(had, CP)

\* A chunk that is stored is not still recorded as requested, except in the
\* window of the SetData call that is storing it: a GetRequestData that runs
\* concurrently, with a CP read earlier, never records a chunk that is there.
NoStaleRequest ==
    \A i \in RequestedMap \cap had :
        \E t \in Threads : pc[t] = "release" /\ index[t] = i

\* The bytes of chunk i are in the file, exactly.
InFile(i) == disk[i] = ContentBytes(i)

\* Whoever gets FileMutex (GetData serving a peer, CheckFinish closing the
\* file) finds every chunk of the map in the file, with its exact size, though
\* SetData adds a chunk to the map before it writes it, and SetLastChunk stores
\* index and size apart: until a DATA comes late, and for the last chunk unless
\* ReceiveData read the tree at the wrong moment.
DiskBacksMap ==
    FileMutex = NoThread /\ ~late =>
        \A i \in had : InFile(i) \/ (i = NumChunks - 1 /\ misled)

\* What makes RangesExact, CPExact and NoStaleRequest inductive: a SetData call
\* in progress stores a chunk of the content, and one that it has put into the
\* map until it has returned.
Storing ==
    \A t \in Threads :
        /\ pc[t] \in {"lastchunk", "lastsize", "store", "have", "release",
                      "write"} => index[t] \in Chunks
        /\ pc[t] \in {"release", "write"} => index[t] \in had

MapInv == TypeOK /\ RangesExact /\ CPExact /\ NoStaleRequest /\ Storing

\* What makes DiskBacksMap inductive. While nobody was misled: what SetLastChunk
\* stores is right, and a DATA of the last chunk that is to be stored comes after
\* it.
LastInv ==
    ~misled =>
        /\ LastChunkSize > 0 => LastChunk = NumChunks - 1
        /\ \A t \in Threads :
              /\ pc[t] = "lastsize" => /\ LastChunk = NumChunks - 1
                                      /\ told[t] = LastSize
              /\ /\ pc[t] \in {"store", "have", "release", "write"}
                 /\ index[t] = NumChunks - 1
                 => LastChunkSize > 0

\* FileMutex covers SetData from the opening of the file to the write, only the
\* chunk being stored may be missing from the file, and the file is closed only
\* before the first chunk and after the last one.
FileInv ==
    /\ \A t \in Threads :
          pc[t] \in {"have", "release", "write"} =>
             FileMutex = t /\ (FilePointer \/ finished)
    /\ FileMutex # NoThread => pc[FileMutex] \in {"have", "release", "write"}
    /\ FilePointer \/ finished \/ had = {}
    /\ \A i \in Chunks :
          disk[i] <= ContentBytes(i) \/ (i = NumChunks - 1 /\ misled)
    /\ ~late => \A i \in had :
          \/ InFile(i)
          \/ i = NumChunks - 1 /\ misled
          \/ /\ FileMutex # NoThread
             /\ pc[FileMutex] \in {"release", "write"}
             /\ index[FileMutex] = i

\* What makes FinishSound inductive: between its three steps other threads only
\* add chunks to what CheckFinish has put together, and once it has answered 1
\* nothing is missing any more.
FinishInv ==
    /\ \A t \in Threads :
          /\ pc[t] = "test" /\ found[t].Start >= 0 =>
                /\ found[t].End \in Nat
                /\ found[t].Start .. found[t].End \subseteq had
          /\ pc[t] = "close" => had = Chunks
    /\ finished => had = Chunks

\* CheckFinish closes the file only when the whole content has been stored.
FinishSound == \A t \in Threads : pc[t] = "close" => had = Chunks

\* CheckFinish recognises a finished download: a channel that finds nothing
\* left to request stops unless CheckFinish says so.
FinishComplete ==
    had = Chunks => FinishRange(ChunkRangeList) = [Start |-> 0,
                                                   End |-> NumChunks - 1]

\* "Content download finished.": from then on the file holds the content, until
\* a DATA comes late, with the last chunk unless ReceiveData was misled about it.
FinishedFileComplete ==
    finished /\ FileMutex = NoThread /\ ~late =>
        \A i \in Chunks : InFile(i) \/ (i = NumChunks - 1 /\ misled)

\* The range a handshake announces is one the node has, and no longer run of
\* chunks is there to announce.
AnnouncesLongestRun ==
    LET r == BiggestHavedChunkRange(ChunkRangeList)
    IN  IF had = {} THEN r.Start = -1
        ELSE /\ r.Start .. r.End \subseteq had
             /\ \A a, b \in had :
                    a..b \subseteq had => b - a <= r.End - r.Start

\* The map implements the abstract store: a stored chunk is never lost, only
\* missing chunks are handed out, and storing a chunk settles its request.
Store == INSTANCE ChunkStore WITH
            have <- Covered(ChunkRangeList),
            requested <- RequestedMap \ Covered(ChunkRangeList)
StoreSpec == Store!Spec
=============================================================================
