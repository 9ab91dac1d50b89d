---------------------------- MODULE HashTreeCalls ----------------------------
(* How the calls of several threads into the hash tree of one node           *)
(* interleave: the receive threads of its channels share its maps, under     *)
(* three mutexes that the calls take in different orders, and read some of   *)
(* them under none. The threads of Downloads receive from seeders that have  *)
(* the whole content, those of Uploads (and all of them, if the node is a    *)
(* seeder itself) serve nodes that download from this one. What a call does  *)
(* with wrong or missing hashes is HashTree's: here the network is faithful, *)
(* and a map is the set of its nodes, whose hashes are right.                *)
EXTENDS MerkleTree, FiniteSets

CONSTANTS
    Downloads, Uploads,
    NoThread,
    RetryCount  \* of the configuration

ASSUME RetryAssumption == RetryCount \in Nat

ASSUME ThreadsAssumption ==
    Downloads \cap Uploads = {} /\ NoThread \notin Downloads \cup Uploads

Threads == Downloads \cup Uploads

\* Where a thread is: between the calls, or in one of them.
Outside == {"next", "ask", "rejected", "wait", "served", "done"}
Inside == {"receive", "insert", "check", "first", "count", "path", "move",
           "passed", "peaks", "peaks2", "peaks3", "peaks4", "peaks5", "store",
           "get", "get2", "integrity"}

Mutexes == {"IntegrityMap", "HashTreeMap", "PeakHashMap"}

VARIABLES
    IsSeeder,
    HashTreeMap, PeakHashMap, IsPeakMapCreated, ChunkRange, LeafNodeCount,
    ContentSize,    \* is it known?
    IsFirstData,
    IntegrityMap,   \* per channel that has received an INTEGRITY
    inserting,      \* the thread that is adding a channel to IntegrityMap
    mutex,          \* per mutex: the thread that holds it
    stored,         \* the chunks in the chunk map
    pc,             \* per thread
    chunk,          \* per thread: the chunk of its request
    retries,        \* per thread: its RetryCount
    tmpmap,         \* per thread: the nodes its check has used
    inbox,          \* per thread: INTEGRITYs it has not handled yet
    sent            \* per thread: the nodes that were sent on its channel

treeVars == <<HashTreeMap, PeakHashMap, IsPeakMapCreated, ChunkRange,
              LeafNodeCount, ContentSize, IsFirstData>>
chanVars == <<inbox, sent>>
vars == <<IsSeeder, treeVars, IntegrityMap, inserting, mutex, stored, pc, chunk,
          retries, tmpmap, chanVars>>

\* A seeder has made its tree from the file, padding included.
Init ==
    /\ IsSeeder \in BOOLEAN
    /\ HashTreeMap = IF IsSeeder THEN Ranges ELSE {}
    /\ ChunkRange = IF IsSeeder THEN NumChunks - 1 ELSE -1
    /\ LeafNodeCount = IF IsSeeder THEN Leaves ELSE 0
    /\ ContentSize = IsSeeder
    /\ stored = IF IsSeeder THEN Chunks ELSE {}
    /\ pc = [t \in Threads |->
                IF t \in Downloads /\ ~IsSeeder THEN "next" ELSE "wait"]
    /\ PeakHashMap = {} /\ IsPeakMapCreated = FALSE /\ IsFirstData = TRUE
    /\ IntegrityMap = [t \in {} |-> {}]
    /\ inserting = NoThread
    /\ mutex = [x \in Mutexes |-> NoThread]
    /\ chunk = [t \in Threads |-> -1]
    /\ retries = [t \in Threads |-> 0]
    /\ tmpmap = [t \in Threads |-> {}]
    /\ inbox = [t \in Threads |-> {}]
    /\ sent = [t \in Threads |-> {}]

goto(t, label) == pc' = [pc EXCEPT ![t] = label]

Free(x) == mutex[x] = NoThread
Lock(t, x) == Free(x) /\ mutex' = [mutex EXCEPT ![x] = t]
Unlock(xs) == mutex' = [x \in Mutexes |-> IF x \in xs THEN NoThread ELSE mutex[x]]

\* From chunk i, with the hashes of used for the siblings of nodes and nothing
\* for the others, the hash of the level top is that of the root.
Proves(i, k, top, nodes, used) ==
    /\ top = Height
    /\ \A r \in Siblings(i, k, top) :
          IF r \in nodes THEN r \in used ELSE Padding(r)

Received(t) == IF t \in DOMAIN IntegrityMap THEN IntegrityMap[t] ELSE {}

-----------------------------------------------------------------------------
(* Requests *)

\* SendRequest, and the seeder's answer: the peak hashes before the first DATA,
\* the hashes of the siblings it has not sent yet, the DATA.
SendRequest(t, i) ==
    LET siblings == {r \in Siblings(i, 0, Height) : ~Padding(r)}
    IN  /\ chunk' = [chunk EXCEPT ![t] = i]
        /\ sent' = [sent EXCEPT ![t] = @ \cup siblings]
        /\ inbox' = [inbox EXCEPT ![t] =
               (siblings \ sent[t]) \cup IF sent[t] = {} THEN ContentPeaks ELSE {}]
        /\ goto(t, "receive")

\* SendNextRequest: the first chunk that is neither stored nor requested; while
\* nothing is stored, nothing counts as requested. Without one the channel has
\* finished or stops.
SendNextRequest(t) ==
    LET requested == IF stored = {} THEN {}
                     ELSE {chunk[d] : d \in Downloads \ {t}} \ {ChunkRange}
        wanted == Chunks \ (stored \cup requested)
    IN  IF wanted = {} THEN goto(t, "done") /\ UNCHANGED <<chunk, chanVars>>
                       ELSE SendRequest(t, Min(wanted))

\* The end of ReceiveData, and the first request.
Ask(t) ==
    /\ \/ pc[t] = "ask" /\ ~ContentSize /\ SendRequest(t, ChunkRange)
       \/ pc[t] = "ask" /\ ContentSize /\ SendNextRequest(t)
       \/ pc[t] = "next" /\ SendNextRequest(t)
    /\ UNCHANGED <<treeVars, IntegrityMap, inserting, mutex, stored, retries,
                   tmpmap>>

\* RetryRequest.
RetryRequest(t) ==
    /\ pc[t] = "rejected"
    /\ tmpmap' = [tmpmap EXCEPT ![t] = {}]
    /\ chunk' = [chunk EXCEPT ![t] = -1]
    /\ IF retries[t] > RetryCount
       THEN goto(t, "done") /\ UNCHANGED retries
       ELSE goto(t, "next") /\ retries' = [retries EXCEPT ![t] = @ + 1]
    /\ UNCHANGED <<treeVars, IntegrityMap, inserting, mutex, stored, chanVars>>

-----------------------------------------------------------------------------
(* AddIntegrity *)

\* The first hash of a channel adds the channel to the map. Those after it find
\* it there and change only what this thread reads: all of them are one step.
AddIntegrity(t) ==
    /\ pc[t] = "receive"
    /\ \/ inbox[t] = {} /\ goto(t, "check")
          /\ UNCHANGED <<IntegrityMap, inserting, mutex, inbox>>
       \/ inbox[t] # {} /\ t \notin DOMAIN IntegrityMap
          /\ Lock(t, "IntegrityMap") /\ inserting' = t /\ goto(t, "insert")
          /\ UNCHANGED <<IntegrityMap, inbox>>
       \/ inbox[t] # {} /\ t \in DOMAIN IntegrityMap
          /\ Free("IntegrityMap")
          /\ IntegrityMap' = [IntegrityMap EXCEPT ![t] = @ \cup inbox[t]]
          /\ inbox' = [inbox EXCEPT ![t] = {}]
          /\ goto(t, "check") /\ UNCHANGED <<inserting, mutex>>
    /\ UNCHANGED <<treeVars, stored, chunk, retries, tmpmap, sent>>

Inserted(t) ==
    /\ pc[t] = "insert"
    /\ IntegrityMap' = [d \in DOMAIN IntegrityMap \cup {t} |->
                            IF d = t THEN {} ELSE IntegrityMap[d]]
    /\ inserting' = NoThread
    /\ Unlock({"IntegrityMap"})
    /\ goto(t, "receive")
    /\ UNCHANGED <<treeVars, stored, chunk, retries, tmpmap, chanVars>>

\* What a thread finds in the map without its mutex, t or NoThread: while
\* another one adds a channel, its own may seem not to be there.
Finds(t) ==
    IF t \notin DOMAIN IntegrityMap THEN {NoThread}
    ELSE {t} \cup {NoThread : d \in {inserting} \ {NoThread}}

-----------------------------------------------------------------------------
(* CheckDataIntegrity *)

Reject(t) == goto(t, "rejected")

\* It reads ChunkRange before it takes any mutex.
CheckDataIntegrity(t) ==
    /\ pc[t] = "check"
    /\ goto(t, IF ChunkRange < 0 THEN "first" ELSE "path")
    /\ UNCHANGED <<treeVars, IntegrityMap, inserting, mutex, stored, chunk,
                   retries, tmpmap, chanVars>>

\* The first check: up as far as the channel has siblings. ChunkRange and
\* LeafNodeCount are set one after the other.
CheckFirst(t) ==
    LET i == chunk[t]
        top == Min({k \in 0..(Height + 1) :
                       SiblingOf(i, k) \notin Received(t)})
        used == Siblings(i, 0, top)
    IN  /\ pc[t] = "first" /\ Free("IntegrityMap")
        /\ IF i \in Chunks /\ Proves(i, 0, top, used, used)
           THEN /\ ChunkRange' = NodeOf(i, top).End
                /\ tmpmap' = [tmpmap EXCEPT ![t] = used]
                /\ Lock(t, "IntegrityMap")
                /\ goto(t, "count")
           ELSE Reject(t) /\ UNCHANGED <<ChunkRange, tmpmap, mutex>>
    /\ UNCHANGED <<HashTreeMap, PeakHashMap, IsPeakMapCreated, LeafNodeCount,
                   ContentSize, IsFirstData, IntegrityMap, inserting, stored,
                   chunk, retries, chanVars>>

SetLeafNodeCount(t) ==
    /\ pc[t] = "count"
    /\ LeafNodeCount' = NodeOf(chunk[t], Height).End + 1
    /\ goto(t, "move")
    /\ UNCHANGED <<HashTreeMap, PeakHashMap, IsPeakMapCreated, ChunkRange,
                   ContentSize, IsFirstData, IntegrityMap, inserting, mutex,
                   stored, chunk, retries, tmpmap, chanVars>>

\* The hashes of needed that a thread's lookups, one for each, find in its map.
Lookups(t, needed) ==
    IF NoThread \in Finds(t) THEN SUBSET (Received(t) \cap needed)
                             ELSE {Received(t) \cap needed}

\* The later checks: up to the root, under HashTreeMapMutex alone.
CheckPath(t) ==
    LET i == chunk[t]
        top == Top(i, 0, (LeafNodeCount - 1) * 2)
        needed == {r \in Siblings(i, 0, top) : r.Start <= ChunkRange}
    IN  /\ pc[t] = "path" /\ Free("HashTreeMap")
        /\ \E found \in Lookups(t, needed) :
              IF i \in Chunks /\ Proves(i, 0, top, needed, found \cup HashTreeMap)
              THEN /\ ContentSize' = (ContentSize \/ i = ChunkRange)
                   /\ tmpmap' = [tmpmap EXCEPT ![t] = found]
                   /\ goto(t, "move")
              ELSE Reject(t) /\ UNCHANGED <<ContentSize, tmpmap>>
    /\ UNCHANGED <<HashTreeMap, PeakHashMap, IsPeakMapCreated, ChunkRange,
                   LeafNodeCount, IsFirstData, IntegrityMap, inserting, mutex,
                   stored, chunk, retries, chanVars>>

\* What the check has used moves to the tree. The first check holds
\* IntegrityMapMutex until then, the later ones never take it: where such a one
\* does not find its channel any more, to erase the hash, the node crashes on the
\* null map it has just added, and no state follows.
MoveToTree(t) ==
    /\ pc[t] = "move" /\ Free("HashTreeMap")
    /\ HashTreeMap' = HashTreeMap \cup tmpmap[t]
    /\ IntegrityMap' = [d \in DOMAIN IntegrityMap |->
           IF d = t THEN IntegrityMap[d] \ tmpmap[t] ELSE IntegrityMap[d]]
    /\ Unlock(IF mutex["IntegrityMap"] = t THEN {"IntegrityMap"} ELSE {})
    /\ tmpmap' = [tmpmap EXCEPT ![t] = {}]
    /\ goto(t, "passed")
    /\ UNCHANGED <<PeakHashMap, IsPeakMapCreated, ChunkRange, LeafNodeCount,
                   ContentSize, IsFirstData, inserting, stored, chunk, retries,
                   chanVars>>

-----------------------------------------------------------------------------
(* CheckPeakHash *)

\* Mutant of WhileChecking: the first channel to call it is to be the only one.
OneChecks == IsFirstData' = FALSE

\* IsFirstData stays as it is during the call: several channels may be in it.
WhileChecking == UNCHANGED IsFirstData

\* ReceiveData calls it until one call was successful. It looks into the map
\* without the mutex; an empty one is taken for a full tree.
Passed(t) ==
    /\ pc[t] = "passed"
    /\ \/ ~IsFirstData /\ goto(t, "store")
          /\ UNCHANGED <<IsPeakMapCreated, IsFirstData>>
       \/ IsFirstData /\ NoThread \in Finds(t) /\ Reject(t)
          /\ UNCHANGED <<IsPeakMapCreated, IsFirstData>>
       \/ IsFirstData /\ t \in Finds(t) /\ Received(t) = {}
          /\ IsPeakMapCreated' = TRUE /\ IsFirstData' = FALSE
          /\ goto(t, "store")
       \/ IsFirstData /\ t \in Finds(t) /\ Received(t) # {}
          /\ goto(t, "peaks")
          /\ WhileChecking /\ UNCHANGED IsPeakMapCreated
    /\ UNCHANGED <<HashTreeMap, PeakHashMap, ChunkRange, LeafNodeCount,
                   ContentSize, IntegrityMap, inserting, mutex, stored, chunk,
                   retries, tmpmap, chanVars>>

\* It takes the start node off the map and computes the root from it.
CheckPeakHash(t) ==
    /\ pc[t] = "peaks" /\ Free("IntegrityMap")
    /\ \E m \in Received(t), k \in Levels :
          LET map == Received(t) \ {m}
              count == PeakLeafCount(m.End)
              top == Top(m.Start, k, LastIndex(count))
              needed == {r \in Siblings(m.Start, k, top) : TreeIndex(r) <= 2 * m.End}
          IN  /\ IsStart(m, Received(t)) /\ m = NodeOf(m.Start, k)
              /\ LeafNodeCount' = count
              /\ IF needed \subseteq map /\ Proves(m.Start, k, top, needed, map)
                 THEN /\ ChunkRange' = m.End
                      /\ tmpmap' = [tmpmap EXCEPT ![t] = needed \cup {m}]
                      /\ Lock(t, "IntegrityMap")
                      /\ UNCHANGED IntegrityMap
                      /\ goto(t, "peaks2")
                 ELSE /\ IntegrityMap' = [IntegrityMap EXCEPT ![t] = map]
                      /\ mutex' = IF needed \subseteq map
                                  THEN [mutex EXCEPT !["IntegrityMap"] = t] ELSE mutex
                      /\ Reject(t)
                      /\ UNCHANGED <<ChunkRange, tmpmap>>
    /\ UNCHANGED <<HashTreeMap, PeakHashMap, IsPeakMapCreated, ContentSize,
                   IsFirstData, inserting, stored, chunk, retries, chanVars>>

\* It takes HashTreeMapMutex, then PeakHashMapMutex.
LockTree(t) ==
    /\ pc[t] = "peaks2" /\ Lock(t, "HashTreeMap") /\ goto(t, "peaks3")
    /\ UNCHANGED <<treeVars, IntegrityMap, inserting, stored, chunk, retries,
                   tmpmap, chanVars>>

MovePeaks(t) ==
    /\ pc[t] = "peaks3" /\ Free("PeakHashMap")
    /\ HashTreeMap' = HashTreeMap \cup tmpmap[t]
    /\ PeakHashMap' = PeakHashMap \cup tmpmap[t]
    /\ IntegrityMap' = [IntegrityMap EXCEPT ![t] = @ \ tmpmap[t]]
    /\ Unlock({"IntegrityMap", "HashTreeMap"})
    /\ tmpmap' = [tmpmap EXCEPT ![t] = {}]
    /\ goto(t, "peaks4")
    /\ UNCHANGED <<IsPeakMapCreated, ChunkRange, LeafNodeCount, ContentSize,
                   IsFirstData, inserting, stored, chunk, retries, chanVars>>

\* IsPeakMapCreated and then IsFirstData are set without a mutex.
PeaksMade(t) ==
    /\ pc[t] \in {"peaks4", "peaks5"}
    /\ IF pc[t] = "peaks4"
       THEN IsPeakMapCreated' = TRUE /\ goto(t, "peaks5") /\ UNCHANGED IsFirstData
       ELSE IsFirstData' = FALSE /\ goto(t, "store") /\ UNCHANGED IsPeakMapCreated
    /\ UNCHANGED <<HashTreeMap, PeakHashMap, ChunkRange, LeafNodeCount,
                   ContentSize, IntegrityMap, inserting, mutex, stored, chunk,
                   retries, tmpmap, chanVars>>

\* SetData.
SetData(t) ==
    /\ pc[t] = "store"
    /\ stored' = stored \cup {chunk[t]}
    /\ chunk' = [chunk EXCEPT ![t] = -1]
    /\ retries' = [retries EXCEPT ![t] = 0]
    /\ goto(t, "ask")
    /\ UNCHANGED <<treeVars, IntegrityMap, inserting, mutex, tmpmap, chanVars>>

-----------------------------------------------------------------------------
(* The serving side *)

\* The first request of a channel, the one that the peak hashes answer: for a
\* chunk that this node has announced, so one it has stored. (What a node takes
\* for the last chunk it may ask for unannounced, but only after a DATA came on
\* the channel.)
ReceiveRequest(t) ==
    /\ pc[t] = "wait"
    /\ \E i \in stored : chunk' = [chunk EXCEPT ![t] = i]
    /\ goto(t, "get")
    /\ UNCHANGED <<treeVars, IntegrityMap, inserting, mutex, stored, retries,
                   tmpmap, chanVars>>

\* Mutant of PeakMapMade: the map is made anew for every channel.
PeakMapNeverMade == FALSE

PeakMapMade == IsPeakMapCreated

\* GetPeakHashes: the map, or the nodes of the tree, under HashTreeMapMutex
\* after PeakHashMapMutex, unless the tree looks full.
GetPeakHashes(t) ==
    /\ pc[t] = "get" /\ Free("PeakHashMap")
    /\ IF PeakMapMade
       THEN /\ tmpmap' = [tmpmap EXCEPT ![t] = PeakHashMap]
            /\ goto(t, "integrity")
            /\ UNCHANGED <<IsPeakMapCreated, mutex>>
       ELSE /\ IsPeakMapCreated' = TRUE
            /\ IF IsPowerOfTwo(ChunkRange + 1)
               THEN goto(t, "integrity") /\ UNCHANGED mutex
               ELSE Lock(t, "PeakHashMap") /\ goto(t, "get2")
            /\ UNCHANGED tmpmap
    /\ UNCHANGED <<HashTreeMap, PeakHashMap, ChunkRange, LeafNodeCount,
                   ContentSize, IsFirstData, IntegrityMap, inserting, stored,
                   chunk, retries, chanVars>>

\* On the way up from the last chunk, the complete node of two of which one is
\* not complete. A node that has received its tree's nodes finds no way up.
GetPeaksOfTree(t) ==
    LET node(k) == NodeOf(ChunkRange, k)
        sibling(k) == SiblingOf(ChunkRange, k)
        complete(r) == r.End <= ChunkRange
        peaks == {node(k) : k \in {j \in Levels :
                                complete(node(j)) /\ ~complete(sibling(j))}} \cup
                 {sibling(k) : k \in {j \in Levels :
                                complete(sibling(j)) /\ ~complete(node(j))}}
    IN  /\ pc[t] = "get2" /\ Free("HashTreeMap")
        /\ PeakHashMap' = IF IsSeeder THEN PeakHashMap \cup peaks ELSE PeakHashMap
        /\ tmpmap' = [tmpmap EXCEPT ![t] = IF IsSeeder THEN peaks ELSE {}]
        /\ Unlock({"PeakHashMap"})
        /\ goto(t, "integrity")
    /\ UNCHANGED <<HashTreeMap, IsPeakMapCreated, ChunkRange, LeafNodeCount,
                   ContentSize, IsFirstData, IntegrityMap, inserting, stored,
                   chunk, retries, chanVars>>

\* GetDataIntegrity: the siblings up to the first one the tree does not have,
\* but those of padding, whose hash is null.
GetDataIntegrity(t) ==
    LET i == chunk[t]
        top == Min({k \in 0..(Height + 1) :
                       SiblingOf(i, k) \notin HashTreeMap})
    IN  /\ pc[t] = "integrity" /\ Free("HashTreeMap")
        /\ sent' = [sent EXCEPT ![t] =
                        {r \in Siblings(i, 0, top) : ~Padding(r)}]
        /\ goto(t, "served")
    /\ UNCHANGED <<treeVars, IntegrityMap, inserting, mutex, stored, chunk,
                   retries, tmpmap, inbox>>

-----------------------------------------------------------------------------
Step(t) ==
    \/ Ask(t) \/ RetryRequest(t) \/ AddIntegrity(t) \/ Inserted(t)
    \/ CheckDataIntegrity(t) \/ CheckFirst(t) \/ SetLeafNodeCount(t)
    \/ CheckPath(t) \/ MoveToTree(t) \/ Passed(t) \/ CheckPeakHash(t)
    \/ LockTree(t) \/ MovePeaks(t) \/ PeaksMade(t) \/ SetData(t)
    \/ ReceiveRequest(t) \/ GetPeakHashes(t) \/ GetPeaksOfTree(t)
    \/ GetDataIntegrity(t)

Next == \E t \in Threads : Step(t) /\ UNCHANGED IsSeeder

Spec == Init /\ [][Next]_vars

-----------------------------------------------------------------------------
(* Properties *)

\* Types of the maps, of the mutexes and of what the threads hold.
TypeOK ==
    /\ HashTreeMap \subseteq Ranges /\ PeakHashMap \subseteq Ranges
    /\ IsPeakMapCreated \in BOOLEAN /\ ContentSize \in BOOLEAN
    /\ IsFirstData \in BOOLEAN /\ IsSeeder \in BOOLEAN
    /\ ChunkRange \in -1..(Leaves - 1) /\ LeafNodeCount \in 0..Leaves
    /\ DOMAIN IntegrityMap \subseteq Downloads
    /\ \A t \in DOMAIN IntegrityMap : IntegrityMap[t] \subseteq Ranges
    /\ inserting \in Downloads \cup {NoThread}
    /\ mutex \in [Mutexes -> Threads \cup {NoThread}]
    /\ stored \subseteq Chunks
    /\ pc \in [Threads -> Outside \cup Inside]
    /\ chunk \in [Threads -> -1..(Leaves - 1)]
    /\ retries \in [Threads -> 0..(RetryCount + 1)]
    /\ tmpmap \in [Threads -> SUBSET Ranges]
    /\ inbox \in [Threads -> SUBSET Ranges]
    /\ sent \in [Threads -> SUBSET Ranges]

\* The mutex a thread waits for, if it is not free.
Wants(t) ==
    CASE pc[t] \in {"first", "peaks"} -> {"IntegrityMap"}
      [] pc[t] = "receive" /\ inbox[t] # {} -> {"IntegrityMap"}
      [] pc[t] \in {"path", "move", "peaks2", "get2", "integrity"} -> {"HashTreeMap"}
      [] pc[t] \in {"peaks3", "get"} -> {"PeakHashMap"}
      [] OTHER -> {}

\* No threads wait for each other, nor for one that has left its call, though
\* CheckPeakHash takes the mutex of the tree before that of the peaks and
\* GetPeakHashes the other way round: nobody asks for the peak hashes of a node
\* before it has stored a chunk, and then they have been made.
NoDeadlock ==
    /\ \A x \in Mutexes : ~Free(x) => pc[mutex[x]] \in Inside
    /\ \A S \in (SUBSET Threads) \ {{}} :
          \E t \in S : \A x \in Wants(t) : mutex[x] \notin S

\* A seeder sends a hash once on a channel. However the calls interleave, it is
\* somewhere until the tree has it.
NothingLost ==
    \A t \in Downloads : ~IsSeeder =>
        sent[t] \cup (IF sent[t] = {} THEN {} ELSE ContentPeaks)
            \subseteq inbox[t] \cup Received(t) \cup tmpmap[t] \cup HashTreeMap

\* A node that downloads from this one while others still fill its tree is sent
\* the peak hashes and with them every hash that proves the chunk, unless a
\* CheckPeakHash has put a node among them that is none: one that its thread had
\* not found in the map, and so not moved to the tree, when it checked the chunk.
ServedIsEnough ==
    \A t \in Threads :
        pc[t] = "served" /\ PeakHashMap \subseteq ContentPeaks =>
            /\ tmpmap[t] = ContentPeaks
            /\ \A r \in Siblings(chunk[t], 0, Height) :
                  Padding(r) \/ r \in sent[t] \cup tmpmap[t]
=============================================================================
