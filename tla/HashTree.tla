------------------------------ MODULE HashTree ------------------------------
(* How the nodes of a swarm build and check their hash trees (class HashTree *)
(* with the PPClient handlers that call it). Each channel carries chunks     *)
(* from a serving node to a downloading one, which may serve others in turn  *)
(* with the hashes it has. A call of a handler into the tree is one step;    *)
(* how the calls of several channels interleave inside one is Download's.    *)
EXTENDS MerkleTree

CONSTANTS
    Nodes,
    Swarms,     \* the swarms looked at, each of them a set of channels: pairs
                \* <<serving node, downloading node>>
    Faults,     \* what may happen to a datagram: "lose" an INTEGRITY, "spoil"
                \* an INTEGRITY or a DATA, "reorder" DATA and INTEGRITYs
    MaxFaults   \* bound on the number of these faults

ASSUME SwarmsAssumption == Swarms \subseteq SUBSET (Nodes \X Nodes)
ASSUME FaultsAssumption ==
    Faults \subseteq {"lose", "spoil", "reorder"} /\ MaxFaults \in Nat

Channels == UNION Swarms

\* The tree of the content and the hash of its root.
ContentTree == Make(NumChunks)
RootHash == At(ContentTree, Leaves - 1).Hash

\* Mutant of IsRootHash: any hash will do.
IsAnyHash(h) == h # Null

IsRootHash(h) == h = RootHash

VARIABLES
    swarm,              \* the channels that are open: one of Swarms
    HashTreeMap,        \* per node: its tree
    PeakHashMap,        \* per node
    IsPeakMapCreated,   \* per node
    ChunkRange,         \* per node: index of the last chunk, -1 while unknown
    LeafNodeCount,      \* per node
    ContentSize,        \* per node: is it known?
    IsFirstData,        \* per node: the peak hashes have not been checked yet
    mutexFree,          \* per node: IntegrityMapMutex has been given back
    ChunkRangeList,     \* per node: the chunks it has stored
    IntegrityMap,       \* per channel that has received an INTEGRITY
    IntegritySendMap,   \* per channel: indexes of the hashes sent for data
    IsFirstRequest,     \* per channel
    announced,          \* per channel: the range of the handshake's HAVE
    integrities, data,  \* per channel: the datagrams in flight
    delayed,            \* per channel: INTEGRITYs the DATA may overtake
    pc,                 \* per channel
    retry,              \* per channel: its last DATA was rejected
    faults

treeVars == <<HashTreeMap, PeakHashMap, IsPeakMapCreated, ChunkRange,
              LeafNodeCount, ContentSize, IsFirstData>>
netVars  == <<swarm, integrities, delayed, faults>>
sendVars == <<IntegritySendMap, IsFirstRequest, announced>>
vars == <<swarm, HashTreeMap, PeakHashMap, IsPeakMapCreated, ChunkRange,
          LeafNodeCount, ContentSize, IsFirstData, mutexFree, ChunkRangeList,
          IntegrityMap, IntegritySendMap, IsFirstRequest, announced,
          integrities, delayed, data, pc, retry, faults>>

Have(n) == Covered(ChunkRangeList[n])

NoData == [chunk |-> -1, ok |-> FALSE]
NoRange == [Start |-> -1, End |-> -1]

\* The nodes nobody serves are seeders, who have made their trees from the file
\* (MakeHashTree); the others know the root hash.
Init ==
    /\ swarm \in Swarms
    /\ LET served == {c[2] : c \in swarm}
           seeded(s, l) == [n \in Nodes |-> IF n \notin served THEN s ELSE l]
       IN
        /\ HashTreeMap = seeded(ContentTree, {})
        /\ IsPeakMapCreated = [n \in Nodes |-> FALSE]
        /\ ChunkRange = seeded(NumChunks - 1, -1)
        /\ LeafNodeCount = seeded(Leaves, 0)
        /\ ContentSize = seeded(TRUE, FALSE)
        /\ ChunkRangeList =
               seeded(<<[Start |-> 0, End |-> NumChunks - 1]>>, <<>>)
    /\ PeakHashMap = [n \in Nodes |-> {}]
    /\ IsFirstData = [n \in Nodes |-> TRUE]
    /\ mutexFree = [n \in Nodes |-> TRUE]
    /\ IntegrityMap = [c \in {} |-> {}]
    /\ IntegritySendMap = [c \in Channels |-> {}]
    /\ IsFirstRequest = [c \in Channels |-> TRUE]
    /\ announced = [c \in Channels |-> NoRange]
    /\ integrities = [c \in Channels |-> {}]
    /\ delayed = [c \in Channels |-> {}]
    /\ data = [c \in Channels |-> NoData]
    /\ pc = [c \in Channels |-> "handshake"]
    /\ retry = [c \in Channels |-> FALSE]
    /\ faults = 0

goto(c, label) == pc' = [pc EXCEPT ![c] = label]

Fault(kind) == kind \in Faults /\ faults < MaxFaults /\ faults' = faults + 1

-----------------------------------------------------------------------------
(* The serving side of a channel *)

\* SendHandShakeHave announces the longest range of the serving node.
SendHandShakeHave(c) ==
    /\ pc[c] = "handshake" /\ ChunkRangeList[c[1]] # <<>>
    /\ announced' = [announced EXCEPT ![c] =
                        BiggestHavedChunkRange(ChunkRangeList[c[1]])]
    /\ goto(c, "idle")
    /\ UNCHANGED <<treeVars, mutexFree, ChunkRangeList, IntegrityMap,
                   IntegritySendMap, IsFirstRequest, netVars, data, retry>>

\* GetPeakHashes, when the map of them has not been made: the complete nodes
\* whose siblings are not, none while ChunkRange looks like a full tree's.
PeakNodes(n) ==
    IF ChunkRange[n] < 0 \/ IsPowerOfTwo(ChunkRange[n] + 1)
    THEN {}
    ELSE {m \in HashTreeMap[n] :
            /\ m.End <= ChunkRange[n]
            /\ \E k \in Levels : /\ m.End = m.Start + 2^k - 1
                                 /\ SiblingOf(m.Start, k).End > ChunkRange[n]}

\* Mutant of GetPeakHashes: nobody makes the map on the first call.
GetPeakHashesMade(n) == PeakHashMap[n]

GetPeakHashes(n) == IF IsPeakMapCreated[n] THEN PeakHashMap[n] ELSE PeakNodes(n)

\* Mutant of GetDataIntegrity: the topmost of the hashes is left out.
GetDataIntegrityButTop(c, i) ==
    LET idx(k) == TreeIndex(SiblingOf(i, k))
        known  == Indexes(HashTreeMap[c[1]])
        stop   == Min({k \in Levels : idx(k) \notin known \cup IntegritySendMap[c]})
    IN  {m \in HashTreeMap[c[1]] :
            /\ m.Hash # Null
            /\ \E k \in Levels : k + 1 < stop /\ idx(k) = TreeIndex(m)
            /\ TreeIndex(m) \notin IntegritySendMap[c]}

\* GetDataIntegrity: the hashes of the siblings on the way up from chunk i
\* that were not sent on this channel before. It gives up at the first one the
\* tree has no node for, and skips those of padding.
GetDataIntegrity(c, i) ==
    LET idx(k) == TreeIndex(SiblingOf(i, k))
        known  == Indexes(HashTreeMap[c[1]])
        stop   == Min({k \in Levels : idx(k) \notin known \cup IntegritySendMap[c]})
    IN  {m \in HashTreeMap[c[1]] :
            /\ m.Hash # Null
            /\ \E k \in Levels : k < stop /\ idx(k) = TreeIndex(m)
            /\ TreeIndex(m) \notin IntegritySendMap[c]}

\* SendNextRequest or SendRequest(ChunkRange) of the downloading node and
\* ReceiveRequest of the serving one: the peak hashes before the first chunk,
\* the integrity hashes, the DATA. The first chunk is the first one announced,
\* then the one taken for the last, until the content size is known, then the
\* first one announced that is neither stored nor requested. INTEGRITYs that
\* are late arrive before the next request.
ReceiveRequest(c, i) ==
    LET from == c[1]
        to   == c[2]
        have == Have(to)
        requested == IF have = {} THEN {}
                     ELSE {data[d].chunk : d \in {b \in Channels : b[2] = to}}
                          \ {ChunkRange[to]}
        wanted == (announced[c].Start .. announced[c].End) \ (have \cup requested)
        peaks == IF IsFirstRequest[c] THEN GetPeakHashes(from) ELSE {}
    IN  /\ pc[c] = "idle" /\ delayed[c] = {}
        /\ IF have # {} /\ ~ContentSize[to] /\ ~retry[c]
           THEN i = ChunkRange[to]
           ELSE wanted # {} /\ i = Min(wanted)
        /\ integrities' = [integrities EXCEPT ![c] =
                              Put(@, peaks \cup GetDataIntegrity(c, i))]
        /\ IntegritySendMap' = [IntegritySendMap EXCEPT ![c] =
                              @ \cup Indexes(GetDataIntegrity(c, i))]
        /\ IsFirstRequest' = [IsFirstRequest EXCEPT ![c] = FALSE]
        /\ IF IsFirstRequest[c] /\ ~IsPeakMapCreated[from]
           THEN /\ PeakHashMap' = [PeakHashMap EXCEPT ![from] = peaks]
                /\ IsPeakMapCreated' = [IsPeakMapCreated EXCEPT ![from] = TRUE]
           ELSE UNCHANGED <<PeakHashMap, IsPeakMapCreated>>
        /\ data' = [data EXCEPT ![c] = [chunk |-> i, ok |-> i \in Have(from)]]
        /\ goto(c, "data")
    /\ UNCHANGED <<HashTreeMap, ChunkRange, LeafNodeCount, ContentSize,
                   IsFirstData, mutexFree, ChunkRangeList, IntegrityMap,
                   announced, retry, swarm, delayed, faults>>

-----------------------------------------------------------------------------
(* The downloading side *)

\* ReceiveIntegrity: AddIntegrity puts the hash into the map of the channel.
\* Those of one DATA have different indexes: the order of their arrival does
\* not matter.
AddIntegrity(c, m) ==
    /\ mutexFree[c[2]]
    /\ \E waiting \in {integrities[c], delayed[c]} :
          m \in waiting /\ \A p \in waiting : TreeIndex(m) <= TreeIndex(p)
    /\ integrities' = [integrities EXCEPT ![c] = @ \ {m}]
    /\ delayed' = [delayed EXCEPT ![c] = @ \ {m}]
    /\ IntegrityMap' =
           IF c \in DOMAIN IntegrityMap
           THEN [IntegrityMap EXCEPT ![c] = Put(@, {m})]
           ELSE [d \in DOMAIN IntegrityMap \cup {c} |->
                    IF d = c THEN {m} ELSE IntegrityMap[d]]
    /\ UNCHANGED <<treeVars, mutexFree, ChunkRangeList, sendVars, data, pc,
                   retry, swarm, faults>>

Received(c) == IF c \in DOMAIN IntegrityMap THEN IntegrityMap[c] ELSE {}

\* Mutants of MoveToTree: everything the channel has received moves, checked
\* or not; nothing reaches the tree.
MoveAllToTree(c, used) ==
    /\ HashTreeMap' = [HashTreeMap EXCEPT ![c[2]] = Put(Received(c), @)]
    /\ IntegrityMap' = [IntegrityMap EXCEPT ![c] = {}]

MoveNothingToTree(c, used) ==
    /\ IntegrityMap' = IF c \in DOMAIN IntegrityMap
                       THEN [IntegrityMap EXCEPT ![c] = @ \ used]
                       ELSE IntegrityMap
    /\ UNCHANGED HashTreeMap

\* The hashes a check has used move from the channel's map to the tree.
MoveToTree(c, used) ==
    /\ HashTreeMap' = [HashTreeMap EXCEPT ![c[2]] = Put(used, @)]
    /\ IntegrityMap' = IF c \in DOMAIN IntegrityMap
                       THEN [IntegrityMap EXCEPT ![c] = @ \ used]
                       ELSE IntegrityMap

DataHash(c) == IF data[c].ok THEN Leaf(data[c].chunk) ELSE Bad

Reject(c) == goto(c, "rejected")

\* CheckDataIntegrity while ChunkRange is unknown: up as far as the channel
\* has received siblings; the end of the node reached is taken for the last
\* chunk. Without any sibling the check fails (the chunk would have to be the
\* whole content, which NumChunksAssumption leaves out: Make crashes on it).
CheckFirstDataIntegrity(c) ==
    LET n    == c[2]
        i    == data[c].chunk
        map  == Received(c)
        idx(k) == TreeIndex(SiblingOf(i, k))
        top  == Min({k \in 0..(Depth(NumChunks) + 1) : idx(k) \notin Indexes(map)})
        used == {At(map, idx(k)) : k \in 0..(top - 1)}
        sib  == [k \in 0..(top - 1) |-> At(map, idx(k)).Hash]
        end  == NodeOf(i, top).End
    IN  /\ pc[c] = "data" /\ integrities[c] = {}
        /\ ChunkRange[n] < 0 /\ mutexFree[n]
        /\ IF top > 0 /\ IsRootHash(HashUp(i, DataHash(c), 0, top, sib))
           THEN /\ ChunkRange' = [ChunkRange EXCEPT ![n] = end]
                /\ LeafNodeCount' = [LeafNodeCount EXCEPT ![n] = end + 1]
                /\ MoveToTree(c, used)
                /\ goto(c, "first")
           ELSE /\ Reject(c)
                /\ UNCHANGED <<HashTreeMap, ChunkRange, LeafNodeCount,
                               IntegrityMap>>
    /\ UNCHANGED <<PeakHashMap, IsPeakMapCreated, ContentSize, IsFirstData,
                   mutexFree, ChunkRangeList, sendVars, netVars, data, retry>>

\* CheckDataIntegrity once ChunkRange is known: up to the root, with the hash
\* the channel has received or else the one in the tree; a sibling behind
\* ChunkRange has none. The last chunk gives the content size away.
CheckDataIntegrity(c) ==
    LET n    == c[2]
        i    == data[c].chunk
        map  == Received(c)
        sibling(k) == SiblingOf(i, k)
        idx(k) == TreeIndex(sibling(k))
        top  == Min({k \in 0..(Depth(NumChunks) + 1) :
                        idx(k) > (LeafNodeCount[n] - 1) * 2})
        real == {k \in 0..(top - 1) : sibling(k).Start <= ChunkRange[n]}
        used == {m \in map : \E k \in real : idx(k) = TreeIndex(m)}
        sib  == [k \in 0..(top - 1) |->
                    IF k \notin real THEN Null
                    ELSE At(Put(HashTreeMap[n], map), idx(k)).Hash]
        passes == /\ \A k \in real :
                        idx(k) \in Indexes(map) \cup Indexes(HashTreeMap[n])
                  /\ IsRootHash(HashUp(i, DataHash(c), 0, top, sib))
    IN  /\ pc[c] = "data" /\ integrities[c] = {}
        /\ ChunkRange[n] >= 0
        /\ IF passes
           THEN /\ ContentSize' = [ContentSize EXCEPT ![n] =
                                      @ \/ i = ChunkRange[n]]
                /\ MoveToTree(c, used)
                /\ goto(c, "first")
           ELSE /\ Reject(c)
                /\ UNCHANGED <<ContentSize, HashTreeMap, IntegrityMap>>
    /\ UNCHANGED <<PeakHashMap, IsPeakMapCreated, ChunkRange, LeafNodeCount,
                   IsFirstData, mutexFree, ChunkRangeList, sendVars, netVars,
                   data, retry>>

\* CheckPeakHash: from the start node up to the root, with a hash of the
\* channel for every index up to that of the start node's last chunk. What it
\* starts from leaves the map for good; when the root does not come out right
\* the mutex is not given back.
CheckPeakHash(c) ==
    LET n == c[2] IN
    /\ pc[c] = "first" /\ IsFirstData[n]
    /\ \/ /\ c \notin DOMAIN IntegrityMap
          /\ Reject(c)
          /\ UNCHANGED <<treeVars, mutexFree, IntegrityMap>>
       \/ /\ c \in DOMAIN IntegrityMap /\ IntegrityMap[c] = {}
          /\ IsPeakMapCreated' = [IsPeakMapCreated EXCEPT ![n] = TRUE]
          /\ IsFirstData' = [IsFirstData EXCEPT ![n] = FALSE]
          /\ goto(c, "store")
          /\ UNCHANGED <<HashTreeMap, PeakHashMap, ChunkRange, LeafNodeCount,
                         ContentSize, mutexFree, IntegrityMap>>
       \/ /\ c \in DOMAIN IntegrityMap /\ mutexFree[n]
          /\ \E m \in IntegrityMap[c], k \in Levels :
                LET map == IntegrityMap[c] \ {m}
                    count == PeakLeafCount(m.End)
                    idx(j) == TreeIndex(SiblingOf(m.Start, j))
                    top  == Min({j \in k..(Depth(NumChunks) + 1) :
                                    idx(j) > LastIndex(count)})
                    real == {j \in k..(top - 1) : idx(j) <= 2 * m.End}
                    used == {p \in map : \E j \in real : idx(j) = TreeIndex(p)}
                    sib  == [j \in k..(top - 1) |-> IF j \in real
                                THEN At(map, idx(j)).Hash ELSE Null]
                IN  /\ IsStart(m, IntegrityMap[c])
                    /\ m.End = m.Start + 2^k - 1
                    /\ LeafNodeCount' = [LeafNodeCount EXCEPT ![n] = count]
                    /\ \/ /\ \E j \in real : idx(j) \notin Indexes(map)
                          /\ IntegrityMap' = [IntegrityMap EXCEPT ![c] = map]
                          /\ Reject(c)
                          /\ UNCHANGED <<HashTreeMap, PeakHashMap, ChunkRange,
                                IsPeakMapCreated, IsFirstData, mutexFree>>
                       \/ /\ \A j \in real : idx(j) \in Indexes(map)
                          /\ ~IsRootHash(HashUp(m.Start, m.Hash, k, top, sib))
                          /\ IntegrityMap' = [IntegrityMap EXCEPT ![c] = map]
                          /\ mutexFree' = [mutexFree EXCEPT ![n] = FALSE]
                          /\ Reject(c)
                          /\ UNCHANGED <<HashTreeMap, PeakHashMap, ChunkRange,
                                         IsPeakMapCreated, IsFirstData>>
                       \/ /\ \A j \in real : idx(j) \in Indexes(map)
                          /\ IsRootHash(HashUp(m.Start, m.Hash, k, top, sib))
                          /\ ChunkRange' = [ChunkRange EXCEPT ![n] = m.End]
                          /\ MoveToTree(c, used \cup {m})
                          /\ PeakHashMap' = [PeakHashMap EXCEPT ![n] =
                                                Put(@, used \cup {m})]
                          /\ IsPeakMapCreated' =
                                 [IsPeakMapCreated EXCEPT ![n] = TRUE]
                          /\ IsFirstData' = [IsFirstData EXCEPT ![n] = FALSE]
                          /\ goto(c, "store")
                          /\ UNCHANGED mutexFree
          /\ UNCHANGED ContentSize
    /\ UNCHANGED <<ChunkRangeList, sendVars, netVars, data, retry>>

\* SetData stores the chunk.
SetData(c) ==
    /\ \/ pc[c] = "store"
       \/ pc[c] = "first" /\ ~IsFirstData[c[2]]
    /\ ChunkRangeList' = [ChunkRangeList EXCEPT ![c[2]] =
           AfterSetHave(@, -1, data[c].chunk, data[c].chunk).list]
    /\ retry' = [retry EXCEPT ![c] = FALSE]
    /\ data' = [data EXCEPT ![c] = NoData]
    /\ goto(c, "idle")
    /\ UNCHANGED <<treeVars, mutexFree, IntegrityMap, sendVars, netVars>>

\* RetryRequest, as long as the channel does.
RetryRequest(c) ==
    /\ pc[c] = "rejected"
    /\ retry' = [retry EXCEPT ![c] = TRUE]
    /\ data' = [data EXCEPT ![c] = NoData]
    /\ goto(c, "idle")
    /\ UNCHANGED <<treeVars, mutexFree, ChunkRangeList, IntegrityMap,
                   sendVars, netVars>>

-----------------------------------------------------------------------------
(* The network *)

Lose(c, m) ==
    /\ Fault("lose")
    /\ m \in integrities[c]
    /\ integrities' = [integrities EXCEPT ![c] = @ \ {m}]
    /\ UNCHANGED <<treeVars, mutexFree, ChunkRangeList, IntegrityMap,
                   sendVars, swarm, delayed, data, pc, retry>>

\* The DATA may overtake some of the INTEGRITYs sent before it.
Delay(c, late) ==
    /\ Fault("reorder")
    /\ late # {}
    /\ integrities' = [integrities EXCEPT ![c] = @ \ late]
    /\ delayed' = [delayed EXCEPT ![c] = @ \cup late]
    /\ UNCHANGED <<treeVars, mutexFree, ChunkRangeList, IntegrityMap,
                   sendVars, swarm, data, pc, retry>>

\* An INTEGRITY with another hash, a DATA with other bytes.
Spoil(c) ==
    /\ Fault("spoil")
    /\ \/ \E m \in integrities[c] :
             /\ integrities' = [integrities EXCEPT ![c] =
                                   Put(@, {[m EXCEPT !.Hash = Bad]})]
             /\ UNCHANGED data
       \/ /\ pc[c] = "data" /\ data[c].ok
          /\ data' = [data EXCEPT ![c].ok = FALSE]
          /\ UNCHANGED integrities
    /\ UNCHANGED <<treeVars, mutexFree, ChunkRangeList, IntegrityMap,
                   sendVars, swarm, delayed, pc, retry>>

-----------------------------------------------------------------------------
Next ==
    \E c \in swarm :
        \/ SendHandShakeHave(c)
        \/ \E i \in 0..(Leaves - 1) : ReceiveRequest(c, i)
        \/ \E m \in integrities[c] \cup delayed[c] : AddIntegrity(c, m)
        \/ \E m \in integrities[c] : Lose(c, m)
        \/ \E late \in SUBSET integrities[c] : Delay(c, late)
        \/ CheckFirstDataIntegrity(c) \/ CheckDataIntegrity(c)
        \/ CheckPeakHash(c) \/ SetData(c) \/ RetryRequest(c)
        \/ Spoil(c)

Spec == Init /\ [][Next]_vars

-----------------------------------------------------------------------------
(* Properties *)

\* Types of the members of HashTree, of the channels and of the datagrams.
TypeOK ==
    LET NodeSet == SUBSET [Start : 0..(Leaves - 1), End : 0..(Leaves - 1),
                           Hash : Seq(Int)]
    IN  /\ swarm \in Swarms
        /\ HashTreeMap \in [Nodes -> NodeSet]
        /\ PeakHashMap \in [Nodes -> NodeSet]
        /\ IsPeakMapCreated \in [Nodes -> BOOLEAN]
        /\ ChunkRange \in [Nodes -> -1..(Leaves - 1)]
        /\ LeafNodeCount \in [Nodes -> 0..Leaves]
        /\ ContentSize \in [Nodes -> BOOLEAN]
        /\ IsFirstData \in [Nodes -> BOOLEAN]
        /\ mutexFree \in [Nodes -> BOOLEAN]
        /\ ChunkRangeList \in [Nodes -> Seq(ChunkRangeSt)]
        /\ DOMAIN IntegrityMap \subseteq Channels
        /\ \A c \in DOMAIN IntegrityMap : IntegrityMap[c] \in NodeSet
        /\ IntegritySendMap \in [Channels -> SUBSET Nat]
        /\ IsFirstRequest \in [Channels -> BOOLEAN]
        /\ announced \in [Channels -> ChunkRangeSt \cup {NoRange}]
        /\ integrities \in [Channels -> NodeSet]
        /\ delayed \in [Channels -> NodeSet]
        /\ data \in [Channels -> [chunk : 0..(Leaves - 1), ok : BOOLEAN]
                                  \cup {NoData}]
        /\ pc \in [Channels -> {"handshake", "idle", "data", "first", "store",
                                "rejected"}]
        /\ retry \in [Channels -> BOOLEAN]
        /\ faults \in 0..MaxFaults

\* Whatever the network does to hashes and data, every DATA that passes
\* CheckDataIntegrity is a chunk of the content, a node's first data and the
\* later ones, which are stored without CheckPeakHash; and a node's tree (what it
\* will serve to others) and its peak hashes hold only hashes of the content's
\* tree.
OnlyGenuine ==
    /\ \A c \in Channels : pc[c] \in {"first", "store"} => data[c].ok
    /\ \A n \in Nodes : HashTreeMap[n] \cup PeakHashMap[n] \subseteq ContentTree

\* A node can serve what it has stored: the hash of every sibling above the
\* chunk that is not padding is in its tree.
StoredIsServable ==
    \A n \in Nodes : \A i \in Have(n), k \in 0..(Depth(NumChunks) - 1) :
        SiblingOf(i, k).Start < NumChunks =>
            TreeIndex(SiblingOf(i, k)) \in Indexes(HashTreeMap[n])

\* What has been announced starts in the first half of the tree: no hash above
\* the first chunk that is asked for is a peak hash or one of padding.
AnnouncedLeft ==
    \A c \in Channels : 2 * announced[c].Start < Leaves \/ NumChunks = Leaves

\* The check of the peak hashes finds the last chunk of the content, at a node
\* served by a seeder and at one served by another node.
LastChunkFound ==
    faults = 0 /\ AnnouncedLeft =>
        \A n \in Nodes : ~IsFirstData[n] => ChunkRange[n] = NumChunks - 1

\* Whatever hashes are lost, spoilt or late, no node takes a part of the content
\* for the whole: an empty map, which CheckPeakHash takes for a full tree also
\* when the peak hashes were lost, leaves the end of the padded tree.
NeverShort ==
    \A n \in Nodes : ChunkRange[n] # -1 => ChunkRange[n] >= NumChunks - 1

\* While no INTEGRITY is lost, spoilt or late, genuine data is not rejected:
\* each hash is sent once per channel, with the first DATA that needs it or as a
\* peak hash, and that is enough, also from a node that has no hashes of
\* padding to serve.
GenuinePasses ==
    faults = 0 /\ AnnouncedLeft =>
        \A c \in Channels : ~(pc[c] = "rejected" /\ data[c].ok)

\* Without a fault every handler gives IntegrityMapMutex back: none gets to the
\* failing end of CheckPeakHash, which keeps it. (A lost or spoilt hash leads
\* there, and then the mutex stays locked.)
MutexGivenBack == faults = 0 => \A n \in Nodes : mutexFree[n]

\* "The number of maximum retry after failure of receiving data (e.g Integrity
\* check failure)": when the chunk is sent again unharmed, it is accepted.
RetryHelps ==
    \A c \in Channels : pc[c] = "rejected" /\ retry[c] => ~data[c].ok

\* "Peak Hash check error!": genuine peak hashes pass.
PeaksPass ==
    \A c \in Channels :
        pc[c] = "rejected" /\ data[c].ok /\ faults = 0 => ChunkRange[c[2]] < 0
=============================================================================
