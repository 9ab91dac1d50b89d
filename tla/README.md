# A model of the ETRI PPSP node

This directory specifies, in TLA+, the node of the PPSP implementation under
`src/Src/EtriPPSP/EtriPPSP` (the peer protocol of RFC 7574 over UDP): how it
keeps track of chunks, asks its peers for them, checks what it gets against a
Merkle hash tree, and opens and closes its channels. File names below without a
path are in that directory.

- `*.tla`, `MC*.tla`, `*.cfg`: the modules and their TLC instances
- `*Proofs.tla`: theorems checked by TLAPS
- `PROJECT.json`: for each definition the lines it models, the runs, a mutant
  for each property checked, the hazards of the code and the findings

## 1. Inventory

A node is a `PPServer`: one UDP socket, one receive thread, and a list of
`PPClient` objects, one per channel. The receive thread finds the channel a
datagram is for and puts it in that channel's queue; the channel's own receive
thread takes it out and handles it. All channels share one `PPInfo`, with the
chunk map (`Binmap`) and the hash tree (`HashTree`).

| component | state | operations | used by |
|---|---|---|---|
| `PPServer` | `PPClientList` under `PPClientMutex`, `NextChannelID` | `Receive`, `AddPeer`, `GetPeer`, `GetPeerList`, `ClientStop` | the socket; `PPClient::Stop` by callback |
| `PPClient` | queue, `IsStop`, `MyInfo`, `ChannelID` and `DestChannelID`, `IsHandshaked`, `SilentSec`, `LastRequestedIndex`, `RetryCount`, the peer's `Binmap` | `SetMessage`, one handler per message, `SendNextRequest`, `RetryRequest`, `KeepAliveCheck`, `Stop` | its receive, keep-alive and PEX threads |
| `Binmap` | `ChunkRangeList`, `CP`, `RequestedMap`, `LastChunk`, `LastChunkSize`, the file; three mutexes | `SetHave`, `SetData`, `GetData`, `GetRequestData`, `ReleaseRequested`, `CheckFinish`, `SetLastChunk` | every channel's receive thread |
| `HashTree` | the tree, `ChunkRange`, `LeafNodeCount`, peak hashes; per channel the hashes received (`IntegrityMap`) and sent (`IntegritySendMap`) | `Make`, `GetPeakHashes`, `GetDataIntegrity`, `AddIntegrity`, `CheckDataIntegrity`, `CheckPeakHash` | every channel's receive thread |
| `PPInfo` | the two above, `IsFirstData`, the configuration | forwards | every channel |
| message classes (`PP/`) | none | encode, decode; `HandShake` carries the swarm's name and the parameters | `PPClient` |
| SHA, `Util`, `main`, configuration | none after start-up | | |

What is hard in it, and hence what the properties are about:

- **Threads.** Channels call `Binmap` and `HashTree` at once. Several reads are
  outside the lock of what they read (`CP`, `LastChunk`, `ChunkRange`, the find in
  `IntegrityMap`), several operations are made of more than one critical section
  (`SetData`, `CheckFinish`, `SetLastChunk`, `CheckPeakHash`), and the three
  mutexes of `HashTree` are taken in different orders.
- **Order.** Chunks come in any order; a list of ranges, not a bit per chunk,
  has to be right after each. `INTEGRITY`s may be overtaken by the `DATA` they
  belong to.
- **Loss.** UDP loses, repeats and delays datagrams, and a peer may die. The
  code retries on a failed check only.
- **Boundaries.** The size of a content is not told but derived from the peak
  hashes, with its arithmetic on powers of two, and the last chunk is shorter.
- **Life cycle.** Channels are stopped by their own thread or by the keep-alive
  thread, and deleted by a third one. The two ends of a channel learn of each
  other from a `HANDSHAKE` each, and of each other's end from silence only.

Correctness, per component: the map holds exactly what was stored, its records
of requests do not withhold a chunk, and the file backs the map (`Binmap`); only
hashes and data of the content are accepted and kept, and genuine ones are
accepted, and concurrent calls neither wait for each other nor lose a hash
(`HashTree`); a download finishes, and is called finished only when it is; the
two ends of a channel belong together, agree on their parameters, and neither is
left alone for ever (`PPClient`); no thread meets a deleted channel, and stopped
channels go away (`PPServer`).

## 2. Modules

```
ChunkStore           what the map promises
    ^ implemented by
Binmap ------- ChunkRanges ------- Download     HandShake    Server
    |          (pure operators)        |            |           |
    |                 |                |         Channel   ServerProofs
    |        ChunkRangesProofs         |            |
    |            |         |           |      ChannelProofs
BinmapProofs ----          ---- DownloadProofs

  HashTree ------- MerkleTree ------- HashTreeCalls
      |         (pure operators)           |
      |                |                   |
HashTreeProofs - MerkleTreeProofs - HashTreeCallsProofs
```

A line without an arrow means EXTENDS. `MCBinmap`, `MCDownload`, `MCHashTree`,
`MCHashTreeCalls`, `MCChannel` and `MCServer` give the constants of the `.cfg`
files their values.

**ChunkRanges** holds the algorithms of `Binmap.cpp` on lists of ranges as
operators: `AfterSetHave` (the growing or appending of a range, then the merging
with its neighbours and `CP`), `RequestIndex` (`GetRequestData`), `FinishRange`
(`CheckFinish`), `BiggestHavedChunkRange`. No operator is RECURSIVE: loops over
the list are folds, or the least index at which something happens.

**Binmap** is the class with its mutexes, and the calls `ReceiveData` makes to it.
A step is one critical section, or one store without a mutex: `ReceiveData` decides
whether `SetLastChunk` comes first, which stores the index and then the size it was
told; `SetDataOpen`, `SetDataHave`, `SetDataRelease` and `SetDataWrite` are the four
parts of `SetData` under `FileMutex`, `SetDataLog` and `SetDataLogged` what follows
without it; `SetDataFails` is the file that cannot be opened; `GetRequestLock` reads
`CP`, and `GetRequestScan` uses it; `CheckFinish` is split where its locks end. What
`SetLastChunk` is told comes from the hash tree, where another channel may be about
to store it: `Answers` has what may be found there (`HashTree.cpp:788-789`, `:655`),
a size of 0 and the end of the padded tree included. `disk` is the number of bytes of
each chunk in the file. `had`, `finished`, `late` and `misled` are history variables.

**ChunkStore** is what a channel may assume of the map: a chunk stored stays
stored, only missing chunks are handed out, storing a chunk settles its request.
`Binmap!StoreSpec` is that specification with `have` the chunks covered by the
ranges, and `requested` those of `RequestedMap` that are not.

**Download** is the handler side: the receive threads of several channels of one
node, and the requests and data on their way. It has the calls of
`ReceiveData` in their order (check, first check with peak hashes, `SetLastChunk`,
store, next request), the release and retry after a failed check, the choice of
the next request or of stopping, and the keep-alive stop after a peer's death.
Its `Binmap` calls are `ChunkRanges`' operators, one step each. What
`CheckDataIntegrity` decides is a definition here (`Passes`: the data is
genuine, and no padding hash is needed before the last chunk is known);
`HashTree` models how it comes about.

**HandShake** says what a `HANDSHAKE` tells of its sender and when its receiver
refuses: `GetBuffer` and `Create` of the message, `GetHashFromString` and
`GetStringFromHash` of `Util.cpp` (a hash is its first 20 bytes, the 12 more of a
SHA-256, and as a string the case of its digits), and the comparisons of
`ReceiveHandShake`.

**Channel** composes two nodes and the network: the ends of their channels, each
a `PPClient`, numbered by its server. `Start` opens a channel (to the tracker, or
to a peer a `PEX_RES` has told of), `Receive` is the server's hand-over of a
datagram together with the handler (the queue between the two only delays, which
the network does too), `KeepAliveCheck` is a tick of an end's timer. A datagram
may be lost, duplicated or late, and the byte behind a `HANDSHAKE`, which
`ReceiveHandShake` reads past the message, may look like a `HAVE`. A handler is a
set of outcomes: the client it leaves, and what it sends.

**MerkleTree** and **HashTree**: a digest is a term, equal to another exactly
when it was made of the same data. `MerkleTree` has the terms, the indexes of the
nodes and the tree of the content (`NumChunks`) with its peaks. `HashTree` has a channel from a serving node
to a downloading one; a serving node may itself be downloading. Its actions are
the handlers with their calls into the class: the handshake with the peak
hashes, `ReceiveRequest` (which sends the hashes not sent before on that
channel, then the data), `AddIntegrity`, the two sides of `CheckDataIntegrity`
(before and after the size is known), `CheckPeakHash`. A call is one step.

**HashTreeCalls** takes those calls apart: the steps of several receive threads of
one node between two locks, and where they use a map without its mutex. To keep
that checkable the network is faithful and every hash right, so that a map is the
set of its nodes; what happens with wrong or missing ones is `HashTree`'s. What a
thread finds in `IntegrityMap` while another one is inserting (a data race of
`std::map`) is left open: its own entry or none.

**Server** is the life of channels: the server's receive thread and, for each
channel, its receive thread, keep-alive thread and the threads that delete it,
with the check-then-act windows of `Stop`, `KeepAliveCheck`, `GetPeer` and
`ClientStop`. Handlers are reduced to what they do to the channel.

## 3. Runs

| run | instance | shows |
|---|---|---|
| `binmap` | 5 chunks (8 leaves), 2 threads, any of the `Answers` | the map is exact in any order of arrival, no stale requests, the file backs the map, `CheckFinish` is sound and complete, and the refinement of `ChunkStore` |
| `download` | 6 chunks, 2 channels, one peer with a part of the content; 3 corrupt `DATA`, or one datagram lost or repeated, or a dead peer | failed checks withhold no chunk, nobody fetches what another does (but for two named windows), the last chunk is found, a finished download has everything, and one that comes to rest with no fault has finished (for peers as different as these: section 4) |
| `download_late` | the same without faults, two seeders | *violation*, finding 1 |
| `download_lost` | one channel, one loss | *violation*, finding 2 |
| `hashtree` | 6 chunks; seeder to node to node, or two seeders and one node; one datagram lost, spoilt or overtaken | only the content's hashes and chunks are kept; what is stored can be served on; the content is never taken for shorter; with no fault, the last chunk is found and genuine data passes (for ranges announced as `AnnouncedLeft` says: section 4), and the mutex is given back |
| `hashtree_calls` | 6 chunks; two downloading threads and a serving one, or three serving ones at a seeder | the calls never wait for each other in a circle, no hash sent once is lost between the maps, and what is served while the tree is filling is enough as long as the peak hashes are |
| `hashtree_peaks` | 5 chunks | *violation*, finding 3 |
| `hashtree_retry` | 6 chunks, one loss | *violation*, finding 4 |
| `server` | 2 channels, 2 datagrams | nobody meets a deleted client, no handler runs in a deleted one, stopped clients are deleted |
| `server_pex` | the same, smaller | *violation*, finding 5 |
| `channel` | 2 nodes, 2 channels each; one datagram lost or duplicated, or one byte read too far; any delay | the ends of a channel send to each other and agree on their parameters, equal nodes accept each other, no end is left alone for ever |
| `channel_sha256` | the same with SHA-256, no faults | *violation*, finding 6 |

Each property of a passing run has a mutant in `PROJECT.json`: a change of one
definition, of the kind a bug would be, under which the run finds the property
violated. Deadlock checking is off (but in `binmap`) because the programs stop: a
download that has finished, channels that have closed, a bound that is used up.
That nobody waits for ever for a mutex is stated instead: `NoDeadlock`,
`MutexGivenBack`, `StoppedIsDeleted`.

### Bounds, and why they are enough

- **Chunks.** `SetHave`, `GetRequestData` and `CheckFinish` look at a range and
  its neighbours; five chunks allow three separate ranges and every way of
  growing, joining and closing them, including both ends. In `Download` and
  `HashTree`, six chunks have two peak hashes (4+2), two padded leaves and a
  chunk whose path crosses the padding. `NumChunksAssumption` of `Download` says
  for which contents `CheckPeakHash` behaves as the module takes for granted.
  For five chunks it does not (finding 3).
- **Single-chunk contents** are left out: `Make` reads a `RootNode` it never set
  (`HashTree.cpp:359`).
- **Threads and channels.** Two: the locks are pairwise, and each window is
  between one channel and another. In `HashTreeCalls` two threads download, so that
  two are in a first check or in `CheckPeakHash` at once, and a third serves. The
  proofs lift the bound for `Binmap`, `Download`, `HashTree`, `HashTreeCalls`, `Server`
  and `Channel`.
- **Channel.** Two channels per node: one of the two of each node, or both, may be
  the second one that a duplicated `HANDSHAKE`, a `KEEPALIVE` to channel 0 or a new
  start makes while the first is open or has closed. One node opens, the other
  answers; both opening at once makes channels that share nothing but their
  addresses. `KeepAliveInterval` 1 lets an end be silent, send a `KEEPALIVE` and
  give up.
- **Faults.** `MaxFaults` is 1 to 3. A single fault is enough to reach every
  error path; three corrupt data reach the retry limit of a channel.
- **`InitialRetryCounts`.** `RetryCount` is not initialised. It starts at 0 or at
  a value beyond the limit.
- **Server.** `MaxDatagrams` 2 allows two channels with a message each on the
  way or two messages for one; a queue of 2 and `KeepAliveInterval` 1 keep a
  message waiting while the channel is stopped and let a peer be silent, heard
  and silent again. The channels `PPServer::Start` and a `PEX_RES` open come on
  top of those.

### Abstractions

- In `HashTree` the `INTEGRITY`s of a request arrive before its `DATA` unless the
  fault "reorder" lets them be overtaken; the ones that are late arrive before the
  next request of the channel. `AddIntegrity` takes them in the order of their
  indexes. `LeafNodeCount`, computed with `pow` and `log2`, is taken as the exact
  power of two.
- In `HashTreeCalls` the `INTEGRITY`s of a request that find their channel in the
  map are one step: only their own thread reads what they change. The chunk map
  and its requests are the sets `stored` and `chunk`; that the real ones keep to
  them is `Binmap`'s.
- In `Channel` a request's `INTEGRITY`s, `ACK`s and `PEX` messages go along with
  the `DATA`, `REQUEST` and `KEEPALIVE`s. Which chunk is asked for and whether one
  is left are free. Equal datagrams in flight count as one. A datagram to an end
  that has stopped is dropped when it comes, so it is taken out at once. The
  listening port in a `HANDSHAKE` (a `short`: not sent from port 32768 on) is used
  by nothing in the model.
- In `Download`, `INTEGRITY`s are not lost.
- `Binmap` says where it stops promising what the file holds, in two history
  variables. `late`: a `DATA` was stored after the end of the download, which may
  truncate the file (finding 1). `misled`: `ReceiveData` found the wrong size or index
  of the last chunk in the hash tree, or `SetData` has forgotten the size again, or
  the last chunk came and was not known for what it is. Then the last chunk may be
  written with no bytes or with `ChunkSize` of them, and only of the last one is
  nothing said: TLC finds `DiskBacksMap` violated without either exemption.
- `LogPrintSize` of `Binmap` is the last chunk only while another thread is between
  the two comparisons of it (`Binmap.cpp:407`, `:417`), where it matters; the first is
  taken together with the unlock before it. `fwrite` is taken to write all it is given.
- The first request of a channel in `HashTreeCalls` is for an announced chunk; the last
  chunk may be asked for unannounced, but after a `DATA` only (`PPClient.cpp:855`).
  A check that no longer finds its channel in `IntegrityMap` when it comes to erase a
  hash (`HashTree.cpp:802`, a race with an insertion) uses a null map: the crash
  ends the behaviour.
- In `Server`, setting `IsStop` and clearing `MyInfo` is one step; memory of a
  deleted client keeps its last contents and is not used again, so a detached
  thread that outlives it sees `IsStop`; a second deletion may or may not end the
  node; the loop of `PPServer::Start` is over before the first datagram comes;
  whether `GetPeer(ip, port)` finds a channel to the address a `PEX_RES` tells of
  is left open. A null `MyInfo` is `crashed`, after which nothing happens. Every
  `HANDSHAKE` with a `HAVE` starts a `PEX_REQ` thread (`PPClient.cpp:610-617`), which
  only sends, so that of it there is only its use of `MyInfo` after `Stop`
  (`PEXReqCheck`); whether that `HANDSHAKE` had a `HAVE` is not kept, so any
  handshaked channel of a node that downloads may have such a thread.

### Fairness

- `Download`: weak fairness of each receive thread (it loops until it is
  stopped, `PPClient.cpp:275`), of each live peer's answer (a peer runs the same
  loop) and of the keep-alive thread of a channel whose peer has died. None for
  the network's faults.
- `Server`: weak fairness of every thread: the scheduler runs them, and each
  loops or runs to its end. None for datagrams, which may just not come. Weak
  fairness of a thread that waits for `PPClientMutex` is enough because each
  channel takes the mutex a bounded number of times.
- `Channel`: weak fairness of each end's keep-alive thread, which sleeps a second
  and checks, for ever (`PPClient.cpp:160`). Nothing of the network: an end that
  waits for a datagram that never comes must get over it by its own clock, and
  `JoinedOrClosed` says it does.
- The properties of `Binmap`, `HashTree` and `HashTreeCalls` need none.

## 4. Proofs

### Binmap

`BinmapProofs.tla` proves for any number of chunks, any sizes, any set of
threads and any peer ranges:

| theorem | states |
|---|---|
| `TypeCorrect` | `Spec => []TypeOK` |
| `RangesAlwaysExact` | the ranges are the maximal runs of exactly the chunks stored |
| `CPAlwaysExact` | `CP` ends the run from chunk 0 |
| `NeverStaleRequest` | no stored chunk is still recorded as requested |
| `DiskAlwaysBacksMap` | until data comes late, who takes `FileMutex` finds every chunk of the map in the file, with its exact size; the last one unless `misled` |
| `FinishAlwaysSound` | `CheckFinish` closes the file only when every chunk is stored |
| `FinishAlwaysComplete` | a complete map is recognised by `CheckFinish` |
| `FinishedFileHolds` | until data comes late, a finished file has every chunk with its exact size; the last one unless `misled` |
| `AlwaysAnnouncesLongest` | a handshake announces a longest run of the chunks stored |
| `ImplementsStore` | `Spec => StoreSpec`, the refinement of `ChunkStore` |

The argument has four layers.

1. *Lists of ranges* (`ChunkRangesProofs.tla`). `RangesExact` of a list says that its ranges are not empty,
   do not overlap or touch, and cover a given set. `AppendTakesIn`,
   `GrowTakesIn` and `MergeTakesIn` show what each branch of `SetHave` does to
   such a list; `SetHaveOne` puts them together: the list of a set becomes a list
   of the set with one chunk more, and `CP` follows. This is where the code's
   branches are justified: a single chunk touches at most two ranges.
2. *`MapInv`.* `RangesExact`, `CPExact` and `NoStaleRequest` are not inductive by
   themselves. `MapInv` joins them with `TypeOK` and `Storing`: a `SetData` call
   in progress stores a chunk of the content, and one that has put it into the
   map until the call returns. A request chosen with an old `CP` needs no clause:
   `RequestIndexMissing` shows that whatever `CP` is read, `IsHaveData` keeps
   `GetRequestData` from a chunk that is there.
3. *`LastInv` and `FileInv`*, on top of it, for `DiskBacksMap`. `LastInv`: while
   nobody was misled, a size that is known belongs to the last chunk of the content,
   and whoever stores that chunk knows it. `FileInv`: `FileMutex` is held from the
   opening of the file to the write, only the chunk being stored may be missing from
   the file, and the file is closed only before the first chunk and after
   `CheckFinish`.
4. *`FinishInv`*, for `FinishSound`: what `CheckFinish` has put together when it
   looks at `LastChunk` is stored, and stays so while others add to the list.

`CheckFinish` is a loop in a loop, which the modules write as a fold of a fold. The
prover has no induction over sequences, so `FoldSteps` reads a fold as the sequence
of its intermediate values, and an invariant of the steps holds of the last value
because a first value without it has none (`FoldWithin`). So `FinishRangeCovered`
says that what the search finds is in the list, for every list, and
`FinishRangeWhole` that it finds the whole content. For the second the separation of
the ranges is needed: a separated list of a whole run has one range. `BiggestRange`
is the same for what a handshake announces.

For the refinement, `Store` is the step `SetDataHave`, `Request` is the end of
`GetRequestScan`, `Release` is `ReleaseRequested`; all other steps stutter.

The assumptions are those of `Binmap.tla` (`NumChunksAssumption`,
`SizeAssumption`, `ThreadAssumption`, `PaddedEndAssumption`,
`PeerListsAssumption`), and TLC evaluates them in the run `binmap`.

### Download

`DownloadProofs.tla` proves for any set of channels, any ranges of their peers, any
limit of retries and any bounds on faults:

| theorem | states |
|---|---|
| `DownloadTypeCorrect` | `Spec => []TypeOK` |
| `RequestsNeverForgotten` | where data is only spoilt, every recorded request has its answer on the way |
| `NeverFetchedTwice` | unless a `DATA` is duplicated, no two channels fetch one chunk, but for the two windows |
| `LastChunkAlwaysRight` | the map learns the right last chunk, unless a check that began without `ChunkRange` overwrites it |
| `FinishedAlwaysHasAll` | what has finished has every chunk |
| `QuietAlwaysFinished` | with no fault, a download does not come to rest before it has finished, if one peer has the content and the others lack at most its first chunk |

The code releases `LastRequestedIndex`, not the chunk of the `DATA` that failed. That
this is the same chunk is `OneRequest`: a channel has one request on its way, or
one answer, or is handling one. With it `Recorded` is inductive: what is
outstanding is recorded, and by one channel only. Three lemmas say what a step can
do to the requests, and each action is one of them: it keeps them
(`KeptFetching`), deals with an answer (`SettledFetching`), or asks
(`AskedFetching`). `LastFound` follows `ChunkRange` through the two checks;
`Heard` says that only good data of the content gets past the first. `MapExact`
is needed for the types: that `CP` is a chunk is `SetHaveOne` again. Assumed:
`NumChunksAssumption`, `PeerRangeAssumption`, `RetryAssumption`,
`FaultsAssumption`, and `PowersAssumption`, the arithmetic facts about powers of
two (they are at least 2 but for the first, and reach the number of chunks) for which
the prover has no rules.

`FinishedAlwaysHasAll` rests on `FinishRangeCovered` and on what `LastChunk` can be: a
range that reaches the last chunk or the end of the padded tree is the content.

`QuietAlwaysFinished` is an argument about progress in the shape of an invariant,
`RestInv`: a channel never fails a check and waits only for what is on its way
(`NoSetback`); before the first chunk is stored every channel is at the first chunk
of its peer (`FirstChunks`); then someone is about to ask for the last chunk, or has
asked, until the content size is known, and someone is about to tell the map
(`LastComes`); then someone goes on until all that its peer has is stored or recorded
as requested (`RestComes`). Each of these hands over to the next, so that when nobody
is left at work there is nothing left to do. `Forward` is the steps that a download
without faults has.

The hypothesis, `Overlapping`, was found by the attempt to prove it without: the
property is false for peers that have less in common. With six chunks and peers that
have 0..5, 1..5 and 3..5, two channels may look for their next chunk after `CP` and
the content size are known, and before the third has told the map the last chunk:
`GetRequestData` then looks from `CP + 1` to -1, finds nothing, and `SendNextRequest`
stops the channel for good (`PPClient.cpp:640`). The third channel's peer does not
have chunk 2, and the download rests although two live peers have it. A tracker
list of peers that are themselves downloading gives such a set of peers.

### Server

`ServerProofs.tla` proves for any set of clients, any queue, any number of
datagrams and any `KeepAliveInterval`:

| theorem | states |
|---|---|
| `ServerTypeCorrect` | `Spec => []TypeOK` |
| `NumbersNeverReused` | no two clients have one channel number |
| `ListNeverDangles` | no client on the list is deleted |
| `HandlersOutlived` | no receive thread is at work in a deleted client |
| `QueueLeftAfterOwnStop` | a channel that stopped itself handles nothing more |

None is inductive alone. `Stop` tests and sets `IsStop` without a lock, so two
threads may each be on the way to deleting one client; that the second does no
harm rests on who can still be where. `IInv` therefore adds `Started` (the threads
of a client start together, before anything stops it), `Deleted` (only a stopped
client is waited for, being deleted or deleted, and one being deleted is off the
list; a deleted one has ended its receive thread) and `StoppedOnce` (each of the
two threads stops a client once, which bounds the deletions to come), and for the
numbers `Numbered`: `NextChannelID` is one more than the number of clients made.
Assumed: `ClientsAssumption` (the clients are finitely many) and
`BoundsAssumption`.

### Channel

`ChannelProofs.tla` proves for any set of nodes, any configurations, any number of
channels and any bounds on faults:

| theorem | states |
|---|---|
| `ChannelTypeCorrect` | `Spec => []TypeOK` |
| `AlwaysReciprocal` | the end that opened a channel sends to the end made for it, which sends back to it; without duplicates both directions agree |
| `ParametersAlwaysAgree` | two ends that know each other have the same parameters |
| `ShortNamesAccepted` | nodes with equal, supported parameters and one swarm accept each other, if every name is a lower-case SHA-1 (finding 6 shows that this is needed) |

What an end knows came to it in a datagram, so the invariant speaks of both.
`Known` and `Paired` say of an end what `Reciprocal` needs; `Sound` says of each
datagram in flight which end it came from, what that end has become, and that its
options are its sender's; `Single` says that, without duplicates, a `HANDSHAKE`
in flight has not been answered and an end has one answer at most. A step then
keeps the invariant by a few facts: `QuietStep` (ends fade, datagrams get lost),
`AcceptStep` (a new end is made for a `HANDSHAKE`), `LearnStep` (an end that opened
learns its answer), and `Outcomes`, which sorts what a handler may leave into these.
`AcceptedAgree` and `EqualNotRefused` are about `HandShake`'s operators alone: what
two nodes that accept each other have in common, and what equal nodes read.
Assumed: `ConnectionsAssumption`, `ConfigurationsAssumption`, `BoundsAssumption`.

### HashTree

`HashTreeProofs.tla` proves for any content with at least two chunks, any set of
swarms and any number of hashes and data that are lost, spoilt or late:

| theorem | states |
|---|---|
| `TypesHold` | `Spec => []TypeOK` |
| `GenuineHolds` | every `DATA` that passes its check, a node's first or a later one, is of the content, so a node stores only such chunks, and its tree and its peak hashes hold only hashes of the content's tree |
| `ServableHolds` | the tree has every hash that a stored chunk is served with |
| `NeverShortHolds` | no node takes a part of the content for the whole |

and, for contents of other than 2^k+1 chunks (`PeaksCheckable`: for those
`CheckPeakHash` rejects genuine hashes, finding 3), while nothing is lost, spoilt or
late:

| theorem | states |
|---|---|
| `LastChunkHolds` | the check of the peak hashes finds the last chunk of the content, also at a node served by one that is still downloading |
| `GenuinePassHolds` | genuine data is not rejected |
| `MutexHolds` | `IntegrityMapMutex` is given back, as long as `AnnouncedLeft` |

The first two properties have the hypothesis `AnnouncedLeft` in them, the last theorem
beside it: what has been announced starts in the first half of the tree.

*What a hash proves.* A digest is a term (`EncryptLR`), so two are equal only when they
were computed alike. `MerkleTreeProofs` has what follows: the symbols a term is made
of (`Parts`), and that a term can be taken apart again. What is computed on a way
up has the symbols of the data and of each sibling used. The root hash has no `Bad` in
it and every chunk: a way up that comes out as the root hash used neither spoilt
data nor a spoilt hash (`WayProved`), and, as the siblings come from a
set in which every hash belongs to its node or is `Bad`, it has gone all the way to the
root (`ProvesRoot`): a node below the root lacks chunks.
`FirstDataProved`, `DataProved` and `PeakProved` say so for the three checks, which
differ in where they start, where they stop and which siblings they leave out.

*The last chunk.* A first check that reached the root ends at the last leaf. A check of
the peak hashes that reached the root used only siblings up to the end of the
node it started from (`SiblingBefore`, `StartNode`), and they hold all chunks together,
so no chunk lies behind that end.

*The invariant*, `IInv`, is what makes this inductive: what is on the way or in a
channel's map belongs to the content's tree or is a spoilt hash of one of its nodes, one
for each index in a channel's map (`HashesKnown`); what has passed the first check is
of the content and already servable (`Carried`); each tree has what serves the stored
chunks, and `ChunkRange` is not short of the last chunk (`Stored`). Nothing is said of
`LeafNodeCount`: a way up proves itself wherever it was told to stop.
TLC has checked it on the instance of the run `hashtree`.

*While nothing is lost*, the opposite is to be shown: that each check has what it
needs. `GetDataIntegrity` sends a hash once per channel and gives up at the first
sibling its tree does not have, which for a node that has downloaded its tree is the
first one of padding. `JInv` follows the hashes. `Keeps`: what was recorded as sent is
on its way, in the channel's map or in the receiving tree, and none of it is of padding;
a check only moves it from the map to the tree. `Covers`: what was sent for the chunk
under way reaches up to the first sibling of padding; the ones above are padding or
peaks (`AbovePadding`), and those are in the tree since the check of the peaks (`Knows`).
Before that check the first chunk is the only one under way, and `Opens` says exactly
what is in its channel's map: the hashes above the chunk and the peak hashes, after
its check the peak hashes alone. `FirstWay`, `DataWay` and `PeakWay` then compute the
three checks on such maps: they reach the root. `Served` is why a node that is
downloading sends the same as a seeder: it announces nothing before it knows the
end of the content. TLC has checked `JInv` with 2 and 4 chunks to the end, and with 6 and
7 for as long as it was given.

*What the proof changed.* `LastChunkFound` and `GenuinePasses` did not have
`AnnouncedLeft`, and are false without it. The disjointness `Opens` needs is that no
sibling above the first chunk is itself a peak, which holds of chunks in the first half
of the tree only (`LeftClear`). With 7 chunks and a node that three seeders have given 0,
2 and 4 to 6, TLC shows the rest: the node announces 4 to 6, its longest range. The
one it serves starts with chunk 4; the peak hash of 0 to 3 is a sibling above that, and
the check moves it to the tree (`HashTree.cpp:659-676`). `CheckPeakHash` looks for it in
the map only (`:935`), rejects the chunk and drops the hash it started from. When that has
happened twice the map is empty, which counts as a full tree (`:838`), and `ChunkRange`
stays 7 where the last chunk is 6. A node that only ever downloads from the first chunk
up announces ranges that start at 0, and a seeder always does.

Hashes are computed by recursion over the levels (`HashUp`, `MakeHash`). These are
recursive functions over an interval, and facts about all levels are
proved without the induction theorems: the least level at which the fact fails would
be above one at which it holds. Assumed: `NumChunksAssumption`, `SwarmsAssumption`,
`FaultsAssumption` and `PowersAssumption`.

### HashTreeCalls

`HashTreeCallsProofs.tla`, with the arithmetic of the tree in
`MerkleTreeProofs.tla`, proves for any set of threads, any number of retries and any
content with at least two chunks (`Deadlocks`, `Losses` and `Served` for those whose
peak hashes `CheckPeakHash` can check; `PeaksOfTree` and `Halves` are in
`MerkleTreeProofs`):

| theorem | states |
|---|---|
| `Types` | `Spec => []TypeOK`: no way up leaves the tree, whatever `LeafNodeCount` is at the time |
| `Deadlocks` | no threads wait for each other in a circle, nor for one that has left its call |
| `Losses` | a hash that was sent is in the inbox, in `IntegrityMap`, in hand or in the tree |
| `Served` | what is served with a chunk proves it, also from a tree that others still fill, if the peak hashes are those of the content |
| `PeaksOfTree` | `GetPeakHashes` collects the peaks of the content |
| `CheckFromPeak` | a check of the peak hashes that starts from a peak passes and uses all of them |
| `Halves` | two siblings are the halves of the node above them |

*The hypothesis* `PeaksCheckable` says that the content is not one chunk more than a
power of two. For those `CheckPeakHash` leaves `IntegrityMapMutex` locked (finding 3),
and TLC finds `NoDeadlock` and `NothingLost` violated at 3 and at 5 chunks. It finds
`ServedIsEnough` to hold there as well: `Served` has the hypothesis because it is
proved from the same invariant.

*The tree.* `NodeOf`, `SiblingOf` and `Depth` divide by powers of two, for which the
prover has no rules; `PowersAssumption` states the two facts used, that `2^0` is 1 and
that a power is twice the one before. From them `Halves`, `Nested` and `AboveSame`
give the geometry: nodes are nested or apart, and two chunks
under one node have one way up from there. `PeakShape` describes a peak by its
level, `PeakEnds` puts peaks in order. `CheckFromPeak` then
follows `CheckPeakHash` from the last peak: what lies to the left on its way up is a
peak, what lies to the right is padding, and `PeakLeafCount` takes it to the root, no
further. `CheckFromSibling` is about a check that starts from a hash of the first
chunk's way up instead, which happens when that hash stayed in the map: with all
it takes, it comes out at the root as well and gives the mutex back.

*The invariant.* `BaseInv` has the types, what each thread can be doing (`Role`),
what is known where (`Started`) and the seeder's full tree. On top of it `IInv` has
for each thread: which mutex it holds where (`Holder`, which gives `NoDeadlock`:
`CheckPeakHash` takes the tree's mutex before that of the peaks and `GetPeakHashes`
the other way round, but only a seeder does the second, and it does not download); where it has hashes in hand (`InHand`); that the tree has the
hashes that prove the chunk that has passed (`Proven`, and `StoredProven` for the
stored ones); that until a check of the peaks has been successful each channel is
at its first chunk with the peaks in its map (`AtFirst`); that the map of the peaks
is made of all of them or has a wrong one (`PeakMap`, `Peaks`); what was sent
(`SentRight`); and `Lossless`. `AtFirst` is what the peaks need and `NothingLost` does
not say: that a check starts with all of them.

*What the proof changed.* `ServedIsEnough` did not have the part about the peak
hashes. It cannot be proved, and with four downloading threads and one retry TLC finds
why: a thread that looks into `IntegrityMap` while others insert may
not see its own entry; what the check has not found stays in its map, a later
`CheckPeakHash` starts from it, and the map of the peaks gets a node that is none. The
property now says what is left: with right peak hashes, what is served is enough.

### Model-checked only

Liveness (`StoppedIsDeleted`, `JoinedOrClosed`) is out of the prover's reach, as
is what the runs with a violation show. All other properties of the passing runs are
theorems.

## 5. Findings

1. **A finished file is destroyed by a late chunk** (`Binmap.cpp:382`, run
   `download_late`). `CheckFinish` closes the file, and `SetData` opens a closed
   file with `"w+b"`. Another channel can still deliver: while the list of ranges
   is empty `IsHaveData` does not look at `RequestedMap`, and the last chunk is
   requested without a record of it, so chunks are fetched twice.
2. **A lost datagram stalls a channel** (`PPClient.cpp:649`, `download_lost`).
   `ppsp.conf` describes retries "after failure of receiving data"; they exist
   only for data that arrives and fails its check.
3. **Genuine peak hashes are rejected** for contents of 2^k+1 chunks
   (`HashTree.cpp:912`, `hashtree_peaks`), with `IntegrityMapMutex` left locked. For
   other contents they are when the first chunk of a channel lies in the second half of
   the tree (section 4, `HashTree`).
4. **Retries after a lost `INTEGRITY` never succeed** (`HashTree.cpp:454`,
   `hashtree_retry`): a hash is recorded as sent and not sent again.
5. **A channel that handles a `PEX_REQ` while it is stopped blocks the node**
   (`PPServer.cpp:137`, `server_pex`): its deletion holds `PPClientMutex` and
   joins the thread that waits for it.
6. **With SHA-256 a seeder refuses its own content's name** (`Common/Util.cpp:253`,
   `channel_sha256`): `GetHashFromString` converts 20 bytes of a hash whatever its
   length, so the names compared are not the ones configured.

## 6. Not modelled

- Encodings of the messages but `HANDSHAKE` (`PP/`), the digests (`SHA/`), options
  and logging: sequential code without state of its own.
- `CANCEL`, `CHOKE`, `UNCHOKE`: the dispatcher of `HandleMessage` hands none of
  them on but the `CHOKE` inside a handshake, and `CANCEL` is never sent.
- What the `PEX_REQ` thread sends: a peer's answer to it comes like any datagram
  (`ReceivePEXRes` of `Server`).
- Contents of a single chunk: `Make` reads a `RootNode` it never set
  (`HashTree.cpp:359`).
- The rounding of `pow` and `log2` (`HashTree.cpp:926`), which depends on the
  library.
- What freed memory holds after a client was deleted (`PPClient.cpp:215`).
- The loop of `PPServer::Start` against the first datagrams (`PPServer.cpp:121`):
  whether a datagram comes within it depends on peers that know the port before
  the node has told anyone.
- `PPServer::Stop`: `main` calls it after `Join`, which waits for a thread that does
  not end.

## 7. Plan

Written in this order, the map first because every channel depends on it:
`ChunkRanges`, `ChunkStore`, `Binmap`, `BinmapProofs`, `Download`, `MerkleTree`,
`HashTree`, `Server`, `HandShake`, `Channel`, `HashTreeCalls`, `ServerProofs`,
`ChannelProofs`, `ChunkRangesProofs`, `DownloadProofs`, `MerkleTreeProofs`,
`HashTreeCallsProofs`, `HashTreeProofs`. What would come next:

1. *`Download` over `HashTree`*: a composition in which lost `INTEGRITY`s and peak
   hashes reach the requests of several channels.
2. *`PPServer::Start`'s loop* as steps of a main thread in `Server`.
