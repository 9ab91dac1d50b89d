------------------------------ MODULE Channel -------------------------------
(* How channels between nodes are opened, kept alive and closed: the two     *)
(* PPClient objects of a channel, one at each end, and the datagrams between *)
(* them. An end opens a channel with a HANDSHAKE to channel 0 of its peer,   *)
(* whose server makes the other end; each end learns the other's number from *)
(* its HANDSHAKE. Nothing tells an end that the other has closed. The queue  *)
(* of a client only delays messages, as the network does: a message is       *)
(* handled as it arrives. ACK, INTEGRITY and PEX messages go along with DATA *)
(* and KEEPALIVE and are not told apart from them.                           *)
EXTENDS HandShake, FiniteSets

CONSTANTS
    Nodes,
    Configurations,     \* the ways the nodes may be configured: functions from
                        \* Nodes to what they send in a HANDSHAKE
    Connections,        \* pairs <<n, p>>: n may learn the address of p
    KeepAliveInterval,  \* of the configuration, in ticks of the timer
    MaxChannels,        \* bound on the channels a node numbers
    MaxFaults           \* bounds on the faults of a behaviour: how many of each
                        \* kind, in one of these combinations

\* What may happen to a datagram, and the byte behind a HANDSHAKE looking like
\* the type of a HAVE.
Faults == {"lose", "duplicate", "overread"}

ASSUME ConnectionsAssumption ==
    Connections \subseteq {c \in Nodes \X Nodes : c[1] # c[2]}
\* A HANDSHAKE carries the chunk size as an unsigned number.
ASSUME ConfigurationsAssumption ==
    \A configured \in Configurations, n \in Nodes :
        configured[n].ChunkSize \in Nat
ASSUME BoundsAssumption ==
    /\ KeepAliveInterval \in Nat /\ MaxChannels \in Nat
    /\ \A bound \in MaxFaults : bound \in [Faults -> Nat]

\* An end is known by its node and its ChannelID.
Ends == Nodes \X (1..MaxChannels)

VARIABLES
    config,         \* per node: MyInfo
    NextChannelID,  \* per node
    end,            \* per end: its PPClient
    datagrams,      \* the datagrams in flight; equal ones count as one
    faults          \* number of faults of each kind so far

vars == <<config, NextChannelID, end, datagrams, faults>>

\* A client that is not there, and what is left of one that was stopped.
NoEnd == [at |-> "none", peer |-> "none", started |-> FALSE,
          DestChannelID |-> 0, SendHandshake |-> FALSE, IsHandshaked |-> FALSE,
          SilentSec |-> 0, sendcnt |-> 0]
Stopped(c) == [NoEnd EXCEPT !.at = "stopped", !.peer = c.peer]
Refuses(c) == [NoEnd EXCEPT !.at = "refused", !.peer = c.peer]

\* A client for a datagram from peer to channel 0: its threads start with its
\* first message, which a KEEPALIVE is not.
Inbound(peer) == [NoEnd EXCEPT !.at = "open", !.peer = peer]

Init ==
    /\ config \in Configurations
    /\ NextChannelID = [n \in Nodes |-> 1]
    /\ end = [e \in Ends |-> NoEnd]
    /\ datagrams = {}
    /\ faults = [kind \in Faults |-> 0]

\* None of these faults has happened.
Without(kinds) == \A kind \in kinds : faults[kind] = 0

\* One more fault of a kind.
Fault(kind) ==
    /\ faults' = [faults EXCEPT ![kind] = @ + 1]
    /\ \E bound \in MaxFaults : \A k \in Faults : faults'[k] <= bound[k]

-----------------------------------------------------------------------------
(* Messages. Only a HANDSHAKE tells the number of the end it comes from.     *)

\* A message of the client c, which is end e.
Message(e, c, type) ==
    [type |-> type, from |-> e[1], to |-> c.peer, dest |-> c.DestChannelID,
     source |-> 0, options |-> <<>>, have |-> FALSE]

\* Mutant of HandShakeMessage: it answers with the number of the other end.
HandShakeOfDest(e, c, have) ==
    [Message(e, c, "handshake") EXCEPT
        !.source = IF c.DestChannelID = 0 THEN e[2] ELSE c.DestChannelID,
        !.options = GetBuffer(config[e[1]]), !.have = have]

HandShakeMessage(e, c, have) ==
    [Message(e, c, "handshake") EXCEPT
        !.source = e[2], !.options = GetBuffer(config[e[1]]), !.have = have]

-----------------------------------------------------------------------------
(* What a handler leaves of the client c of end e, and what it sends *)

Outcome(c, sent) == [client |-> c, sent |-> sent]

\* SendNextRequest asks for a chunk, is finished, or stops the channel for want
\* of a chunk to ask for.
SendNextRequest(e, c) ==
    {Outcome(c, {Message(e, c, "request")}), Outcome(c, {}),
     Outcome(Stopped(c), {})}

\* SendHandShakeHave: the answer has a HAVE if the node has a chunk.
SendHandShakeHave(e, c) ==
    {Outcome(c, {HandShakeMessage(e, c, have)}) :
        have \in IF config[e[1]].IsSeeder THEN {TRUE} ELSE BOOLEAN}

\* ReceiveHandShake: overread is what it takes the byte behind a HANDSHAKE
\* without a HAVE for.
ReceiveHandShake(e, c, d, overread) ==
    LET known == [c EXCEPT !.started = TRUE, !.SilentSec = 0,
                           !.DestChannelID = d.source, !.IsHandshaked = TRUE]
    IN  CASE Refused(config[e[1]], d.options) -> {Outcome(Refuses(c), {})}
          [] ~Refused(config[e[1]], d.options) /\ (d.have \/ overread) ->
                SendNextRequest(e, known)
          [] OTHER -> IF c.SendHandshake THEN {Outcome(known, {})}
                                         ELSE SendHandShakeHave(e, known)

ReceiveKeepAlive(c) == {Outcome([c EXCEPT !.SilentSec = 0], {})}

\* ReceiveRequest: a node that is no seeder may not have the chunk.
ReceiveRequest(e, c) ==
    {Outcome([c EXCEPT !.SilentSec = 0], sent) :
        sent \in {{Message(e, c, "data")}} \cup
                 IF config[e[1]].IsSeeder THEN {} ELSE {{}}}

\* ReceiveData: the next request, or after too many retries the end.
ReceiveData(e, c) == SendNextRequest(e, [c EXCEPT !.SilentSec = 0])

\* HandleMessage. CheckHandshaked stops a channel that gets anything else
\* before its HANDSHAKE.
HandleMessage(e, c, d, overread) ==
    CASE d.type = "keepalive" -> ReceiveKeepAlive(c)
      [] d.type = "handshake" -> ReceiveHandShake(e, c, d, overread)
      [] d.type \in {"request", "data"} /\ ~c.IsHandshaked ->
            {Outcome(Stopped(c), {})}
      [] d.type = "request" /\ c.IsHandshaked -> ReceiveRequest(e, c)
      [] d.type = "data" /\ c.IsHandshaked -> ReceiveData(e, c)

-----------------------------------------------------------------------------
(* The nodes *)

\* The end of node n to open or make next.
NextEnd(n) == <<n, NextChannelID[n]>>

UseNumber(n) ==
    /\ NextChannelID[n] <= MaxChannels
    /\ NextChannelID' = [NextChannelID EXCEPT ![n] = @ + 1]

\* A node that is no seeder opens a channel to its tracker, or to a peer that a
\* PEX_RES has told of and that no client on its list is for.
Start(n, p) ==
    LET e == NextEnd(n)
        c == [Inbound(p) EXCEPT !.started = TRUE, !.SendHandshake = TRUE]
    IN  /\ <<n, p>> \in Connections /\ ~config[n].IsSeeder
        /\ \A f \in Ends : f[1] = n /\ end[f].peer = p => end[f].at # "open"
        /\ UseNumber(n)
        /\ end' = [end EXCEPT ![e] = c]
        /\ datagrams' = datagrams \cup {HandShakeMessage(e, c, FALSE)}
        /\ UNCHANGED <<config, faults>>

\* What is left in flight of ds: PPServer::Receive drops a datagram for a client
\* that is stopped, whenever it comes.
Reaching(ds) == {d \in ds : d.dest = 0 \/ end'[<<d.to, d.dest>>].at = "open"}

\* PPServer::Receive: a datagram for channel 0 makes a client. A duplicated
\* datagram stays in flight.
Receive(d) ==
    LET e == IF d.dest = 0 THEN NextEnd(d.to) ELSE <<d.to, d.dest>>
        c == IF d.dest = 0 THEN Inbound(d.from) ELSE end[e]
    IN  /\ d \in datagrams
        /\ IF d.dest = 0 THEN UseNumber(d.to) ELSE UNCHANGED NextChannelID
        /\ \E overread, duplicate \in BOOLEAN :
              /\ overread => d.type = "handshake" /\ ~d.have /\ ~duplicate
              /\ CASE overread  -> Fault("overread")
                   [] duplicate -> Fault("duplicate")
                   [] OTHER     -> UNCHANGED faults
              /\ \E out \in HandleMessage(e, c, d, overread) :
                    /\ end' = [end EXCEPT ![e] = out.client]
                    /\ datagrams' = Reaching(out.sent \cup
                          (IF duplicate THEN datagrams ELSE datagrams \ {d}))
    /\ UNCHANGED config

\* Mutant of Sends: a KEEPALIVE counts as heard by the one who sends it.
SendsHeard(c) ==
    IF 5 * c.sendcnt > 4 * KeepAliveInterval
    THEN [c EXCEPT !.sendcnt = 0, !.SilentSec = 0] ELSE c

\* Mutant of Sends: the count goes on.
SendsWithoutReset(c) == c

\* After four fifths of the interval KeepAliveCheck sends and counts again.
Sends(c) ==
    IF 5 * c.sendcnt > 4 * KeepAliveInterval
    THEN [c EXCEPT !.sendcnt = 0] ELSE c

\* KeepAliveCheck, once a tick: an end that has heard nothing for longer than
\* the interval stops; one that goes on sends a KEEPALIVE now and then, to
\* channel 0 as long as it knows no other.
KeepAliveCheck(e) ==
    LET c == end[e]
        counted == [c EXCEPT !.SilentSec = @ + 1, !.sendcnt = @ + 1]
    IN  /\ c.at = "open" /\ c.started
        /\ IF KeepAliveInterval < c.SilentSec
           THEN /\ end' = [end EXCEPT ![e] = Stopped(c)]
                /\ datagrams' = Reaching(datagrams)
           ELSE /\ end' = [end EXCEPT ![e] = Sends(counted)]
                /\ datagrams' = Reaching(datagrams \cup
                       IF Sends(counted) = counted THEN {}
                       ELSE {Message(e, c, "keepalive")})
    /\ UNCHANGED <<config, NextChannelID, faults>>

Lose(d) ==
    /\ Fault("lose")
    /\ datagrams' = datagrams \ {d}
    /\ UNCHANGED <<config, NextChannelID, end>>

Next ==
    \/ \E n, p \in Nodes : Start(n, p)
    \/ \E d \in datagrams : Receive(d) \/ Lose(d)
    \/ \E e \in Ends : KeepAliveCheck(e)

\* The keep-alive thread of an end wakes up again and again. Nothing is assumed
\* of the network: what it delivers may be as late as it likes.
Fairness == \A e \in Ends : WF_vars(KeepAliveCheck(e))

Spec == Init /\ [][Next]_vars /\ Fairness

-----------------------------------------------------------------------------
(* Properties *)

\* Types of the clients and of the datagrams.
TypeOK ==
    /\ config \in Configurations
    /\ NextChannelID \in [Nodes -> 1..(MaxChannels + 1)]
    /\ end \in [Ends -> [at : {"none", "open", "stopped", "refused"},
                         peer : Nodes \cup {"none"}, started : BOOLEAN,
                         DestChannelID : 0..MaxChannels,
                         SendHandshake : BOOLEAN, IsHandshaked : BOOLEAN,
                         SilentSec : 0..(KeepAliveInterval + 1),
                         sendcnt : 0..KeepAliveInterval]]
    /\ \A d \in datagrams :
          /\ d.type \in {"handshake", "keepalive", "request", "data"}
          /\ d.from \in Nodes /\ d.to \in Nodes
          /\ d.dest \in 0..MaxChannels /\ d.source \in 0..MaxChannels
    /\ faults \in [Faults -> Nat]

Open(e) == end[e].at = "open"

\* The end e sends to.
Other(e) == <<end[e].peer, end[e].DestChannelID>>

\* Whatever is lost, duplicated or late, the end that opened a channel and has
\* its answer sends to the end that was made for it, as long as that is open:
\* which sends back to no other. Without duplicates, which make a second end,
\* the two directions agree wherever both know the other.
Reciprocal ==
    \A e \in Ends :
        Open(e) /\ end[e].IsHandshaked /\ Open(Other(e)) =>
            /\ end[Other(e)].peer = e[1]
            /\ end[e].SendHandshake => Other(Other(e)) = e
            /\ Without({"duplicate"}) /\ end[Other(e)].IsHandshaked
               => Other(Other(e)) = e

\* Two nodes that go on to exchange data agree on how they hash, address and
\* cut the content.
ParametersAgree ==
    \A e \in Ends :
        /\ Open(e) /\ end[e].IsHandshaked
        /\ Open(Other(e)) /\ end[Other(e)].IsHandshaked
        => \A p \in Parameters : config[e[1]][p] = config[end[e].peer][p]

\* "SHA1", "SHA256", "Merkle Hash Tree", "32BITCHUNKRANGES": two nodes with the
\* same parameters, none of them marked as not supported, that name the same
\* content accept each other's HANDSHAKE.
EqualsAccepted ==
    \A e \in Ends :
        LET mine == config[e[1]] other == config[end[e].peer] IN
        /\ end[e].at = "refused"
        /\ Supported(mine) /\ mine.SwarmID = other.SwarmID
        => \E p \in Parameters : mine[p] # other[p]

\* The end e and the one it sends to know each other.
Joined(e) == /\ Open(e) /\ end[e].IsHandshaked
             /\ Open(Other(e)) /\ Other(Other(e)) = e

\* An end that has started does not wait for ever for an answer that was lost,
\* nor stay when the other end has closed, for whatever reason, or has turned to
\* another channel: it is joined or closed in the end, though nothing tells it
\* and other channels may go on sending to it.
JoinedOrClosed ==
    \A e \in Ends : Open(e) /\ end[e].started ~> Joined(e) \/ ~Open(e)
=============================================================================
