------------------------------- MODULE Server -------------------------------
(* The life of the channels of a node: class PPServer with its receive       *)
(* thread, and the threads each PPClient object starts: a receive thread, a  *)
(* keep-alive thread and, to be stopped, a detached thread that deletes the  *)
(* object. What the handlers do with the chunk map and the hash tree is the  *)
(* subject of Download and HashTree: here a handler may end by stopping its  *)
(* channel.                                                                  *)
EXTENDS Integers, Sequences, FiniteSets, FiniteSetsExt

CONSTANTS
    Clients,            \* the PPClient objects the node may create
    NoClient,
    KeepAliveInterval,  \* of the configuration, in ticks of the timer
    MaxQueue,           \* bound on the messages waiting in a channel
    MaxDatagrams        \* bound on the datagrams the node receives

ASSUME ClientsAssumption ==
    Clients # {} /\ NoClient \notin Clients /\ IsFiniteSet(Clients)
ASSUME BoundsAssumption ==
    /\ KeepAliveInterval \in Nat
    /\ MaxQueue \in Nat \ {0} /\ MaxDatagrams \in Nat

\* What a channel handles: a HANDSHAKE, a PEX_REQ, a message about data. A
\* KEEPALIVE is not queued.
Messages == {"handshake", "pexreq", "data"}

VARIABLES
    IsSeeder,
    PPClientList,
    PPClientMutex,      \* the client whose stop thread holds it, or NoClient
    NextChannelID,
    server,             \* the receive thread: where it is, with what client
                        \* and message
    object,             \* per client: "none", "new" or "freed"
    ChannelID,          \* per client
    IsStop,             \* per client: stopped, and MyInfo set to 0
    IsHandshaked,       \* per client
    SilentSec,          \* per client
    MessageQueue,       \* per client
    receiver, message,  \* per client: its receive thread, what it handles
    keepAlive,          \* per client: its keep-alive thread
    stops,              \* per client: stop threads that wait for the mutex
    datagrams,          \* number of datagrams received
    crashed             \* a null MyInfo was used, or a client deleted twice

listVars   == <<PPClientList, PPClientMutex>>
clientVars == <<object, ChannelID>>
threadVars == <<receiver, message, keepAlive, stops>>
vars == <<IsSeeder, listVars, NextChannelID, server, clientVars, IsStop,
          IsHandshaked, SilentSec, MessageQueue, threadVars, datagrams,
          crashed>>

Idle == [at |-> "recv", client |-> NoClient, message |-> "keepalive"]

\* PPServer::Start: a seeder starts without a channel, another node with the
\* one to its tracker.
Init ==
    /\ IsSeeder \in BOOLEAN
    /\ \E t \in Clients :
          LET first(a, b) == [c \in Clients |->
                                 IF c = t /\ ~IsSeeder THEN a ELSE b]
          IN  /\ PPClientList = IF IsSeeder THEN {} ELSE {t}
              /\ NextChannelID = IF IsSeeder THEN 1 ELSE 2
              /\ object = first("new", "none")
              /\ ChannelID = first(1, 0)
              /\ receiver = first("loop", "none")
              /\ keepAlive = first("sleep", "none")
    /\ PPClientMutex = NoClient
    /\ server = Idle
    /\ IsStop = [c \in Clients |-> FALSE]
    /\ IsHandshaked = [c \in Clients |-> FALSE]
    /\ SilentSec = [c \in Clients |-> 0]
    /\ MessageQueue = [c \in Clients |-> <<>>]
    /\ message = [c \in Clients |-> "none"]
    /\ stops = [c \in Clients |-> 0]
    /\ datagrams = 0 /\ crashed = FALSE

-----------------------------------------------------------------------------
(* The receive thread of the server *)

\* A datagram arrives while the server waits for one.
Arrives ==
    /\ server.at = "recv" /\ datagrams < MaxDatagrams
    /\ datagrams' = datagrams + 1

\* Mutant of ReceiveNew: the number of the channel is not used up.
ReceiveNewSameID(c, msg) ==
    /\ Arrives
    /\ object[c] = "none"
    /\ object' = [object EXCEPT ![c] = "new"]
    /\ ChannelID' = [ChannelID EXCEPT ![c] = NextChannelID]
    /\ PPClientMutex = NoClient
    /\ PPClientList' = PPClientList \cup {c}
    /\ server' = [at |-> "give", client |-> c, message |-> msg]
    /\ UNCHANGED <<IsSeeder, PPClientMutex, NextChannelID, IsStop,
                   IsHandshaked, SilentSec, MessageQueue, threadVars, crashed>>

\* A datagram for channel 0 makes a new client: a HANDSHAKE of a new peer, or
\* a KEEPALIVE of one that does not know its channel yet. No other thread sees
\* the client before AddPeer(client) has put it on the list.
ReceiveNew(c, msg) ==
    /\ Arrives
    /\ object[c] = "none"
    /\ object' = [object EXCEPT ![c] = "new"]
    /\ ChannelID' = [ChannelID EXCEPT ![c] = NextChannelID]
    /\ NextChannelID' = NextChannelID + 1
    /\ PPClientMutex = NoClient
    /\ PPClientList' = PPClientList \cup {c}
    /\ server' = [at |-> "give", client |-> c, message |-> msg]
    /\ UNCHANGED <<IsSeeder, PPClientMutex, IsStop, IsHandshaked, SilentSec,
                   MessageQueue, threadVars, crashed>>

\* GetPeer finds the client of the channel, under the mutex; what follows uses
\* it without.
GetPeer(c, msg) ==
    /\ Arrives
    /\ PPClientMutex = NoClient /\ c \in PPClientList
    /\ server' = [at |-> "give", client |-> c, message |-> msg]
    /\ UNCHANGED <<IsSeeder, listVars, NextChannelID, clientVars, IsStop,
                   IsHandshaked, SilentSec, MessageQueue, threadVars, crashed>>

\* PPClient::Start: the two threads of the client.
Start(c) ==
    /\ receiver' = [receiver EXCEPT ![c] = "loop"]
    /\ keepAlive' = [keepAlive EXCEPT ![c] = "sleep"]

\* SilentSec starts again, unless the keep-alive thread is about to count it up
\* and overwrites the 0: nothing orders the two.
Heard(c) ==
    \E sec \in {0} \cup IF keepAlive[c] = "check" THEN {SilentSec[c]} ELSE {} :
        SilentSec' = [SilentSec EXCEPT ![c] = sec]

\* SetMessage, or ReceiveKeepAlive, of the client. A stopped channel takes no
\* message; the first one starts the threads of an inbound channel. The client
\* may have been deleted since GetPeer: its memory still says IsStop.
SetMessage ==
    LET c == server.client IN
    /\ server.at = "give"
    /\ server' = Idle
    /\ \/ /\ server.message = "keepalive"
          /\ Heard(c)
          /\ UNCHANGED <<MessageQueue, receiver, keepAlive>>
       \/ /\ server.message # "keepalive" /\ IsStop[c]
          /\ UNCHANGED <<SilentSec, MessageQueue, receiver, keepAlive>>
       \/ /\ server.message # "keepalive" /\ ~IsStop[c]
          /\ Len(MessageQueue[c]) < MaxQueue
          /\ MessageQueue' = [MessageQueue EXCEPT ![c] =
                                 Append(@, server.message)]
          /\ Heard(c)
          /\ IF receiver[c] = "none"
             THEN Start(c)
             ELSE UNCHANGED <<receiver, keepAlive>>
    /\ UNCHANGED <<IsSeeder, listVars, NextChannelID, clientVars, IsStop,
                   IsHandshaked, message, stops, datagrams, crashed>>

\* A PEX_RES, which a seeder never asks for, tells of a peer. AddPeer(ip, port)
\* makes a client for it, lists it and starts it with a new channel, unless
\* GetPeer(ip, port) finds one: which addresses the channels have is left open.
ReceivePEXRes(c) ==
    /\ Arrives
    /\ ~IsSeeder
    /\ PPClientMutex = NoClient /\ PPClientList # {}
    /\ object[c] = "none"
    /\ object' = [object EXCEPT ![c] = "new"]
    /\ PPClientList' = PPClientList \cup {c}
    /\ ChannelID' = [ChannelID EXCEPT ![c] = NextChannelID]
    /\ NextChannelID' = NextChannelID + 1
    /\ Start(c)
    /\ UNCHANGED <<IsSeeder, PPClientMutex, server, IsStop, IsHandshaked,
                   SilentSec, MessageQueue, message, stops, crashed>>

-----------------------------------------------------------------------------
(* The receive thread of a client *)

\* A handler that calls Stop passes its test of IsStop; Stop does the rest.
Handled(c) == message' = [message EXCEPT ![c] = "none"]

\* Mutant of TakeMessage: the queue of a stopped channel is worked off.
TakeMessageOfAny(c) ==
    /\ receiver[c] = "loop" /\ MessageQueue[c] # <<>>
    /\ message' = [message EXCEPT ![c] = Head(MessageQueue[c])]
    /\ MessageQueue' = [MessageQueue EXCEPT ![c] = Tail(@)]
    /\ receiver' = [receiver EXCEPT ![c] = "handle"]
    /\ UNCHANGED <<IsSeeder, listVars, NextChannelID, server, clientVars,
                   IsStop, IsHandshaked, SilentSec, keepAlive, stops,
                   datagrams, crashed>>

\* HandleMessage takes a message from the queue while the channel is open ...
TakeMessage(c) ==
    /\ receiver[c] = "loop" /\ ~IsStop[c] /\ MessageQueue[c] # <<>>
    /\ message' = [message EXCEPT ![c] = Head(MessageQueue[c])]
    /\ MessageQueue' = [MessageQueue EXCEPT ![c] = Tail(@)]
    /\ receiver' = [receiver EXCEPT ![c] = "handle"]
    /\ UNCHANGED <<IsSeeder, listVars, NextChannelID, server, clientVars,
                   IsStop, IsHandshaked, SilentSec, keepAlive, stops,
                   datagrams, crashed>>

\* ... and ends when it has been stopped.
EndLoop(c) ==
    /\ receiver[c] = "loop" /\ IsStop[c]
    /\ receiver' = [receiver EXCEPT ![c] = "end"]
    /\ UNCHANGED <<IsSeeder, listVars, NextChannelID, server, clientVars,
                   IsStop, IsHandshaked, SilentSec, MessageQueue, message,
                   keepAlive, stops, datagrams, crashed>>

\* ReceiveHandShake refuses other parameters. With a HAVE, which only a seeder
\* does not get, it starts a PEX_REQ thread (see PEXReqCheck), goes on to the
\* first request and stops the channel if there is nothing to ask for.
ReceiveHandShake(c) ==
    /\ receiver[c] = "handle" /\ message[c] = "handshake"
    /\ \/ /\ IsStop[c] /\ crashed' = TRUE
          /\ UNCHANGED <<IsHandshaked, receiver>>
       \/ /\ ~IsStop[c]
          /\ receiver' = [receiver EXCEPT ![c] = "stop"]
          /\ UNCHANGED <<IsHandshaked, crashed>>
       \/ /\ ~IsStop[c]
          /\ IsHandshaked' = [IsHandshaked EXCEPT ![c] = TRUE]
          /\ \E at \in {"loop"} \cup IF IsSeeder THEN {} ELSE {"stop"} :
                receiver' = [receiver EXCEPT ![c] = at]
          /\ UNCHANGED crashed
    /\ Handled(c)
    /\ UNCHANGED <<IsSeeder, listVars, NextChannelID, server, clientVars,
                   IsStop, SilentSec, MessageQueue, keepAlive, stops,
                   datagrams>>

\* ReceiveRequest, ReceiveData and the others use MyInfo, and may stop the
\* channel: nothing left to request, too many retries.
ReceiveAboutData(c) ==
    /\ receiver[c] = "handle" /\ message[c] = "data" /\ IsHandshaked[c]
    /\ IF IsStop[c]
       THEN crashed' = TRUE /\ UNCHANGED receiver
       ELSE /\ \/ receiver' = [receiver EXCEPT ![c] = "loop"]
               \/ receiver' = [receiver EXCEPT ![c] = "stop"]
            /\ UNCHANGED crashed
    /\ Handled(c)
    /\ UNCHANGED <<IsSeeder, listVars, NextChannelID, server, clientVars,
                   IsStop, IsHandshaked, SilentSec, MessageQueue,
                   keepAlive, stops, datagrams>>

\* CheckHandshaked stops a channel that gets anything before its HANDSHAKE.
CheckHandshaked(c) ==
    /\ receiver[c] = "handle" /\ message[c] \in {"data", "pexreq"}
    /\ ~IsHandshaked[c]
    /\ receiver' = [receiver EXCEPT ![c] = IF IsStop[c] THEN "loop" ELSE "stop"]
    /\ Handled(c)
    /\ UNCHANGED <<IsSeeder, listVars, NextChannelID, server, clientVars,
                   IsStop, IsHandshaked, SilentSec, MessageQueue,
                   keepAlive, stops, datagrams, crashed>>

\* ReceivePEXReq asks the server for its list, which takes the mutex.
ReceivePEXReq(c) ==
    /\ receiver[c] = "handle" /\ message[c] = "pexreq" /\ IsHandshaked[c]
    /\ receiver' = [receiver EXCEPT ![c] = "list"]
    /\ UNCHANGED <<IsSeeder, listVars, NextChannelID, server, clientVars,
                   IsStop, IsHandshaked, SilentSec, MessageQueue, message,
                   keepAlive, stops, datagrams, crashed>>

GetPeerList(c) ==
    /\ receiver[c] = "list" /\ PPClientMutex = NoClient
    /\ receiver' = [receiver EXCEPT ![c] = "loop"]
    /\ Handled(c)
    /\ UNCHANGED <<IsSeeder, listVars, NextChannelID, server, clientVars,
                   IsStop, IsHandshaked, SilentSec, MessageQueue,
                   keepAlive, stops, datagrams, crashed>>

\* Mutant of Stop: without the callback.
StopOnly(c) ==
    /\ receiver[c] = "stop"
    /\ IsStop' = [IsStop EXCEPT ![c] = TRUE]
    /\ receiver' = [receiver EXCEPT ![c] = "loop"]
    /\ UNCHANGED <<IsSeeder, listVars, NextChannelID, server, clientVars,
                   IsHandshaked, SilentSec, MessageQueue, message, keepAlive,
                   stops, datagrams, crashed>>

\* The rest of Stop: a detached thread will delete the client.
Stop(c) ==
    /\ receiver[c] = "stop"
    /\ IsStop' = [IsStop EXCEPT ![c] = TRUE]
    /\ stops' = [stops EXCEPT ![c] = @ + 1]
    /\ receiver' = [receiver EXCEPT ![c] = "loop"]
    /\ UNCHANGED <<IsSeeder, listVars, NextChannelID, server, clientVars,
                   IsHandshaked, SilentSec, MessageQueue, message, keepAlive,
                   datagrams, crashed>>

-----------------------------------------------------------------------------
(* The detached threads. They may outlive the client: its memory still says  *)
(* that it is stopped.                                                       *)

\* KeepAliveCheck wakes up and tests IsStop and MyInfo ...
KeepAliveWake(c) ==
    /\ keepAlive[c] = "sleep"
    /\ keepAlive' = [keepAlive EXCEPT ![c] =
                        IF IsStop[c] THEN "end" ELSE "check"]
    /\ UNCHANGED <<IsSeeder, listVars, NextChannelID, server, clientVars,
                   IsStop, IsHandshaked, SilentSec, MessageQueue, receiver,
                   message, stops, datagrams, crashed>>

\* Mutant of KeepAliveCheck: a silent peer is not noticed.
KeepAliveCheckCounts(c) ==
    /\ keepAlive[c] = "check"
    /\ IF IsStop[c]
       THEN crashed' = TRUE /\ UNCHANGED <<SilentSec, keepAlive>>
       ELSE /\ SilentSec' = [SilentSec EXCEPT ![c] = @ + 1]
            /\ keepAlive' = [keepAlive EXCEPT ![c] = "sleep"]
            /\ UNCHANGED crashed
    /\ UNCHANGED <<IsSeeder, listVars, NextChannelID, server, clientVars,
                   IsStop, IsHandshaked, MessageQueue, receiver, message,
                   stops, datagrams>>

\* ... before it uses MyInfo: a peer silent for longer than the interval is
\* given up.
KeepAliveCheck(c) ==
    /\ keepAlive[c] = "check"
    /\ IF IsStop[c]
       THEN crashed' = TRUE /\ UNCHANGED <<SilentSec, keepAlive>>
       ELSE /\ IF SilentSec[c] > KeepAliveInterval
               THEN /\ keepAlive' = [keepAlive EXCEPT ![c] = "stop"]
                    /\ UNCHANGED SilentSec
               ELSE /\ SilentSec' = [SilentSec EXCEPT ![c] = @ + 1]
                    /\ keepAlive' = [keepAlive EXCEPT ![c] = "sleep"]
            /\ UNCHANGED crashed
    /\ UNCHANGED <<IsSeeder, listVars, NextChannelID, server, clientVars,
                   IsStop, IsHandshaked, MessageQueue, receiver, message,
                   stops, datagrams>>

\* The rest of Stop, called by KeepAliveCheck.
KeepAliveStop(c) ==
    /\ keepAlive[c] = "stop"
    /\ IsStop' = [IsStop EXCEPT ![c] = TRUE]
    /\ stops' = [stops EXCEPT ![c] = @ + 1]
    /\ keepAlive' = [keepAlive EXCEPT ![c] = "stopped"]
    /\ UNCHANGED <<IsSeeder, listVars, NextChannelID, server, clientVars,
                   IsHandshaked, SilentSec, MessageQueue, receiver, message,
                   datagrams, crashed>>

\* PEXReqCheck, in a thread that ReceiveHandShake has started, tests IsStop and
\* MyInfo, too, before it uses MyInfo: it may have done so before Stop. It sends
\* PEX_REQs and changes nothing of the node. (Whether the HANDSHAKE came with a
\* HAVE is not kept: the thread may be taken for one that was never started.)
PEXReqCheck(c) ==
    /\ ~IsSeeder /\ IsHandshaked[c] /\ IsStop[c]
    /\ crashed' = TRUE
    /\ UNCHANGED <<IsSeeder, listVars, NextChannelID, server, clientVars,
                   IsStop, IsHandshaked, SilentSec, MessageQueue, threadVars,
                   datagrams>>

\* Mutant of ClientStop: the client stays on the list.
ClientStopListed(c) ==
    /\ stops[c] > 0 /\ PPClientMutex = NoClient
    /\ PPClientMutex' = c
    /\ stops' = [stops EXCEPT ![c] = @ - 1]
    /\ UNCHANGED <<IsSeeder, PPClientList, NextChannelID, server, clientVars,
                   IsStop, IsHandshaked, SilentSec, MessageQueue, receiver,
                   message, keepAlive, datagrams, crashed>>

\* ClientStop takes the mutex and the client off the list ...
ClientStop(c) ==
    /\ stops[c] > 0 /\ PPClientMutex = NoClient
    /\ PPClientMutex' = c
    /\ PPClientList' = PPClientList \ {c}
    /\ stops' = [stops EXCEPT ![c] = @ - 1]
    /\ UNCHANGED <<IsSeeder, NextChannelID, server, clientVars, IsStop,
                   IsHandshaked, SilentSec, MessageQueue, receiver, message,
                   keepAlive, datagrams, crashed>>

\* Mutant of Delete: does not join the receive thread.
DeleteAtOnce(c) ==
    /\ PPClientMutex = c
    /\ object' = [object EXCEPT ![c] = "freed"]
    /\ crashed' \in {crashed, object[c] = "freed"}
    /\ MessageQueue' = [MessageQueue EXCEPT ![c] = <<>>]
    /\ PPClientMutex' = NoClient
    /\ UNCHANGED <<IsSeeder, PPClientList, NextChannelID, server, ChannelID,
                   IsStop, IsHandshaked, SilentSec, threadVars, datagrams>>

\* ... and deletes it, with the mutex, once its receive thread has ended. A
\* client that two threads have stopped at once is deleted twice.
Delete(c) ==
    /\ PPClientMutex = c
    /\ receiver[c] = "end"
    /\ object' = [object EXCEPT ![c] = "freed"]
    /\ crashed' \in {crashed, object[c] = "freed"}
    /\ MessageQueue' = [MessageQueue EXCEPT ![c] = <<>>]
    /\ PPClientMutex' = NoClient
    /\ UNCHANGED <<IsSeeder, PPClientList, NextChannelID, server, ChannelID,
                   IsStop, IsHandshaked, SilentSec, threadVars, datagrams>>

-----------------------------------------------------------------------------
Receive(c) ==
    \/ TakeMessage(c) \/ EndLoop(c)
    \/ ReceiveHandShake(c) \/ ReceiveAboutData(c) \/ CheckHandshaked(c)
    \/ ReceivePEXReq(c) \/ GetPeerList(c) \/ Stop(c)

KeepAlive(c) == KeepAliveWake(c) \/ KeepAliveCheck(c) \/ KeepAliveStop(c)

StopThread(c) == ClientStop(c) \/ Delete(c)

Next ==
    /\ ~crashed
    /\ \/ SetMessage
       \/ \E c \in Clients :
             \/ \E msg \in {"handshake", "keepalive"} : ReceiveNew(c, msg)
             \/ \E msg \in Messages \cup {"keepalive"} : GetPeer(c, msg)
             \/ ReceivePEXRes(c)
             \/ Receive(c)
             \/ KeepAlive(c)
             \/ PEXReqCheck(c)
             \/ StopThread(c)

\* Every thread that can go on does. A mutex that is free again and again need
\* not come to a given thread, but the datagrams are bounded. PEXReqCheck need
\* not meet the moment that crashes the node.
Fairness ==
    /\ WF_vars(~crashed /\ SetMessage)
    /\ \A c \in Clients :
          /\ WF_vars(~crashed /\ Receive(c))
          /\ WF_vars(~crashed /\ KeepAlive(c))
          /\ WF_vars(~crashed /\ StopThread(c))

Spec == Init /\ [][Next]_vars

FairSpec == Spec /\ Fairness

-----------------------------------------------------------------------------
(* Properties *)

\* Types of the server and its clients.
TypeOK ==
    /\ IsSeeder \in BOOLEAN
    /\ PPClientList \subseteq Clients
    /\ PPClientMutex \in Clients \cup {NoClient}
    /\ NextChannelID \in 1..(Cardinality(Clients) + 1)
    /\ server \in [at : {"recv", "give"},
                   client : Clients \cup {NoClient},
                   message : Messages \cup {"keepalive"}]
    /\ object \in [Clients -> {"none", "new", "freed"}]
    /\ ChannelID \in [Clients -> 0..Cardinality(Clients)]
    /\ IsStop \in [Clients -> BOOLEAN]
    /\ IsHandshaked \in [Clients -> BOOLEAN]
    /\ SilentSec \in [Clients -> 0..(KeepAliveInterval + 1)]
    /\ MessageQueue \in [Clients -> Seq(Messages)]
    /\ \A c \in Clients : Len(MessageQueue[c]) <= MaxQueue
    /\ receiver \in [Clients -> {"none", "loop", "handle", "list", "stop", "end"}]
    /\ message \in [Clients -> Messages \cup {"none"}]
    /\ keepAlive \in [Clients -> {"none", "sleep", "check", "stop", "stopped", "end"}]
    /\ stops \in [Clients -> 0..2]
    /\ datagrams \in 0..MaxDatagrams
    /\ crashed \in BOOLEAN

\* A channel number is never used twice: a late datagram for a channel that is
\* gone does not reach another peer's.
ChannelsDistinct ==
    \A c, d \in Clients :
        ChannelID[c] = ChannelID[d] /\ ChannelID[c] # 0 => c = d

\* GetPeer and GetPeerList, which walk the list whenever they get the mutex,
\* meet no deleted client, also when two threads stopped one at once.
ListedIsAlive == \A c \in PPClientList : object[c] = "new"

\* A client is not deleted under its own receive thread, wherever in a handler
\* that was when another thread stopped the channel.
ReceiverOutlived ==
    \A c \in Clients : object[c] = "freed" => receiver[c] \in {"none", "end"}

\* A channel that has stopped itself handles no further message, though some
\* are waiting: only the keep-alive thread takes MyInfo from a handler at work.
NoneAfterOwnStop ==
    \A c \in Clients :
        IsStop[c] /\ receiver[c] \in {"handle", "list"} =>
            keepAlive[c] = "stopped"

\* The client of a stopped channel waits for the mutex that the thread deleting
\* it holds.
Deadlocked(c) == PPClientMutex = c /\ receiver[c] = "list"

\* The clients of stopped channels are deleted in the end, unless a null MyInfo
\* or this deadlock ends the node.
StoppedIsDeleted ==
    \A c \in Clients :
        IsStop[c] ~> \/ object[c] = "freed" \/ crashed
                    \/ \E d \in Clients : Deadlocked(d)

\* "Client Stop!": a channel that Stop says this of is closed in the end,
\* whatever it was stopped for: "connection will be closed."
ConnectionClosed ==
    \A c \in Clients : IsStop[c] ~> (object[c] = "freed" \/ crashed)
=============================================================================
