---------------------------- MODULE ServerProofs ----------------------------
(* Proofs about Server, for every set of clients, every bound and every      *)
(* order of the threads' steps. That a stopped client is deleted in the end  *)
(* is liveness: StoppedIsDeleted stays with TLC.                             *)
EXTENDS Server, TLAPS, FiniteSetTheorems, SequenceTheorems

-----------------------------------------------------------------------------
(* The inductive invariant *)

\* The clients that have been made, whatever has become of them.
Made == {c \in Clients : object[c] # "none"}

\* NextChannelID counts the clients made, and each has a smaller number.
Numbered ==
    /\ NextChannelID = Cardinality(Made) + 1
    /\ \A c \in Clients : /\ ChannelID[c] < NextChannelID
                          /\ c \in Made => ChannelID[c] # 0

\* The server has something to give only to a client that was made.
GivesToMade == server.at = "give" => server.client \in Made

\* The threads of a client start together, and before anything stops it.
Started(c) ==
    /\ object[c] = "none" => receiver[c] = "none" /\ c \notin PPClientList
    /\ receiver[c] = "none" <=> keepAlive[c] = "none"
    /\ receiver[c] = "none" => ~IsStop[c]

\* Only a stopped client waits to be deleted, is being deleted or is deleted; one
\* that is being deleted is not on the list.
Deleted(c) ==
    /\ stops[c] > 0 \/ PPClientMutex = c \/ object[c] = "freed" => IsStop[c]
    /\ PPClientMutex = c \/ object[c] = "freed" => c \notin PPClientList
    /\ object[c] = "freed" => receiver[c] = "end"

\* Each of the two threads stops a client once: the keep-alive thread ends with
\* that, the receive thread has only its loop left to leave.
StoppedOnce(c) ==
    LET byKeepAlive == IF keepAlive[c] = "stopped" THEN 1 ELSE 0
        byReceiver == IF receiver[c] \in {"loop", "end"} THEN 1 ELSE 0
    IN  /\ stops[c] <= byKeepAlive + byReceiver
        /\ IsStop[c] => byKeepAlive + byReceiver > 0

\* The part of TypeOK about the threads of the clients.
ThreadTypes ==
    /\ object \in [Clients -> {"none", "new", "freed"}]
    /\ IsStop \in [Clients -> BOOLEAN]
    /\ receiver \in
          [Clients -> {"none", "loop", "handle", "list", "stop", "end"}]
    /\ keepAlive \in
          [Clients -> {"none", "sleep", "check", "stop", "stopped", "end"}]
    /\ stops \in [Clients -> 0..2]

IInv ==
    /\ TypeOK
    /\ Numbered
    /\ ChannelsDistinct
    /\ GivesToMade
    /\ \A c \in Clients : Started(c) /\ Deleted(c) /\ StoppedOnce(c)

-----------------------------------------------------------------------------
(* The properties follow from it *)

\* What the threads rely on is part of the invariant.
LEMMA Consequences ==
    IInv => ListedIsAlive /\ ReceiverOutlived /\ NoneAfterOwnStop
<1> SUFFICES ASSUME IInv
             PROVE  ListedIsAlive /\ ReceiverOutlived /\ NoneAfterOwnStop
  OBVIOUS
<1>1. ListedIsAlive
  <2>1. SUFFICES ASSUME NEW c \in PPClientList
                 PROVE  object[c] = "new"
    BY DEF ListedIsAlive
  <2>2. c \in Clients /\ object[c] \in {"none", "new", "freed"}
    BY DEF IInv, TypeOK
  <2> QED
    BY <2>2 DEF IInv, Started, Deleted
<1>2. ReceiverOutlived
  BY DEF IInv, Deleted, ReceiverOutlived
<1>3. NoneAfterOwnStop
  BY DEF IInv, StoppedOnce, NoneAfterOwnStop
<1> QED
  BY <1>1, <1>2, <1>3

-----------------------------------------------------------------------------
(* Lemmas for the steps *)

\* TypeOK has the types of the threads' variables.
LEMMA TypesOfThreads == TypeOK => ThreadTypes
BY DEF TypeOK, ThreadTypes

\* A step that makes no client and numbers none leaves the numbers right.
LEMMA NumberedKept ==
    ASSUME Numbered, ChannelsDistinct,
           UNCHANGED <<NextChannelID, ChannelID>>, Made' = Made
    PROVE  Numbered' /\ ChannelsDistinct'
BY DEF Numbered, ChannelsDistinct

\* Deleting a client that was made leaves it a client that was made.
LEMMA MadeKept ==
    ASSUME TypeOK, NEW c \in Made, object' = [object EXCEPT ![c] = "freed"]
    PROVE  Made' = Made
BY DEF Made, TypeOK

\* The next number is one that no client has, and there are enough.
LEMMA NumberedOneMore ==
    ASSUME IInv, NEW c \in Clients, object[c] = "none",
           object' = [object EXCEPT ![c] = "new"],
           ChannelID' = [ChannelID EXCEPT ![c] = NextChannelID],
           NextChannelID' = NextChannelID + 1
    PROVE  /\ Numbered' /\ ChannelsDistinct'
           /\ NextChannelID \in 1..Cardinality(Clients)
           /\ Made' = Made \cup {c}
<1>1. Made' = Made \cup {c}
  BY DEF IInv, TypeOK, Made
<1>2. IsFiniteSet(Made) /\ c \notin Made
  BY ClientsAssumption, FS_Subset DEF Made
<1>3. Cardinality(Made') = Cardinality(Made) + 1
  BY <1>1, <1>2, FS_AddElement
<1>4. /\ Cardinality(Made') <= Cardinality(Clients)
      /\ Cardinality(Made) \in Nat /\ Cardinality(Clients) \in Nat
  <2>1. Made' \in SUBSET Clients
    BY DEF Made
  <2> QED
    BY <1>2, <2>1, ClientsAssumption, FS_Subset, FS_CardinalityType
<1>5. NextChannelID \in 1..Cardinality(Clients)
  BY <1>3, <1>4 DEF IInv, Numbered
<1>6. Numbered'
  <2>1. NextChannelID' = Cardinality(Made') + 1
    BY <1>3, <1>4 DEF IInv, Numbered
  <2>2. ASSUME NEW d \in Clients
        PROVE  /\ ChannelID'[d] < NextChannelID'
               /\ d \in Made' => ChannelID'[d] # 0
    <3>1. ChannelID[d] \in Int /\ ChannelID[d] < NextChannelID
      BY DEF IInv, TypeOK, Numbered
    <3>2. ChannelID'[d] = IF d = c THEN NextChannelID ELSE ChannelID[d]
      BY DEF IInv, TypeOK
    <3>3. d # c /\ d \in Made' => ChannelID[d] # 0
      BY <1>1 DEF IInv, Numbered
    <3> QED
      BY <1>5, <3>1, <3>2, <3>3
  <2> QED
    BY <2>1, <2>2 DEF Numbered
<1>7. ChannelsDistinct'
  <2>1. SUFFICES ASSUME NEW d \in Clients, NEW e \in Clients,
                        ChannelID'[d] = ChannelID'[e], ChannelID'[d] # 0
                 PROVE  d = e
    BY DEF ChannelsDistinct
  <2>2. /\ ChannelID[d] \in Int /\ ChannelID[d] < NextChannelID
        /\ ChannelID[e] \in Int /\ ChannelID[e] < NextChannelID
    BY DEF IInv, TypeOK, Numbered
  <2>3. /\ ChannelID'[d] = IF d = c THEN NextChannelID ELSE ChannelID[d]
        /\ ChannelID'[e] = IF e = c THEN NextChannelID ELSE ChannelID[e]
    BY DEF IInv, TypeOK
  <2> QED
    BY <1>5, <2>1, <2>2, <2>3 DEF IInv, ChannelsDistinct
<1> QED
  BY <1>1, <1>5, <1>6, <1>7

-----------------------------------------------------------------------------
(* Initial states and steps of each thread                                   *)

\* A seeder has no client, another node the one to its tracker.
LEMMA InitInv == Init => IInv
<1> SUFFICES ASSUME Init
             PROVE  IInv
  OBVIOUS
<1>1. PICK t \in Clients :
          LET first(a, b) == [c \in Clients |->
                                 IF c = t /\ ~IsSeeder THEN a ELSE b]
          IN  /\ PPClientList = IF IsSeeder THEN {} ELSE {t}
              /\ NextChannelID = IF IsSeeder THEN 1 ELSE 2
              /\ object = first("new", "none")
              /\ ChannelID = first(1, 0)
              /\ receiver = first("loop", "none")
              /\ keepAlive = first("sleep", "none")
  BY DEF Init
<1>2. Made = IF IsSeeder THEN {} ELSE {t}
  BY <1>1 DEF Made
<1>3. Cardinality(Made) = IF IsSeeder THEN 0 ELSE 1
  BY <1>2, FS_EmptySet, FS_Singleton
<1>4. Cardinality(Clients) \in Nat \ {0}
  BY ClientsAssumption, FS_CardinalityType, FS_EmptySet
<1>5. TypeOK
  <2>1. ThreadTypes
    BY <1>1 DEF Init, ThreadTypes
  <2>2. /\ NextChannelID \in 1..(Cardinality(Clients) + 1)
        /\ ChannelID \in [Clients -> 0..Cardinality(Clients)]
        /\ PPClientList \subseteq Clients
    BY <1>1, <1>4
  <2>3. /\ MessageQueue \in [Clients -> Seq(Messages)]
        /\ \A c \in Clients : Len(MessageQueue[c]) <= MaxQueue
    BY BoundsAssumption DEF Init
  <2>4. /\ IsSeeder \in BOOLEAN /\ PPClientMutex \in Clients \cup {NoClient}
        /\ server \in [at : {"recv", "give"}, client : Clients \cup {NoClient},
                       message : Messages \cup {"keepalive"}]
        /\ IsHandshaked \in [Clients -> BOOLEAN]
        /\ SilentSec \in [Clients -> 0..(KeepAliveInterval + 1)]
        /\ message \in [Clients -> Messages \cup {"none"}]
        /\ datagrams \in 0..MaxDatagrams /\ crashed \in BOOLEAN
    <3>1. server \in [at : {"recv", "give"}, client : Clients \cup {NoClient},
                     message : Messages \cup {"keepalive"}]
      BY DEF Init, Idle
    <3>2. /\ PPClientMutex \in Clients \cup {NoClient}
          /\ SilentSec \in [Clients -> 0..(KeepAliveInterval + 1)]
          /\ message \in [Clients -> Messages \cup {"none"}]
          /\ datagrams \in 0..MaxDatagrams
      BY BoundsAssumption DEF Init
    <3>3. /\ IsSeeder \in BOOLEAN /\ crashed \in BOOLEAN
          /\ IsHandshaked \in [Clients -> BOOLEAN]
      BY DEF Init
    <3> QED
      BY <3>1, <3>2, <3>3
  <2> QED
    BY <2>1, <2>2, <2>3, <2>4 DEF TypeOK, ThreadTypes
<1>6. Numbered /\ ChannelsDistinct
  BY <1>1, <1>2, <1>3 DEF Numbered, ChannelsDistinct
<1>7. GivesToMade
  BY DEF Init, Idle, GivesToMade
<1>8. ASSUME NEW c \in Clients
      PROVE  Started(c) /\ Deleted(c) /\ StoppedOnce(c)
  BY <1>1, ClientsAssumption DEF Init, Started, Deleted, StoppedOnce
<1> QED
  BY <1>5, <1>6, <1>7, <1>8 DEF IInv

\* GetPeer takes a client off the list, and those were made.
LEMMA GetPeerInv ==
    ASSUME IInv, NEW c \in Clients, NEW msg \in Messages \cup {"keepalive"},
           GetPeer(c, msg)
    PROVE  IInv'
<1>1. TypeOK /\ ThreadTypes
  BY TypesOfThreads DEF IInv
<1>2. ASSUME NEW d \in Clients
      PROVE  Started(d)' /\ Deleted(d)' /\ StoppedOnce(d)'
  <2>1. Started(d) /\ Deleted(d) /\ StoppedOnce(d)
    BY DEF IInv
  <2>2. Started(d)'
    BY <1>1, <2>1 DEF ThreadTypes, GetPeer, Started, Deleted, listVars,
       clientVars, threadVars
  <2>3. Deleted(d)'
    BY <1>1, <2>1, ClientsAssumption
       DEF ThreadTypes, GetPeer, Started, Deleted, listVars, clientVars,
       threadVars
  <2>4. StoppedOnce(d)'
    BY <1>1, <2>1 DEF ThreadTypes, GetPeer, Started, Deleted, StoppedOnce,
       listVars, clientVars, threadVars
  <2> QED
    BY <2>2, <2>3, <2>4
<1>3. TypeOK'
  <2>1. ThreadTypes'
    BY <1>1, <1>2 DEF IInv, ThreadTypes, GetPeer, StoppedOnce, clientVars,
       threadVars
  <2>2. server' \in [at : {"recv", "give"}, client : Clients \cup {NoClient},
                   message : Messages \cup {"keepalive"}]
    BY DEF GetPeer
  <2>3. datagrams' \in 0..MaxDatagrams
    BY <1>1, BoundsAssumption DEF GetPeer, Arrives, TypeOK
  <2> QED
    BY <1>1, <2>1, <2>2, <2>3 DEF TypeOK, ThreadTypes, GetPeer, listVars,
       clientVars, threadVars
<1>4. Numbered' /\ ChannelsDistinct'
  BY NumberedKept DEF IInv, GetPeer, Made, clientVars
<1>5. GivesToMade'
  BY DEF IInv, GivesToMade, GetPeer, Made, Started, clientVars
<1> QED
  BY <1>2, <1>3, <1>4, <1>5 DEF IInv

\* A message is taken in an open channel only, which nothing has stopped.
LEMMA TakeMessageInv ==
    ASSUME IInv, NEW c \in Clients, TakeMessage(c)
    PROVE  IInv'
<1>1. TypeOK /\ ThreadTypes
  BY TypesOfThreads DEF IInv
<1>2. ASSUME NEW d \in Clients
      PROVE  Started(d)' /\ Deleted(d)' /\ StoppedOnce(d)'
  <2>1. Started(d) /\ Deleted(d) /\ StoppedOnce(d)
    BY DEF IInv
  <2>2. Started(d)'
    BY <1>1, <2>1 DEF ThreadTypes, TakeMessage, Started, Deleted, listVars,
       clientVars
  <2>3. Deleted(d)'
    BY <1>1, <2>1, ClientsAssumption
       DEF ThreadTypes, TakeMessage, Started, Deleted, listVars, clientVars
  <2>4. StoppedOnce(d)'
    BY <1>1, <2>1 DEF ThreadTypes, TakeMessage, Started, Deleted, StoppedOnce,
       listVars, clientVars
  <2> QED
    BY <2>2, <2>3, <2>4
<1>3. TypeOK'
  <2>1. ThreadTypes'
    BY <1>1, <1>2 DEF IInv, ThreadTypes, TakeMessage, StoppedOnce, clientVars
  <2>2. /\ Head(MessageQueue[c]) \in Messages
        /\ Tail(MessageQueue[c]) \in Seq(Messages)
        /\ Len(Tail(MessageQueue[c])) = Len(MessageQueue[c]) - 1
        /\ Len(MessageQueue[c]) \in Nat
    BY <1>1, HeadTailProperties DEF TypeOK, TakeMessage
  <2>3. message' \in [Clients -> Messages \cup {"none"}]
    BY <1>1, <2>2 DEF TypeOK, TakeMessage
  <2>4. /\ MessageQueue' \in [Clients -> Seq(Messages)]
        /\ \A d \in Clients : Len(MessageQueue'[d]) <= MaxQueue
    BY <1>1, <2>2, BoundsAssumption DEF TypeOK, TakeMessage
  <2> QED
    BY <1>1, <2>1, <2>3, <2>4 DEF TypeOK, ThreadTypes, TakeMessage, listVars,
       clientVars
<1>4. Numbered' /\ ChannelsDistinct'
  BY NumberedKept DEF IInv, TakeMessage, Made, clientVars
<1>5. GivesToMade'
  BY DEF IInv, GivesToMade, TakeMessage, Made, clientVars
<1> QED
  BY <1>2, <1>3, <1>4, <1>5 DEF IInv

\* The loop ends in a stopped channel.
LEMMA EndLoopInv ==
    ASSUME IInv, NEW c \in Clients, EndLoop(c)
    PROVE  IInv'
<1>1. TypeOK /\ ThreadTypes
  BY TypesOfThreads DEF IInv
<1>2. ASSUME NEW d \in Clients
      PROVE  Started(d)' /\ Deleted(d)' /\ StoppedOnce(d)'
  <2>1. Started(d) /\ Deleted(d) /\ StoppedOnce(d)
    BY DEF IInv
  <2>2. Started(d)'
    BY <1>1, <2>1 DEF ThreadTypes, EndLoop, Started, Deleted, listVars,
       clientVars
  <2>3. Deleted(d)'
    BY <1>1, <2>1, ClientsAssumption
       DEF ThreadTypes, EndLoop, Started, Deleted, listVars, clientVars
  <2>4. StoppedOnce(d)'
    BY <1>1, <2>1 DEF ThreadTypes, EndLoop, Started, Deleted, StoppedOnce,
       listVars, clientVars
  <2> QED
    BY <2>2, <2>3, <2>4
<1>3. TypeOK'
  <2>1. ThreadTypes'
    BY <1>1, <1>2 DEF IInv, ThreadTypes, EndLoop, StoppedOnce, clientVars
  <2> QED
    BY <1>1, <2>1
       DEF TypeOK, ThreadTypes, EndLoop, listVars, clientVars
<1>4. Numbered' /\ ChannelsDistinct'
  BY NumberedKept DEF IInv, EndLoop, Made, clientVars
<1>5. GivesToMade'
  BY DEF IInv, GivesToMade, EndLoop, Made, clientVars
<1> QED
  BY <1>2, <1>3, <1>4, <1>5 DEF IInv

\* A HANDSHAKE is refused, or leads on, in an open channel only.
LEMMA ReceiveHandShakeInv ==
    ASSUME IInv, NEW c \in Clients, ReceiveHandShake(c)
    PROVE  IInv'
<1>1. TypeOK /\ ThreadTypes
  BY TypesOfThreads DEF IInv
<1>2. ASSUME NEW d \in Clients
      PROVE  Started(d)' /\ Deleted(d)' /\ StoppedOnce(d)'
  <2>1. Started(d) /\ Deleted(d) /\ StoppedOnce(d)
    BY DEF IInv
  <2>2. Started(d)'
    BY <1>1, <2>1 DEF ThreadTypes, ReceiveHandShake, Started, Deleted,
       listVars, clientVars
  <2>3. Deleted(d)'
    BY <1>1, <2>1, ClientsAssumption
       DEF ThreadTypes, ReceiveHandShake, Started, Deleted, listVars,
       clientVars
  <2>4. StoppedOnce(d)'
    BY <1>1, <2>1 DEF ThreadTypes, ReceiveHandShake, Started, Deleted,
       StoppedOnce, listVars, clientVars
  <2> QED
    BY <2>2, <2>3, <2>4
<1>3. TypeOK'
  <2>1. ThreadTypes'
    BY <1>1, <1>2 DEF IInv, ThreadTypes, ReceiveHandShake, StoppedOnce,
       clientVars
  <2>2. message' \in [Clients -> Messages \cup {"none"}]
    BY <1>1 DEF TypeOK, ReceiveHandShake, Handled
  <2>3. IsHandshaked' \in [Clients -> BOOLEAN] /\ crashed' \in BOOLEAN
    BY <1>1 DEF TypeOK, ReceiveHandShake
  <2> QED
    BY <1>1, <2>1, <2>2, <2>3 DEF TypeOK, ThreadTypes, ReceiveHandShake,
       listVars, clientVars
<1>4. Numbered' /\ ChannelsDistinct'
  BY NumberedKept DEF IInv, ReceiveHandShake, Made, clientVars
<1>5. GivesToMade'
  BY DEF IInv, GivesToMade, ReceiveHandShake, Made, clientVars
<1> QED
  BY <1>2, <1>3, <1>4, <1>5 DEF IInv

\* A handler about data stops an open channel only.
LEMMA ReceiveAboutDataInv ==
    ASSUME IInv, NEW c \in Clients, ReceiveAboutData(c)
    PROVE  IInv'
<1>1. TypeOK /\ ThreadTypes
  BY TypesOfThreads DEF IInv
<1>2. ASSUME NEW d \in Clients
      PROVE  Started(d)' /\ Deleted(d)' /\ StoppedOnce(d)'
  <2>1. Started(d) /\ Deleted(d) /\ StoppedOnce(d)
    BY DEF IInv
  <2>2. Started(d)'
    BY <1>1, <2>1 DEF ThreadTypes, ReceiveAboutData, Started, Deleted,
       listVars, clientVars
  <2>3. Deleted(d)'
    BY <1>1, <2>1, ClientsAssumption
       DEF ThreadTypes, ReceiveAboutData, Started, Deleted, listVars,
       clientVars
  <2>4. StoppedOnce(d)'
    BY <1>1, <2>1 DEF ThreadTypes, ReceiveAboutData, Started, Deleted,
       StoppedOnce, listVars, clientVars
  <2> QED
    BY <2>2, <2>3, <2>4
<1>3. TypeOK'
  <2>1. ThreadTypes'
    BY <1>1, <1>2 DEF IInv, ThreadTypes, ReceiveAboutData, StoppedOnce,
       clientVars
  <2> QED
    BY <1>1, <2>1
       DEF TypeOK, ThreadTypes, ReceiveAboutData, listVars, clientVars, Handled
<1>4. Numbered' /\ ChannelsDistinct'
  BY NumberedKept DEF IInv, ReceiveAboutData, Made, clientVars
<1>5. GivesToMade'
  BY DEF IInv, GivesToMade, ReceiveAboutData, Made, clientVars
<1> QED
  BY <1>2, <1>3, <1>4, <1>5 DEF IInv

\* CheckHandshaked stops an open channel only.
LEMMA CheckHandshakedInv ==
    ASSUME IInv, NEW c \in Clients, CheckHandshaked(c)
    PROVE  IInv'
<1>1. TypeOK /\ ThreadTypes
  BY TypesOfThreads DEF IInv
<1>2. ASSUME NEW d \in Clients
      PROVE  Started(d)' /\ Deleted(d)' /\ StoppedOnce(d)'
  <2>1. Started(d) /\ Deleted(d) /\ StoppedOnce(d)
    BY DEF IInv
  <2>2. Started(d)'
    BY <1>1, <2>1 DEF ThreadTypes, CheckHandshaked, Started, Deleted,
       listVars, clientVars
  <2>3. Deleted(d)'
    BY <1>1, <2>1, ClientsAssumption
       DEF ThreadTypes, CheckHandshaked, Started, Deleted, listVars, clientVars
  <2>4. StoppedOnce(d)'
    BY <1>1, <2>1 DEF ThreadTypes, CheckHandshaked, Started, Deleted,
       StoppedOnce, listVars, clientVars
  <2> QED
    BY <2>2, <2>3, <2>4
<1>3. TypeOK'
  <2>1. ThreadTypes'
    BY <1>1, <1>2 DEF IInv, ThreadTypes, CheckHandshaked, StoppedOnce,
       clientVars
  <2> QED
    BY <1>1, <2>1
       DEF TypeOK, ThreadTypes, CheckHandshaked, listVars, clientVars, Handled
<1>4. Numbered' /\ ChannelsDistinct'
  BY NumberedKept DEF IInv, CheckHandshaked, Made, clientVars
<1>5. GivesToMade'
  BY DEF IInv, GivesToMade, CheckHandshaked, Made, clientVars
<1> QED
  BY <1>2, <1>3, <1>4, <1>5 DEF IInv

\* A PEX_REQ leads to the list.
LEMMA ReceivePEXReqInv ==
    ASSUME IInv, NEW c \in Clients, ReceivePEXReq(c)
    PROVE  IInv'
<1>1. TypeOK /\ ThreadTypes
  BY TypesOfThreads DEF IInv
<1>2. ASSUME NEW d \in Clients
      PROVE  Started(d)' /\ Deleted(d)' /\ StoppedOnce(d)'
  <2>1. Started(d) /\ Deleted(d) /\ StoppedOnce(d)
    BY DEF IInv
  <2>2. Started(d)'
    BY <1>1, <2>1 DEF ThreadTypes, ReceivePEXReq, Started, Deleted, listVars,
       clientVars
  <2>3. Deleted(d)'
    BY <1>1, <2>1, ClientsAssumption
       DEF ThreadTypes, ReceivePEXReq, Started, Deleted, listVars, clientVars
  <2>4. StoppedOnce(d)'
    BY <1>1, <2>1 DEF ThreadTypes, ReceivePEXReq, Started, Deleted,
       StoppedOnce, listVars, clientVars
  <2> QED
    BY <2>2, <2>3, <2>4
<1>3. TypeOK'
  <2>1. ThreadTypes'
    BY <1>1, <1>2 DEF IInv, ThreadTypes, ReceivePEXReq, StoppedOnce, clientVars
  <2> QED
    BY <1>1, <2>1
       DEF TypeOK, ThreadTypes, ReceivePEXReq, listVars, clientVars
<1>4. Numbered' /\ ChannelsDistinct'
  BY NumberedKept DEF IInv, ReceivePEXReq, Made, clientVars
<1>5. GivesToMade'
  BY DEF IInv, GivesToMade, ReceivePEXReq, Made, clientVars
<1> QED
  BY <1>2, <1>3, <1>4, <1>5 DEF IInv

\* GetPeerList leaves the list alone.
LEMMA GetPeerListInv ==
    ASSUME IInv, NEW c \in Clients, GetPeerList(c)
    PROVE  IInv'
<1>1. TypeOK /\ ThreadTypes
  BY TypesOfThreads DEF IInv
<1>2. ASSUME NEW d \in Clients
      PROVE  Started(d)' /\ Deleted(d)' /\ StoppedOnce(d)'
  <2>1. Started(d) /\ Deleted(d) /\ StoppedOnce(d)
    BY DEF IInv
  <2>2. Started(d)'
    BY <1>1, <2>1 DEF ThreadTypes, GetPeerList, Started, Deleted, listVars,
       clientVars
  <2>3. Deleted(d)'
    BY <1>1, <2>1, ClientsAssumption
       DEF ThreadTypes, GetPeerList, Started, Deleted, listVars, clientVars
  <2>4. StoppedOnce(d)'
    BY <1>1, <2>1 DEF ThreadTypes, GetPeerList, Started, Deleted, StoppedOnce,
       listVars, clientVars
  <2> QED
    BY <2>2, <2>3, <2>4
<1>3. TypeOK'
  <2>1. ThreadTypes'
    BY <1>1, <1>2 DEF IInv, ThreadTypes, GetPeerList, StoppedOnce, clientVars
  <2> QED
    BY <1>1, <2>1
       DEF TypeOK, ThreadTypes, GetPeerList, listVars, clientVars, Handled
<1>4. Numbered' /\ ChannelsDistinct'
  BY NumberedKept DEF IInv, GetPeerList, Made, clientVars
<1>5. GivesToMade'
  BY DEF IInv, GivesToMade, GetPeerList, Made, clientVars
<1> QED
  BY <1>2, <1>3, <1>4, <1>5 DEF IInv

\* The receive thread stops a channel once: it is in its loop then.
LEMMA StopInv ==
    ASSUME IInv, NEW c \in Clients, Stop(c)
    PROVE  IInv'
<1>1. TypeOK /\ ThreadTypes
  BY TypesOfThreads DEF IInv
<1>2. ASSUME NEW d \in Clients
      PROVE  Started(d)' /\ Deleted(d)' /\ StoppedOnce(d)'
  <2>1. Started(d) /\ Deleted(d) /\ StoppedOnce(d)
    BY DEF IInv
  <2>2. Started(d)'
    BY <1>1, <2>1 DEF ThreadTypes, Stop, Started, Deleted, listVars, clientVars
  <2>3. Deleted(d)'
    BY <1>1, <2>1, ClientsAssumption
       DEF ThreadTypes, Stop, Started, Deleted, listVars, clientVars
  <2>4. StoppedOnce(d)'
    BY <1>1, <2>1 DEF ThreadTypes, Stop, Started, Deleted, StoppedOnce,
       listVars, clientVars
  <2> QED
    BY <2>2, <2>3, <2>4
<1>3. TypeOK'
  <2>1. ThreadTypes'
    BY <1>1, <1>2 DEF IInv, ThreadTypes, Stop, StoppedOnce, clientVars
  <2> QED
    BY <1>1, <2>1
       DEF TypeOK, ThreadTypes, Stop, listVars, clientVars
<1>4. Numbered' /\ ChannelsDistinct'
  BY NumberedKept DEF IInv, Stop, Made, clientVars
<1>5. GivesToMade'
  BY DEF IInv, GivesToMade, Stop, Made, clientVars
<1> QED
  BY <1>2, <1>3, <1>4, <1>5 DEF IInv

\* The keep-alive thread wakes up.
LEMMA KeepAliveWakeInv ==
    ASSUME IInv, NEW c \in Clients, KeepAliveWake(c)
    PROVE  IInv'
<1>1. TypeOK /\ ThreadTypes
  BY TypesOfThreads DEF IInv
<1>2. ASSUME NEW d \in Clients
      PROVE  Started(d)' /\ Deleted(d)' /\ StoppedOnce(d)'
  <2>1. Started(d) /\ Deleted(d) /\ StoppedOnce(d)
    BY DEF IInv
  <2>2. Started(d)'
    BY <1>1, <2>1 DEF ThreadTypes, KeepAliveWake, Started, Deleted, listVars,
       clientVars
  <2>3. Deleted(d)'
    BY <1>1, <2>1, ClientsAssumption
       DEF ThreadTypes, KeepAliveWake, Started, Deleted, listVars, clientVars
  <2>4. StoppedOnce(d)'
    BY <1>1, <2>1 DEF ThreadTypes, KeepAliveWake, Started, Deleted,
       StoppedOnce, listVars, clientVars
  <2> QED
    BY <2>2, <2>3, <2>4
<1>3. TypeOK'
  <2>1. ThreadTypes'
    BY <1>1, <1>2 DEF IInv, ThreadTypes, KeepAliveWake, StoppedOnce, clientVars
  <2> QED
    BY <1>1, <2>1
       DEF TypeOK, ThreadTypes, KeepAliveWake, listVars, clientVars
<1>4. Numbered' /\ ChannelsDistinct'
  BY NumberedKept DEF IInv, KeepAliveWake, Made, clientVars
<1>5. GivesToMade'
  BY DEF IInv, GivesToMade, KeepAliveWake, Made, clientVars
<1> QED
  BY <1>2, <1>3, <1>4, <1>5 DEF IInv

\* The seconds of silence are counted up to the interval and one more.
LEMMA KeepAliveCheckInv ==
    ASSUME IInv, NEW c \in Clients, KeepAliveCheck(c)
    PROVE  IInv'
<1>1. TypeOK /\ ThreadTypes
  BY TypesOfThreads DEF IInv
<1>2. ASSUME NEW d \in Clients
      PROVE  Started(d)' /\ Deleted(d)' /\ StoppedOnce(d)'
  <2>1. Started(d) /\ Deleted(d) /\ StoppedOnce(d)
    BY DEF IInv
  <2>2. Started(d)'
    BY <1>1, <2>1 DEF ThreadTypes, KeepAliveCheck, Started, Deleted, listVars,
       clientVars
  <2>3. Deleted(d)'
    BY <1>1, <2>1, ClientsAssumption
       DEF ThreadTypes, KeepAliveCheck, Started, Deleted, listVars, clientVars
  <2>4. StoppedOnce(d)'
    BY <1>1, <2>1 DEF ThreadTypes, KeepAliveCheck, Started, Deleted,
       StoppedOnce, listVars, clientVars
  <2> QED
    BY <2>2, <2>3, <2>4
<1>3. TypeOK'
  <2>1. ThreadTypes'
    BY <1>1, <1>2 DEF IInv, ThreadTypes, KeepAliveCheck, StoppedOnce,
       clientVars
  <2>2. SilentSec' \in [Clients -> 0..(KeepAliveInterval + 1)]
    <3>1. SilentSec \in [Clients -> 0..(KeepAliveInterval + 1)]
      BY <1>1 DEF TypeOK
    <3>2. CASE UNCHANGED SilentSec
      BY <3>1, <3>2
    <3>3. CASE /\ ~(SilentSec[c] > KeepAliveInterval)
               /\ SilentSec' = [SilentSec EXCEPT ![c] = @ + 1]
      <4>1. SilentSec[c] + 1 \in 0..(KeepAliveInterval + 1)
        BY <3>1, <3>3, BoundsAssumption
      <4> QED
        BY <3>1, <3>3, <4>1
    <3> QED
      BY <3>2, <3>3 DEF KeepAliveCheck
  <2>3. crashed' \in BOOLEAN
    BY <1>1 DEF TypeOK, KeepAliveCheck
  <2> QED
    BY <1>1, <2>1, <2>2, <2>3 DEF TypeOK, ThreadTypes, KeepAliveCheck,
       listVars, clientVars
<1>4. Numbered' /\ ChannelsDistinct'
  BY NumberedKept DEF IInv, KeepAliveCheck, Made, clientVars
<1>5. GivesToMade'
  BY DEF IInv, GivesToMade, KeepAliveCheck, Made, clientVars
<1> QED
  BY <1>2, <1>3, <1>4, <1>5 DEF IInv

\* The keep-alive thread stops a channel once: it ends with that.
LEMMA KeepAliveStopInv ==
    ASSUME IInv, NEW c \in Clients, KeepAliveStop(c)
    PROVE  IInv'
<1>1. TypeOK /\ ThreadTypes
  BY TypesOfThreads DEF IInv
<1>2. ASSUME NEW d \in Clients
      PROVE  Started(d)' /\ Deleted(d)' /\ StoppedOnce(d)'
  <2>1. Started(d) /\ Deleted(d) /\ StoppedOnce(d)
    BY DEF IInv
  <2>2. Started(d)'
    BY <1>1, <2>1 DEF ThreadTypes, KeepAliveStop, Started, Deleted, listVars,
       clientVars
  <2>3. Deleted(d)'
    BY <1>1, <2>1, ClientsAssumption
       DEF ThreadTypes, KeepAliveStop, Started, Deleted, listVars, clientVars
  <2>4. StoppedOnce(d)'
    BY <1>1, <2>1 DEF ThreadTypes, KeepAliveStop, Started, Deleted,
       StoppedOnce, listVars, clientVars
  <2> QED
    BY <2>2, <2>3, <2>4
<1>3. TypeOK'
  <2>1. ThreadTypes'
    BY <1>1, <1>2 DEF IInv, ThreadTypes, KeepAliveStop, StoppedOnce, clientVars
  <2> QED
    BY <1>1, <2>1
       DEF TypeOK, ThreadTypes, KeepAliveStop, listVars, clientVars
<1>4. Numbered' /\ ChannelsDistinct'
  BY NumberedKept DEF IInv, KeepAliveStop, Made, clientVars
<1>5. GivesToMade'
  BY DEF IInv, GivesToMade, KeepAliveStop, Made, clientVars
<1> QED
  BY <1>2, <1>3, <1>4, <1>5 DEF IInv

\* A PEX_REQ thread changes nothing the invariant is about.
LEMMA PEXReqCheckInv ==
    ASSUME IInv, NEW c \in Clients, PEXReqCheck(c)
    PROVE  IInv'
<1>1. TypeOK'
  BY DEF IInv, TypeOK, PEXReqCheck, listVars, clientVars, threadVars
<1>2. Numbered' /\ ChannelsDistinct'
  BY NumberedKept DEF IInv, PEXReqCheck, clientVars, Made
<1>3. GivesToMade'
  BY DEF IInv, GivesToMade, PEXReqCheck, Made, clientVars
<1>4. ASSUME NEW d \in Clients
      PROVE  Started(d)' /\ Deleted(d)' /\ StoppedOnce(d)'
  BY DEF IInv, Started, Deleted, StoppedOnce, PEXReqCheck, listVars,
         clientVars, threadVars
<1> QED
  BY <1>1, <1>2, <1>3, <1>4 DEF IInv

\* A stop thread takes its client off the list as it gets the mutex.
LEMMA ClientStopInv ==
    ASSUME IInv, NEW c \in Clients, ClientStop(c)
    PROVE  IInv'
<1>1. TypeOK /\ ThreadTypes
  BY TypesOfThreads DEF IInv
<1>2. ASSUME NEW d \in Clients
      PROVE  Started(d)' /\ Deleted(d)' /\ StoppedOnce(d)'
  <2>1. Started(d) /\ Deleted(d) /\ StoppedOnce(d)
    BY DEF IInv
  <2>2. Started(d)'
    BY <1>1, <2>1 DEF ThreadTypes, ClientStop, Started, Deleted, clientVars
  <2>3. Deleted(d)'
    BY <1>1, <2>1, ClientsAssumption
       DEF ThreadTypes, ClientStop, Started, Deleted, clientVars
  <2>4. StoppedOnce(d)'
    BY <1>1, <2>1 DEF ThreadTypes, ClientStop, Started, Deleted, StoppedOnce,
       clientVars
  <2> QED
    BY <2>2, <2>3, <2>4
<1>3. TypeOK'
  <2>1. ThreadTypes'
    BY <1>1, <1>2 DEF IInv, ThreadTypes, ClientStop, StoppedOnce, clientVars
  <2> QED
    BY <1>1, <2>1
       DEF TypeOK, ThreadTypes, ClientStop, clientVars
<1>4. Numbered' /\ ChannelsDistinct'
  BY NumberedKept DEF IInv, ClientStop, Made, clientVars
<1>5. GivesToMade'
  BY DEF IInv, GivesToMade, ClientStop, Made, clientVars
<1> QED
  BY <1>2, <1>3, <1>4, <1>5 DEF IInv

\* A new client for a datagram gets the next number and a place on the list.
LEMMA ReceiveNewInv ==
    ASSUME IInv, NEW c \in Clients, NEW msg \in {"handshake", "keepalive"},
           ReceiveNew(c, msg)
    PROVE  IInv'
<1>1. TypeOK /\ ThreadTypes
  BY TypesOfThreads DEF IInv
<1>2. ASSUME NEW d \in Clients
      PROVE  Started(d)' /\ Deleted(d)' /\ StoppedOnce(d)'
  <2>1. Started(d) /\ Deleted(d) /\ StoppedOnce(d)
    BY DEF IInv
  <2>2. Started(d)'
    BY <1>1, <2>1 DEF ThreadTypes, ReceiveNew, Started, Deleted, threadVars
  <2>3. Deleted(d)'
    BY <1>1, <2>1, ClientsAssumption
       DEF ThreadTypes, ReceiveNew, Started, Deleted, threadVars
  <2>4. StoppedOnce(d)'
    BY <1>1, <2>1 DEF ThreadTypes, ReceiveNew, Started, Deleted, StoppedOnce,
       threadVars
  <2> QED
    BY <2>2, <2>3, <2>4
<1>3. /\ Numbered' /\ ChannelsDistinct'
      /\ NextChannelID \in 1..Cardinality(Clients)
      /\ Made' = Made \cup {c}
  BY NumberedOneMore DEF ReceiveNew
<1>4. TypeOK'
  <2>1. ThreadTypes'
    BY <1>1 DEF ThreadTypes, ReceiveNew, threadVars
  <2>2. /\ NextChannelID' \in 1..(Cardinality(Clients) + 1)
        /\ ChannelID' \in [Clients -> 0..Cardinality(Clients)]
    <3>1. Cardinality(Clients) \in Nat
      BY ClientsAssumption, FS_CardinalityType
    <3> QED
      BY <1>1, <1>3, <3>1 DEF ReceiveNew, TypeOK
  <2>3. server' \in [at : {"recv", "give"}, client : Clients \cup {NoClient},
                   message : Messages \cup {"keepalive"}]
    BY DEF ReceiveNew, Messages
  <2>4. datagrams' \in 0..MaxDatagrams
    BY <1>1, BoundsAssumption DEF ReceiveNew, Arrives, TypeOK
  <2> QED
    BY <1>1, <2>1, <2>2, <2>3, <2>4
       DEF TypeOK, ThreadTypes, ReceiveNew, threadVars
<1>5. GivesToMade'
  BY <1>3 DEF IInv, GivesToMade, ReceiveNew
<1> QED
  BY <1>2, <1>3, <1>4, <1>5 DEF IInv

\* So does a new client for a peer, whose threads start at once.
LEMMA ReceivePEXResInv ==
    ASSUME IInv, NEW c \in Clients, ReceivePEXRes(c)
    PROVE  IInv'
<1>1. TypeOK /\ ThreadTypes
  BY TypesOfThreads DEF IInv
<1>2. ASSUME NEW d \in Clients
      PROVE  Started(d)' /\ Deleted(d)' /\ StoppedOnce(d)'
  <2>1. Started(d) /\ Deleted(d) /\ StoppedOnce(d)
    BY DEF IInv
  <2>2. Started(d)'
    BY <1>1, <2>1 DEF ThreadTypes, ReceivePEXRes, Start, Started, Deleted
  <2>3. Deleted(d)'
    BY <1>1, <2>1, ClientsAssumption
       DEF ThreadTypes, ReceivePEXRes, Start, Started, Deleted
  <2>4. StoppedOnce(d)'
    BY <1>1, <2>1 DEF ThreadTypes, ReceivePEXRes, Start, Started, Deleted,
       StoppedOnce
  <2> QED
    BY <2>2, <2>3, <2>4
<1>3. /\ Numbered' /\ ChannelsDistinct'
      /\ NextChannelID \in 1..Cardinality(Clients)
      /\ Made' = Made \cup {c}
  BY NumberedOneMore DEF ReceivePEXRes
<1>4. TypeOK'
  <2>1. ThreadTypes'
    BY <1>1 DEF ThreadTypes, ReceivePEXRes, Start
  <2>2. /\ NextChannelID' \in 1..(Cardinality(Clients) + 1)
        /\ ChannelID' \in [Clients -> 0..Cardinality(Clients)]
    <3>1. Cardinality(Clients) \in Nat
      BY ClientsAssumption, FS_CardinalityType
    <3> QED
      BY <1>1, <1>3, <3>1 DEF ReceivePEXRes, TypeOK
  <2>3. server' \in [at : {"recv", "give"}, client : Clients \cup {NoClient},
                   message : Messages \cup {"keepalive"}]
    BY <1>1 DEF TypeOK, ReceivePEXRes
  <2>4. datagrams' \in 0..MaxDatagrams
    BY <1>1, BoundsAssumption DEF ReceivePEXRes, Arrives, TypeOK
  <2> QED
    BY <1>1, <2>1, <2>2, <2>3, <2>4 DEF TypeOK, ThreadTypes, ReceivePEXRes
<1>5. GivesToMade'
  BY <1>3 DEF IInv, GivesToMade, ReceivePEXRes
<1> QED
  BY <1>2, <1>3, <1>4, <1>5 DEF IInv

\* SetMessage starts the threads of an open channel only.
LEMMA SetMessageInv ==
    ASSUME IInv, SetMessage
    PROVE  IInv'
<1>1. /\ TypeOK /\ ThreadTypes
      /\ server.client \in Made /\ server.client \in Clients
  BY TypesOfThreads DEF IInv, GivesToMade, Made, SetMessage
<1>2. ASSUME NEW d \in Clients
      PROVE  Started(d)' /\ Deleted(d)' /\ StoppedOnce(d)'
  <2>1. Started(d) /\ Deleted(d) /\ StoppedOnce(d)
    BY DEF IInv
  <2>2. \/ UNCHANGED <<receiver, keepAlive>>
        \/ ~IsStop[server.client] /\ receiver[server.client] = "none"
           /\ Start(server.client)
    BY DEF SetMessage
  <2>3. UNCHANGED <<object, IsStop, stops, PPClientMutex, PPClientList>>
    BY DEF SetMessage, listVars, clientVars
  <2>4. Started(d)'
    BY <1>1, <2>1, <2>2, <2>3 DEF ThreadTypes, Made, Start, Started, Deleted
  <2>5. Deleted(d)'
    BY <1>1, <2>1, <2>2, <2>3 DEF ThreadTypes, Start, Started, Deleted
  <2>6. StoppedOnce(d)'
    BY <1>1, <2>1, <2>2, <2>3 DEF ThreadTypes, Start, Started, Deleted,
       StoppedOnce
  <2> QED
    BY <2>4, <2>5, <2>6
<1>3. TypeOK'
  <2>1. ThreadTypes'
    BY <1>1 DEF ThreadTypes, SetMessage, Start, clientVars
  <2>2. server' \in [at : {"recv", "give"}, client : Clients \cup {NoClient},
                   message : Messages \cup {"keepalive"}]
    BY DEF SetMessage, Idle
  <2>3. SilentSec' \in [Clients -> 0..(KeepAliveInterval + 1)]
    <3>1. \/ UNCHANGED SilentSec
          \/ \E sec \in {0, SilentSec[server.client]} :
                SilentSec' = [SilentSec EXCEPT ![server.client] = sec]
      BY DEF SetMessage, Heard
    <3> QED
      BY <1>1, <3>1, BoundsAssumption DEF TypeOK
  <2>4. /\ MessageQueue' \in [Clients -> Seq(Messages)]
        /\ \A d \in Clients : Len(MessageQueue'[d]) <= MaxQueue
    <3>1. CASE UNCHANGED MessageQueue
      BY <1>1, <3>1 DEF TypeOK
    <3>2. CASE /\ Len(MessageQueue[server.client]) < MaxQueue
               /\ server.message # "keepalive"
               /\ MessageQueue' = [MessageQueue EXCEPT ![server.client] =
                                      Append(@, server.message)]
      <4>1. /\ server.message \in Messages
            /\ MessageQueue[server.client] \in Seq(Messages)
        BY <1>1, <3>2 DEF TypeOK
      <4>2. /\ Append(MessageQueue[server.client], server.message)
                  \in Seq(Messages)
            /\ Len(Append(MessageQueue[server.client], server.message)) =
               Len(MessageQueue[server.client]) + 1
        BY <4>1, AppendProperties
      <4>3. Len(MessageQueue[server.client]) \in Nat
        BY <4>1, LenProperties
      <4> QED
        BY <1>1, <3>2, <4>2, <4>3, BoundsAssumption DEF TypeOK
    <3> QED
      BY <3>1, <3>2 DEF SetMessage
  <2> QED
    BY <1>1, <2>1, <2>2, <2>3, <2>4
       DEF TypeOK, ThreadTypes, SetMessage, listVars, clientVars
<1>4. Numbered' /\ ChannelsDistinct'
  BY NumberedKept DEF IInv, SetMessage, Made, clientVars
<1>5. GivesToMade'
  BY DEF SetMessage, Idle, GivesToMade
<1> QED
  BY <1>2, <1>3, <1>4, <1>5 DEF IInv

\* A client is deleted when it is off the list and its thread has ended.
LEMMA DeleteInv ==
    ASSUME IInv, NEW c \in Clients, Delete(c)
    PROVE  IInv'
<1>1. TypeOK /\ ThreadTypes
  BY TypesOfThreads DEF IInv
<1>2. ASSUME NEW d \in Clients
      PROVE  Started(d)' /\ Deleted(d)' /\ StoppedOnce(d)'
  <2>1. Started(d) /\ Deleted(d) /\ StoppedOnce(d)
    BY DEF IInv
  <2>2. Started(d)'
    BY <1>1, <2>1 DEF ThreadTypes, Delete, Started, Deleted, threadVars
  <2>3. Deleted(d)'
    BY <1>1, <2>1, ClientsAssumption
       DEF ThreadTypes, Delete, Started, Deleted, threadVars
  <2>4. StoppedOnce(d)'
    BY <1>1, <2>1 DEF ThreadTypes, Delete, Started, Deleted, StoppedOnce,
       threadVars
  <2> QED
    BY <2>2, <2>3, <2>4
<1>3. c \in Made
  BY ClientsAssumption DEF IInv, Started, Made, Delete
<1>4. TypeOK'
  <2>1. ThreadTypes'
    BY <1>1 DEF ThreadTypes, Delete, threadVars
  <2>2. /\ MessageQueue' \in [Clients -> Seq(Messages)]
        /\ \A d \in Clients : Len(MessageQueue'[d]) <= MaxQueue
    <3>1. <<>> \in Seq(Messages) /\ Len(<<>>) = 0
      OBVIOUS
    <3> QED
      BY <1>1, <3>1, BoundsAssumption DEF TypeOK, Delete
  <2>3. PPClientMutex' \in Clients \cup {NoClient} /\ crashed' \in BOOLEAN
    BY <1>1 DEF TypeOK, Delete
  <2> QED
    BY <1>1, <2>1, <2>2, <2>3 DEF TypeOK, ThreadTypes, Delete, threadVars
<1>5. Made' = Made
  BY <1>1, <1>3, MadeKept DEF Delete
<1>6. Numbered' /\ ChannelsDistinct'
  BY <1>5, NumberedKept DEF IInv, Delete
<1>7. GivesToMade'
  BY <1>5 DEF IInv, GivesToMade, Delete
<1> QED
  BY <1>2, <1>4, <1>6, <1>7 DEF IInv

-----------------------------------------------------------------------------
(* The theorems *)

\* The invariant is about these variables.
LEMMA StutterInv ==
    ASSUME IInv, UNCHANGED vars
    PROVE  IInv'
<1>1. TypeOK'
  BY DEF IInv, TypeOK, vars, listVars, clientVars, threadVars
<1>2. Numbered' /\ ChannelsDistinct'
  BY NumberedKept DEF IInv, vars, clientVars, Made
<1>3. GivesToMade'
  BY DEF IInv, GivesToMade, Made, vars, clientVars
<1>4. ASSUME NEW c \in Clients
      PROVE  Started(c)' /\ Deleted(c)' /\ StoppedOnce(c)'
  BY DEF IInv, Started, Deleted, StoppedOnce, vars, listVars, clientVars,
         threadVars
<1> QED
  BY <1>1, <1>2, <1>3, <1>4 DEF IInv

\* Every step keeps the invariant.
LEMMA StepInv == IInv /\ [Next]_vars => IInv'
<1> SUFFICES ASSUME IInv, [Next]_vars
             PROVE  IInv'
  OBVIOUS
<1>1. CASE UNCHANGED vars
  BY <1>1, StutterInv
<1>2. CASE SetMessage
  BY <1>2, SetMessageInv
<1>3. ASSUME NEW c \in Clients, NEW msg \in {"handshake", "keepalive"},
             ReceiveNew(c, msg)
      PROVE  IInv'
  BY <1>3, ReceiveNewInv
<1>4. ASSUME NEW c \in Clients, NEW msg \in Messages \cup {"keepalive"},
             GetPeer(c, msg)
      PROVE  IInv'
  BY <1>4, GetPeerInv
<1>5. ASSUME NEW c \in Clients, ReceivePEXRes(c)
      PROVE  IInv'
  BY <1>5, ReceivePEXResInv
<1>6. ASSUME NEW c \in Clients, Receive(c)
      PROVE  IInv'
  BY <1>6, TakeMessageInv, EndLoopInv, ReceiveHandShakeInv,
     ReceiveAboutDataInv,
     CheckHandshakedInv, ReceivePEXReqInv, GetPeerListInv, StopInv DEF Receive
<1>7. ASSUME NEW c \in Clients, KeepAlive(c)
      PROVE  IInv'
  BY <1>7, KeepAliveWakeInv, KeepAliveCheckInv, KeepAliveStopInv DEF KeepAlive
<1>8. ASSUME NEW c \in Clients, StopThread(c)
      PROVE  IInv'
  BY <1>8, ClientStopInv, DeleteInv DEF StopThread
<1>9. ASSUME NEW c \in Clients, PEXReqCheck(c)
      PROVE  IInv'
  BY <1>9, PEXReqCheckInv
<1> QED
  BY <1>1, <1>2, <1>3, <1>4, <1>5, <1>6, <1>7, <1>8, <1>9 DEF Next

\* The invariant holds in every state of a behaviour.
LEMMA Inductive == Spec => []IInv
BY InitInv, StepInv, PTL DEF Spec

\* Every variable of the server and of its channels keeps its type: no channel
\* has more than two threads at work on deleting it, and numbers do not run out
\* before clients do.
THEOREM ServerTypeCorrect == Spec => []TypeOK
<1>1. IInv => TypeOK
  BY DEF IInv
<1> QED
  BY <1>1, Inductive, PTL

\* PPServer never numbers two of its clients alike, whoever of its receive
\* thread's branches makes them, also when the earlier one is gone.
THEOREM NumbersNeverReused == Spec => []ChannelsDistinct
<1>1. IInv => ChannelsDistinct
  BY DEF IInv
<1> QED
  BY <1>1, Inductive, PTL

\* Whoever walks PPClientList with the mutex meets no deleted client: ClientStop
\* takes a client off the list and deletes it without letting the mutex go.
THEOREM ListNeverDangles == Spec => []ListedIsAlive
BY Consequences, Inductive, PTL

\* ~PPClient joins the receive thread: at no time is a handler at work in a
\* client that has been deleted, nor is its thread started after that.
THEOREM HandlersOutlived == Spec => []ReceiverOutlived
BY Consequences, Inductive, PTL

\* The MyInfo a handler has tested is taken from it by the keep-alive thread
\* only; a channel that has stopped itself leaves its queue as it is.
THEOREM QueueLeftAfterOwnStop == Spec => []NoneAfterOwnStop
BY Consequences, Inductive, PTL
=============================================================================
