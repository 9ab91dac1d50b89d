--------------------------- MODULE ChannelProofs ----------------------------
(* Proofs about Channel, for every set of nodes, of configurations and of    *)
(* connections, and for any number of channels, faults and ticks.            *)
EXTENDS Channel, TLAPS

-----------------------------------------------------------------------------
(* The inductive invariant *)

\* What TypeOK says of an end and of a datagram.
EndType ==
    [at : {"none", "open", "stopped", "refused"}, peer : Nodes \cup {"none"},
     started : BOOLEAN, DestChannelID : 0..MaxChannels,
     SendHandshake : BOOLEAN, IsHandshaked : BOOLEAN,
     SilentSec : 0..(KeepAliveInterval + 1), sendcnt : 0..KeepAliveInterval]

DatagramOK(d) ==
    /\ d.type \in {"handshake", "keepalive", "request", "data"}
    /\ d.from \in Nodes /\ d.to \in Nodes
    /\ d.dest \in 0..MaxChannels /\ d.source \in 0..MaxChannels

\* A client has been made for the end, whatever has become of it.
Made(e) == end[e].at # "none"

\* A node numbers its clients without a gap.
Numbered ==
    \A e \in Ends : /\ Made(e) <=> e[2] < NextChannelID[e[1]]
                    /\ Made(e) => end[e].peer \in Nodes

\* An open end that knows a channel of its peer has it from a HANDSHAKE it did
\* not refuse, of a client the peer made for this node.
Known(e) ==
    Open(e) =>
        /\ end[e].IsHandshaked <=> end[e].DestChannelID # 0
        /\ end[e].IsHandshaked =>
              /\ Made(Other(e)) /\ end[Other(e)].peer = e[1]
              /\ ~Refused(config[e[1]], GetBuffer(config[end[e].peer]))

\* A refused end has refused what its peer sends.
RefusedRight(e) ==
    end[e].at = "refused" =>
        Refused(config[e[1]], GetBuffer(config[end[e].peer]))

\* The end that opened a channel sends to an end that was made for it and sends
\* back to it; an end that was made for a HANDSHAKE sends to one that opened.
Paired(e) ==
    Open(e) /\ end[e].IsHandshaked /\ Open(Other(e)) =>
        IF end[e].SendHandshake
        THEN /\ end[Other(e)].IsHandshaked /\ ~end[Other(e)].SendHandshake
             /\ Other(Other(e)) = e
        ELSE end[Other(e)].SendHandshake

\* The ends a datagram comes from, as a HANDSHAKE tells it, and goes to.
Sender(d) == <<d.from, d.source>>
Target(d) == <<d.to, d.dest>>

Opens(d) == d.type = "handshake" /\ d.dest = 0
Answers(d) == d.type = "handshake" /\ d.dest # 0

\* A datagram in flight reaches an open end for the node it comes from, or
\* channel 0. A HANDSHAKE comes from the end it names: one to channel 0 from one
\* that opens, an answer from one made for it.
Sound(d) ==
    /\ d.dest # 0 => Open(Target(d)) /\ end[Target(d)].peer = d.from
    /\ d.type = "handshake" =>
          /\ Sender(d) \in Ends /\ Made(Sender(d))
          /\ end[Sender(d)].peer = d.to
          /\ d.options = GetBuffer(config[d.from])
    /\ Opens(d) =>
          /\ d = HandShakeMessage(Sender(d), Inbound(d.to), FALSE)
          /\ Open(Sender(d)) => end[Sender(d)].SendHandshake
    /\ Answers(d) =>
          /\ end[Target(d)].SendHandshake
          /\ Open(Sender(d)) => /\ end[Sender(d)].IsHandshaked
                                /\ ~end[Sender(d)].SendHandshake
                                /\ Other(Sender(d)) = Target(d)

\* An end made for a HANDSHAKE, which it has accepted.
Accepted(e) == Open(e) /\ end[e].IsHandshaked /\ ~end[e].SendHandshake

\* The HANDSHAKE d, which opens a channel, has not been answered.
Unanswered(d) ==
    Open(Sender(d)) =>
        /\ ~end[Sender(d)].IsHandshaked
        /\ \A r \in datagrams : Answers(r) => Target(r) # Sender(d)
        /\ \A e \in Ends : Accepted(e) => Other(e) # Sender(d)

\* The end e is the only one that answers the end it was made for.
OneAnswer(e) ==
    Open(Other(e)) =>
        /\ end[Other(e)].IsHandshaked => Other(Other(e)) = e
        /\ \A r \in datagrams :
              Answers(r) /\ Target(r) = Other(e) => Sender(r) = e

\* Without duplicates, the HANDSHAKE of an end that opens is in flight or one end
\* was made for it.
Single ==
    Without({"duplicate"}) =>
        /\ \A d \in datagrams : Opens(d) => Unanswered(d)
        /\ \A e \in Ends : Accepted(e) => OneAnswer(e)

IInv ==
    /\ TypeOK
    /\ Numbered
    /\ \A e \in Ends : Known(e) /\ RefusedRight(e) /\ Paired(e)
    /\ \A d \in datagrams : Sound(d)
    /\ Single

-----------------------------------------------------------------------------
(* What becomes of the ends *)

\* The end is as it was, or closes: what it knows of its channel stays.
Fades(e) ==
    /\ Made(e)' <=> Made(e)
    /\ end'[e].peer = end[e].peer
    /\ Open(e)' => /\ Open(e)
                   /\ end'[e].IsHandshaked = end[e].IsHandshaked
                   /\ end'[e].SendHandshake = end[e].SendHandshake
                   /\ end'[e].DestChannelID = end[e].DestChannelID

\* A step may forget duplicates only by counting them.
FaultsCount ==
    /\ faults' \in [Faults -> Nat]
    /\ Without({"duplicate"})' => Without({"duplicate"})

\* TypeOK in parts.
LEMMA Types ==
    TypeOK <=> /\ config \in Configurations
               /\ NextChannelID \in [Nodes -> 1..(MaxChannels + 1)]
               /\ end \in [Ends -> EndType]
               /\ \A d \in datagrams : DatagramOK(d)
               /\ faults \in [Faults -> Nat]
BY DEF TypeOK, EndType, DatagramOK

\* The fields of an end, in their types.
LEMMA EndFields ==
    ASSUME TypeOK, NEW e \in Ends
    PROVE  /\ end[e].at \in {"none", "open", "stopped", "refused"}
           /\ end[e].DestChannelID \in 0..MaxChannels
           /\ end[e].SendHandshake \in BOOLEAN
           /\ end[e].IsHandshaked \in BOOLEAN
           /\ e[1] \in Nodes /\ e[2] \in 1..MaxChannels
BY Types DEF EndType, Ends

\* The end that a client knows is one that was made.
LEMMA OtherIsEnd ==
    ASSUME IInv, NEW e \in Ends, Open(e), end[e].IsHandshaked
    PROVE  Other(e) \in Ends
<1>1. Made(e) /\ end[e].peer \in Nodes
  BY DEF IInv, Numbered, Made, Open
<1>2. end[e].DestChannelID \in 1..MaxChannels
  BY EndFields, BoundsAssumption DEF IInv, Known
<1> QED
  BY <1>1, <1>2 DEF Other, Ends

\* A datagram to an end goes to one that there is.
LEMMA TargetIsEnd ==
    ASSUME IInv, NEW d \in datagrams, d.dest # 0
    PROVE  Target(d) \in Ends /\ Open(Target(d)) /\ Made(Target(d))
<1>1. d.to \in Nodes /\ d.dest \in 1..MaxChannels
  BY Types, BoundsAssumption DEF IInv, DatagramOK
<1> QED
  BY <1>1 DEF IInv, Sound, Target, Ends, Made, Open

\* The end a node makes next is not there yet.
LEMMA NextEndIsNew ==
    ASSUME IInv, NEW n \in Nodes, NextChannelID[n] <= MaxChannels
    PROVE  NextEnd(n) \in Ends /\ ~Made(NextEnd(n))
<1>1. NextChannelID[n] \in 1..MaxChannels
  BY Types, BoundsAssumption DEF IInv
<1>2. NextEnd(n) \in Ends
  BY <1>1 DEF NextEnd, Ends
<1> QED
  BY <1>1, <1>2 DEF IInv, Numbered, NextEnd

\* Numbers of a step that makes no client, and of one that makes the next.
LEMMA NumberedKept ==
    ASSUME IInv, UNCHANGED NextChannelID, \A e \in Ends : Fades(e)
    PROVE  Numbered'
BY DEF IInv, Numbered, Fades

(* ... also in a step that takes the next number for a new end. *)
LEMMA NumberedNext ==
    ASSUME IInv, NEW n \in Nodes, UseNumber(n),
           NEW g, g = NextEnd(n), Made(g)', end'[g].peer \in Nodes,
           \A e \in Ends \ {g} : Fades(e)
    PROVE  /\ Numbered'
           /\ NextChannelID' \in [Nodes -> 1..(MaxChannels + 1)]
<1>1. /\ NextChannelID \in [Nodes -> 1..(MaxChannels + 1)]
      /\ NextChannelID[n] \in 1..MaxChannels
      /\ NextChannelID' = [NextChannelID EXCEPT ![n] = @ + 1]
  BY Types, BoundsAssumption DEF IInv, UseNumber
<1>2. NextChannelID' \in [Nodes -> 1..(MaxChannels + 1)]
  BY <1>1, BoundsAssumption
<1>3. ASSUME NEW e \in Ends
      PROVE  /\ Made(e)' <=> e[2] < NextChannelID'[e[1]]
             /\ Made(e)' => end'[e].peer \in Nodes
  <2>1. /\ Made(e) <=> e[2] < NextChannelID[e[1]]
        /\ Made(e) => end[e].peer \in Nodes
        /\ e[1] \in Nodes /\ e[2] \in 1..MaxChannels /\ e = <<e[1], e[2]>>
    BY DEF IInv, Numbered, Ends
  <2>2. CASE e = g
    BY <1>1, <2>1, <2>2 DEF NextEnd
  <2>3. CASE e # g /\ e[1] = n
    <3>1. e[2] # NextChannelID[n]
      BY <2>1, <2>3 DEF NextEnd
    <3> QED
      BY <1>1, <2>1, <2>3, <3>1, BoundsAssumption DEF Fades
  <2>4. CASE e[1] # n
    BY <1>1, <2>1, <2>4 DEF NextEnd, Fades
  <2> QED
    BY <2>2, <2>3, <2>4
<1> QED
  BY <1>2, <1>3 DEF Numbered

\* An old end that fades has what the invariant says of it, whatever clients a
\* step makes: it knows an old end.
LEMMA OldEnds ==
    ASSUME IInv, NEW G \in SUBSET Ends, \A g \in G : ~Made(g),
           \A e \in Ends \ G : Fades(e), UNCHANGED config,
           NEW e \in Ends \ G
    PROVE  /\ Known(e)' /\ Paired(e)'
           /\ Accepted(e)' => Accepted(e)
           /\ Open(e)' /\ end'[e].IsHandshaked =>
                 /\ Other(e)' = Other(e)
                 /\ Other(e) \in Ends \ G
<1>1. Open(e)' => Open(e)
  BY DEF Fades
<1>2. Open(e)' /\ end'[e].IsHandshaked =>
          Open(e) /\ end[e].IsHandshaked /\ Other(e)' = Other(e)
  BY DEF Fades, Other
<1>3. Open(e)' /\ end'[e].IsHandshaked => Other(e) \in Ends \ G
  BY <1>2, OtherIsEnd DEF IInv, Known
<1>4. Known(e)'
  BY <1>1, <1>2, <1>3 DEF IInv, Known, Fades
<1>5. Paired(e)'
  <2>1. SUFFICES ASSUME Open(e)', end'[e].IsHandshaked, Open(Other(e))'
                 PROVE  IF end'[e].SendHandshake
                        THEN /\ end'[Other(e)'].IsHandshaked
                             /\ ~end'[Other(e)'].SendHandshake
                             /\ Other(Other(e))' = e
                        ELSE end'[Other(e)'].SendHandshake
    BY DEF Paired
  <2>2. PICK o \in Ends \ G :
          /\ o = Other(e) /\ Other(e)' = o
          /\ Open(e) /\ end[e].IsHandshaked
    BY <1>2, <1>3, <2>1
  <2>3. Open(o)'
    BY <2>1, <2>2 DEF Open
  <2>4. Fades(o) /\ Fades(e)
    BY <2>2
  <2>5. IF end[e].SendHandshake
        THEN end[o].IsHandshaked /\ ~end[o].SendHandshake /\ Other(o) = e
        ELSE end[o].SendHandshake
    BY <2>2, <2>3, <2>4 DEF IInv, Paired, Fades
  <2>6. Other(Other(e))' = Other(o)
    BY <2>2, <2>3, <2>4 DEF Fades, Other
  <2> QED
    BY <2>1, <2>2, <2>3, <2>4, <2>5, <2>6 DEF Fades
<1>6. Accepted(e)' => Accepted(e)
  BY DEF Accepted, Fades
<1> QED
  BY <1>2, <1>3, <1>4, <1>5, <1>6

\* So has a datagram in flight that the step leaves in flight.
LEMMA OldDatagrams ==
    ASSUME IInv, NEW G \in SUBSET Ends, \A g \in G : ~Made(g),
           \A e \in Ends \ G : Fades(e), UNCHANGED config,
           NEW d \in datagrams, d.dest # 0 => end'[Target(d)].at = "open"
    PROVE  /\ Sound(d)'
           /\ d.type = "handshake" => Sender(d) \in Ends \ G
           /\ d.dest # 0 => Target(d) \in Ends \ G
<1>1. d.dest # 0 => Target(d) \in Ends \ G
  BY TargetIsEnd
<1>2. d.type = "handshake" => Sender(d) \in Ends \ G
  BY DEF IInv, Sound
<1>3. d.dest # 0 => Open(Target(d))' /\ end'[Target(d)].peer = d.from
  BY <1>1 DEF IInv, Sound, Fades, Target, Open
<1>4. d.type = "handshake" =>
          /\ Made(Sender(d))' /\ end'[Sender(d)].peer = d.to
          /\ d.options = GetBuffer(config'[d.from])
  BY <1>2 DEF IInv, Sound, Fades, Sender
<1>5. Opens(d) =>
          /\ d = HandShakeMessage(Sender(d), Inbound(d.to), FALSE)'
          /\ Open(Sender(d))' => end'[Sender(d)].SendHandshake
  BY <1>2 DEF IInv, Sound, Fades, Sender, Opens, HandShakeMessage
<1>6. Answers(d) =>
          /\ end'[Target(d)].SendHandshake
          /\ Open(Sender(d))' => /\ end'[Sender(d)].IsHandshaked
                                 /\ ~end'[Sender(d)].SendHandshake
                                 /\ Other(Sender(d))' = Target(d)
  <2>1. SUFFICES ASSUME Answers(d)
                 PROVE  /\ end'[Target(d)].SendHandshake
                        /\ Open(Sender(d))' =>
                              /\ end'[Sender(d)].IsHandshaked
                              /\ ~end'[Sender(d)].SendHandshake
                              /\ Other(Sender(d))' = Target(d)
    OBVIOUS
  <2>2. Fades(Target(d)) /\ Fades(Sender(d))
    BY <1>1, <1>2, <2>1 DEF Answers
  <2>3. end'[Target(d)].SendHandshake
    BY <1>3, <2>1, <2>2 DEF IInv, Sound, Fades, Answers, Target
  <2>4. Open(Sender(d))' => /\ end'[Sender(d)].IsHandshaked
                            /\ ~end'[Sender(d)].SendHandshake
                            /\ Other(Sender(d))' = Target(d)
    BY <2>1, <2>2 DEF IInv, Sound, Fades, Answers, Sender, Other
  <2> QED
    BY <2>3, <2>4
<1> QED
  BY <1>1, <1>2, <1>3, <1>4, <1>5, <1>6 DEF Sound, Opens, Answers, Target, Sender

\* What is in flight after a step reaches an open end.
Reaches(d) == DatagramOK(d) /\ (d.dest # 0 => end'[Target(d)].at = "open")

\* A message other than a HANDSHAKE, to the node it is from the peer of.
Plain(d) ==
    /\ d.type # "handshake"
    /\ d.dest # 0 => end'[Target(d)].peer = d.from

(* A message that opens nothing and goes where its sender's peer is is sound. *)
LEMMA PlainIsSound ==
    ASSUME NEW d, Reaches(d), Plain(d)
    PROVE  Sound(d)'
BY DEF Reaches, Plain, Sound, Opens, Answers, Target, Open

\* The HANDSHAKE with which a new end opens its channel.
Opening(d) ==
    /\ Opens(d) /\ Sender(d) \in Ends
    /\ d = HandShakeMessage(Sender(d), Inbound(d.to), FALSE)
    /\ end'[Sender(d)].at # "none" /\ end'[Sender(d)].peer = d.to
    /\ end'[Sender(d)].SendHandshake

(* So is the handshake of an end that has marked it as sent. *)
LEMMA OpeningIsSound ==
    ASSUME NEW d, Opening(d), UNCHANGED config
    PROVE  Sound(d)'
BY DEF Opening, Sound, Opens, Answers, Target, Sender, Made, HandShakeMessage,
       Message

\* A step in which old ends fade, new ones know no channel of their peer, and
\* no HANDSHAKE is sent but those that open keeps the invariant.
LEMMA QuietStep ==
    ASSUME IInv, NEW G \in SUBSET Ends, \A g \in G : ~Made(g),
           \A e \in Ends \ G : Fades(e), UNCHANGED config,
           \A g \in G : Open(g)' => /\ ~end'[g].IsHandshaked
                                    /\ end'[g].DestChannelID = 0,
           \A e \in Ends : RefusedRight(e)', Numbered', FaultsCount,
           NextChannelID' \in [Nodes -> 1..(MaxChannels + 1)],
           end' \in [Ends -> EndType],
           \A d \in datagrams' :
               /\ Reaches(d)
               /\ \/ d \in datagrams
                  \/ Plain(d)
                  \/ Opening(d) /\ Sender(d) \in G
    PROVE  IInv'
<1>1. TypeOK'
  BY DEF IInv, TypeOK, EndType, DatagramOK, FaultsCount, Reaches
<1>2. ASSUME NEW e \in Ends
      PROVE  Known(e)' /\ Paired(e)'
  <2>1. CASE e \in G
    BY <2>1 DEF Known, Paired
  <2>2. CASE e \notin G
    BY <2>2, OldEnds
  <2> QED
    BY <2>1, <2>2
<1>3. ASSUME NEW d \in datagrams'
      PROVE  Sound(d)'
  <2>1. CASE d \in datagrams
    BY <2>1, OldDatagrams DEF Reaches
  <2>2. CASE Plain(d)
    BY <2>2, PlainIsSound
  <2>3. CASE Opening(d)
    BY <2>3, OpeningIsSound
  <2> QED
    BY <2>1, <2>2, <2>3
<1>4. ASSUME NEW e \in Ends, Accepted(e)'
      PROVE  /\ e \notin G /\ Accepted(e)
             /\ Other(e)' = Other(e) /\ Other(e) \in Ends \ G
  <2>1. e \notin G
    BY <1>4 DEF Accepted
  <2> QED
    BY <1>4, <2>1, OldEnds DEF Accepted
<1>5. ASSUME NEW d \in datagrams', Answers(d)
      PROVE  d \in datagrams /\ Sender(d) \in Ends \ G /\ Target(d) \in Ends \ G
  <2>1. d \in datagrams
    BY <1>5 DEF Answers, Plain, Opening, Opens
  <2> QED
    BY <1>5, <2>1, OldDatagrams DEF Answers, Reaches
<1>6. ASSUME Without({"duplicate"})', NEW d \in datagrams', Opens(d)
      PROVE  Unanswered(d)'
  <2>1. Without({"duplicate"})
    BY <1>6 DEF FaultsCount
  <2>2. SUFFICES ASSUME Open(Sender(d))'
                 PROVE  /\ ~end'[Sender(d)].IsHandshaked
                        /\ \A r \in datagrams' :
                              Answers(r) => Target(r) # Sender(d)
                        /\ \A e \in Ends :
                              Accepted(e)' => Other(e)' # Sender(d)
    BY DEF Unanswered, Sender
  <2>3. CASE Sender(d) \in G
    BY <1>4, <1>5, <2>2, <2>3
  <2>4. CASE Sender(d) \notin G
    <3>1. d \in datagrams
      BY <1>6, <2>4 DEF Opens, Plain
    <3>2. Sender(d) \in Ends /\ Fades(Sender(d))
      BY <1>6, <2>4, <3>1 DEF IInv, Sound, Opens
    <3>3. Unanswered(d) /\ Open(Sender(d))
      BY <1>6, <2>1, <2>2, <3>1, <3>2 DEF IInv, Single, Fades
    <3> QED
      BY <1>4, <1>5, <2>2, <3>2, <3>3 DEF Unanswered, Fades
  <2> QED
    BY <2>3, <2>4
<1>7. ASSUME Without({"duplicate"})', NEW e \in Ends, Accepted(e)'
      PROVE  OneAnswer(e)'
  <2>1. Without({"duplicate"})
    BY <1>7 DEF FaultsCount
  <2>2. PICK o \in Ends \ G : o = Other(e) /\ Other(e)' = o
    BY <1>4, <1>7
  <2>3. Fades(o)
    BY <2>2
  <2>4. OneAnswer(e)
    BY <1>4, <1>7, <2>1 DEF IInv, Single
  <2>5. SUFFICES ASSUME Open(o)'
                 PROVE  /\ end'[o].IsHandshaked => Other(o)' = e
                        /\ \A r \in datagrams' :
                              Answers(r) /\ Target(r) = o => Sender(r) = e
    BY <2>2 DEF OneAnswer, Open, Other
  <2>6. end'[o].IsHandshaked => Other(o)' = e
    BY <2>2, <2>3, <2>4, <2>5 DEF OneAnswer, Fades, Other
  <2>7. ASSUME NEW r \in datagrams', Answers(r), Target(r) = o
        PROVE  Sender(r) = e
    BY <1>5, <2>2, <2>3, <2>4, <2>5, <2>7 DEF OneAnswer, Fades
  <2> QED
    BY <2>6, <2>7
<1>8. Single'
  BY <1>6, <1>7 DEF Single
<1> QED
  BY <1>1, <1>2, <1>3, <1>8 DEF IInv

\* The answer of the end g to the HANDSHAKE d.
AnswerTo(m, d, g) ==
    /\ m.type = "handshake" /\ Sender(m) = g /\ m.options = GetBuffer(config[g[1]])
    /\ m.to = d.from /\ m.dest = d.source

\* A step that makes an end for a HANDSHAKE to channel 0 and accepts it.
LEMMA AcceptStep ==
    ASSUME IInv, NEW g \in Ends, ~Made(g), UNCHANGED config,
           NEW d \in datagrams, Opens(d), d.to = g[1],
           ~Refused(config[g[1]], d.options),
           NEW c \in EndType, c.at = "open", c.peer = d.from,
           ~c.SendHandshake, c.IsHandshaked, c.DestChannelID = d.source,
           end' = [end EXCEPT ![g] = c],
           Numbered', NextChannelID' \in [Nodes -> 1..(MaxChannels + 1)],
           FaultsCount, Without({"duplicate"})' => d \notin datagrams',
           \A m \in datagrams' :
               Reaches(m) /\ (m \in datagrams \/ Plain(m) \/ AnswerTo(m, d, g))
    PROVE  IInv'
<1>1. /\ end \in [Ends -> EndType] /\ end' \in [Ends -> EndType]
      /\ end'[g] = c /\ \A e \in Ends \ {g} : end'[e] = end[e]
  BY Types DEF IInv
<1>2. TypeOK'
  BY <1>1 DEF IInv, TypeOK, EndType, DatagramOK, FaultsCount, Reaches
<1>3. \A e \in Ends \ {g} : Fades(e)
  BY <1>1 DEF Fades, Made, Open
<1>4. PICK s \in Ends \ {g} :
          /\ s = Sender(d) /\ s = <<d.from, d.source>> /\ Other(g)' = s
          /\ end[s].peer = g[1] /\ end'[s] = end[s] /\ Made(s)
          /\ d.options = GetBuffer(config[d.from])
          /\ d = HandShakeMessage(s, Inbound(d.to), FALSE)
          /\ Open(s) => end[s].SendHandshake
  <2>1. /\ Sender(d) \in Ends /\ Made(Sender(d))
        /\ end[Sender(d)].peer = d.to /\ d.options = GetBuffer(config[d.from])
        /\ d = HandShakeMessage(Sender(d), Inbound(d.to), FALSE)
        /\ Open(Sender(d)) => end[Sender(d)].SendHandshake
    BY DEF IInv, Sound, Opens
  <2>2. Sender(d) = <<d.from, d.source>> /\ Other(g)' = <<d.from, d.source>>
    BY <1>1 DEF Sender, Other
  <2> QED
    BY <1>1, <2>1, <2>2
<1>5. d.source # 0
  <2>1. s[2] = d.source /\ s[2] \in 1..MaxChannels
    <3>1. s = <<d.from, d.source>> /\ s \in Nodes \X (1..MaxChannels)
      BY <1>4 DEF Ends
    <3> QED
      BY <3>1
  <2> QED
    BY <2>1, BoundsAssumption
<1>6. ASSUME NEW e \in Ends
      PROVE  Known(e)' /\ Paired(e)' /\ RefusedRight(e)'
  <2>1. CASE e = g
    BY <1>1, <1>4, <1>5, <2>1 DEF Known, Paired, RefusedRight, Made, Open
  <2>2. CASE e # g
    <3>1. Known(e)' /\ Paired(e)'
      BY <1>3, <2>2, OldEnds
    <3> QED
      BY <1>1, <2>2, <3>1 DEF IInv, RefusedRight
  <2> QED
    BY <2>1, <2>2
<1>7. ASSUME NEW m \in datagrams'
      PROVE  Sound(m)'
  <2>1. CASE m \in datagrams
    BY <1>3, <2>1, OldDatagrams DEF Reaches
  <2>2. CASE Plain(m)
    BY <2>2, PlainIsSound
  <2>3. CASE AnswerTo(m, d, g)
    <3>1. /\ Target(m) = s /\ Sender(m) = g /\ m.from = g[1] /\ m.dest # 0
          /\ m.to = d.from
      BY <1>4, <1>5, <2>3 DEF AnswerTo, Target, Sender
    <3>2. Open(s)'
      BY <3>1 DEF Reaches, Open
    <3>3. end'[s].SendHandshake /\ end'[s].peer = m.from
      BY <1>4, <3>1, <3>2 DEF Open
    <3> QED
      BY <1>1, <1>4, <2>3, <3>1, <3>2, <3>3
         DEF Sound, AnswerTo, Opens, Answers, Made
  <2> QED
    BY <2>1, <2>2, <2>3
<1>8. ASSUME NEW e \in Ends, Accepted(e)', e # g
      PROVE  /\ Accepted(e) /\ Other(e)' = Other(e) /\ Other(e) \in Ends \ {g}
  BY <1>3, <1>8, OldEnds DEF Accepted
<1>9. ASSUME NEW m \in datagrams', Answers(m)
      PROVE  \/ m \in datagrams /\ Target(m) # g /\ Sender(m) # g
             \/ Sender(m) = g /\ Target(m) = s
  <2>1. CASE m \in datagrams
    BY <1>3, <1>9, <2>1, OldDatagrams DEF Answers, Reaches
  <2>2. CASE AnswerTo(m, d, g)
    BY <1>4, <2>2 DEF AnswerTo, Target
  <2> QED
    BY <1>9, <2>1, <2>2 DEF Plain, Answers
<1>10. ASSUME Without({"duplicate"})', NEW m \in datagrams', Opens(m)
       PROVE  Unanswered(m)'
  <2>1. Without({"duplicate"}) /\ m # d
    BY <1>10 DEF FaultsCount
  <2>2. m \in datagrams /\ Sender(m) \in Ends \ {g}
    <3>1. m \in datagrams
      BY <1>5, <1>10 DEF Opens, Plain, AnswerTo
    <3> QED
      BY <1>10, <3>1 DEF IInv, Sound, Opens
  <2>3. Sender(m) # s
    <3>1. SUFFICES ASSUME Sender(m) = s
                   PROVE  m = d
      BY <2>1
    <3>2. end[s].peer = m.to /\ m = HandShakeMessage(s, Inbound(m.to), FALSE)
      BY <1>10, <2>2, <3>1 DEF IInv, Sound, Opens
    <3> QED
      BY <1>4, <3>2
  <2>4. Unanswered(m)
    BY <1>10, <2>1, <2>2 DEF IInv, Single
  <2>5. SUFFICES ASSUME Open(Sender(m))'
                 PROVE  /\ ~end'[Sender(m)].IsHandshaked
                        /\ \A r \in datagrams' :
                              Answers(r) => Target(r) # Sender(m)
                        /\ \A e \in Ends :
                              Accepted(e)' => Other(e)' # Sender(m)
    BY DEF Unanswered, Sender
  <2>6. end'[Sender(m)] = end[Sender(m)] /\ Open(Sender(m))
    BY <1>1, <2>2, <2>5 DEF Open, Sender
  <2>7. ASSUME NEW r \in datagrams', Answers(r)
        PROVE  Target(r) # Sender(m)
    BY <1>9, <2>3, <2>4, <2>6, <2>7 DEF Unanswered
  <2>8. ASSUME NEW e \in Ends, Accepted(e)'
        PROVE  Other(e)' # Sender(m)
    BY <1>4, <1>8, <2>3, <2>4, <2>6, <2>8 DEF Unanswered
  <2> QED
    BY <2>4, <2>6, <2>7, <2>8 DEF Unanswered
<1>11. ASSUME Without({"duplicate"})', NEW e \in Ends, Accepted(e)'
       PROVE  OneAnswer(e)'
  <2>1. Without({"duplicate"}) /\ Unanswered(d)
    BY <1>11 DEF FaultsCount, IInv, Single
  <2>2. CASE e = g
    <3>1. SUFFICES ASSUME Open(s)'
                   PROVE  /\ ~end'[s].IsHandshaked
                          /\ \A r \in datagrams' :
                                Answers(r) /\ Target(r) = s => Sender(r) = g
      BY <1>4, <2>2 DEF OneAnswer, Open, Other
    <3>2. Open(s)
      BY <1>4, <3>1 DEF Open
    <3> QED
      BY <1>4, <1>9, <2>1, <3>2 DEF Unanswered
  <2>3. CASE e # g
    <3>1. PICK o \in Ends \ {g} :
              o = Other(e) /\ Other(e)' = o /\ end'[o] = end[o] /\ Accepted(e)
      BY <1>1, <1>8, <1>11, <2>3
    <3>2. SUFFICES ASSUME Open(o)'
                   PROVE  /\ end'[o].IsHandshaked => Other(o)' = e
                          /\ \A r \in datagrams' :
                                Answers(r) /\ Target(r) = o => Sender(r) = e
      BY <3>1 DEF OneAnswer, Open, Other
    <3>3. Open(o) /\ OneAnswer(e) /\ Other(o)' = Other(o)
      BY <1>11, <2>1, <3>1, <3>2 DEF IInv, Single, Open, Other
    <3>4. o # s
      BY <1>4, <2>1, <3>1, <3>3 DEF Unanswered
    <3>5. ASSUME NEW r \in datagrams', Answers(r), Target(r) = o
          PROVE  Sender(r) = e
      BY <1>9, <3>1, <3>3, <3>4, <3>5 DEF OneAnswer
    <3> QED
      BY <3>1, <3>3, <3>5 DEF OneAnswer
  <2> QED
    BY <2>2, <2>3
<1>12. Single'
  BY <1>10, <1>11 DEF Single
<1> QED
  BY <1>2, <1>6, <1>7, <1>12 DEF IInv

\* A step in which an end that opened its channel accepts the answer d.
LEMMA LearnStep ==
    ASSUME IInv, NEW e \in Ends, UNCHANGED <<config, NextChannelID>>,
           NEW d \in datagrams, Answers(d), Target(d) = e,
           ~Refused(config[e[1]], d.options),
           NEW c \in EndType, c.at = "open", c.peer = end[e].peer,
           c.SendHandshake = end[e].SendHandshake, c.IsHandshaked,
           c.DestChannelID = d.source,
           end' = [end EXCEPT ![e] = c], FaultsCount,
           \A m \in datagrams' : Reaches(m) /\ (m \in datagrams \/ Plain(m))
    PROVE  IInv'
<1>1. /\ end \in [Ends -> EndType] /\ end' \in [Ends -> EndType]
      /\ end'[e] = c /\ \A f \in Ends \ {e} : end'[f] = end[f]
  BY Types DEF IInv
<1>2. TypeOK'
  BY <1>1 DEF IInv, TypeOK, EndType, DatagramOK, FaultsCount, Reaches
<1>3. /\ Open(e) /\ Made(e) /\ end[e].SendHandshake /\ end[e].peer = d.from
      /\ e = <<d.to, d.dest>> /\ d.to = e[1]
  BY TargetIsEnd DEF IInv, Sound, Answers, Target
<1>4. /\ \A f \in Ends : (Made(f)' <=> Made(f)) /\ (Open(f)' <=> Open(f))
      /\ \A f \in Ends : /\ end'[f].peer = end[f].peer
                         /\ end'[f].SendHandshake = end[f].SendHandshake
  BY <1>1, <1>3 DEF Made, Open
<1>5. PICK s \in Ends \ {e} :
          /\ s = Sender(d) /\ Other(e)' = s /\ Made(s) /\ end'[s] = end[s]
          /\ end[s].peer = e[1] /\ d.options = GetBuffer(config[d.from])
          /\ Open(s) => /\ end[s].IsHandshaked /\ ~end[s].SendHandshake
                        /\ Other(s) = e
  <2>1. /\ Sender(d) \in Ends /\ Made(Sender(d))
        /\ end[Sender(d)].peer = d.to /\ d.options = GetBuffer(config[d.from])
        /\ Open(Sender(d)) => /\ end[Sender(d)].IsHandshaked
                              /\ ~end[Sender(d)].SendHandshake
                              /\ Other(Sender(d)) = Target(d)
    BY DEF IInv, Sound, Answers
  <2>2. Other(e)' = Sender(d)
    BY <1>1, <1>3 DEF Sender, Other
  <2> QED
    BY <1>1, <1>3, <2>1, <2>2
<1>6. d.source # 0
  <2>1. s[2] = d.source /\ s[2] \in 1..MaxChannels
    <3>1. s = <<d.from, d.source>> /\ s \in Nodes \X (1..MaxChannels)
      BY <1>5 DEF Ends, Sender
    <3> QED
      BY <3>1
  <2> QED
    BY <2>1, BoundsAssumption
<1>7. Numbered'
  BY <1>4 DEF IInv, Numbered
<1>8. ASSUME NEW f \in Ends, f # e
      PROVE  end'[f] = end[f] /\ Other(f)' = Other(f)
  BY <1>1, <1>8 DEF Other
<1>9. ASSUME NEW f \in Ends
      PROVE  Known(f)' /\ RefusedRight(f)'
  <2>1. CASE f = e
    BY <1>1, <1>3, <1>4, <1>5, <1>6, <2>1 DEF Known, RefusedRight
  <2>2. CASE f # e
    <3>1. Known(f) /\ RefusedRight(f)
      BY DEF IInv
    <3>2. RefusedRight(f)'
      BY <1>8, <2>2, <3>1 DEF RefusedRight
    <3>3. Open(f)' /\ end'[f].IsHandshaked =>
              /\ Made(Other(f))' /\ end'[Other(f)'].peer = f[1]
              /\ ~Refused(config'[f[1]], GetBuffer(config'[end'[f].peer]))
      <4>1. SUFFICES ASSUME Open(f)', end'[f].IsHandshaked
                     PROVE  /\ Made(Other(f))' /\ end'[Other(f)'].peer = f[1]
                            /\ ~Refused(config'[f[1]],
                                        GetBuffer(config'[end'[f].peer]))
        OBVIOUS
      <4>2. Open(f) /\ end[f].IsHandshaked
        BY <1>4, <1>8, <2>2, <4>1
      <4>3. PICK o \in Ends : o = Other(f)
        BY <4>2, OtherIsEnd
      <4>4. Made(o)' /\ end'[o].peer = f[1]
        BY <1>4, <3>1, <4>2, <4>3 DEF Known
      <4> QED
        BY <1>8, <2>2, <3>1, <4>2, <4>3, <4>4 DEF Known, Made
    <3> QED
      BY <1>4, <1>8, <2>2, <3>1, <3>2, <3>3 DEF Known
  <2> QED
    BY <2>1, <2>2
<1>10. ASSUME NEW f \in Ends
       PROVE  Paired(f)'
  <2>1. CASE f = e
    BY <1>1, <1>3, <1>4, <1>5, <1>8, <2>1 DEF Paired, Open
  <2>2. CASE f # e
    <3>1. SUFFICES ASSUME Open(f), end[f].IsHandshaked, Open(Other(f))'
                   PROVE  Paired(f)'
      BY <1>4, <1>8, <2>2 DEF Paired
    <3>2. PICK o \in Ends : o = Other(f) /\ Other(f)' = o
      BY <1>8, <2>2, <3>1, OtherIsEnd
    <3>3. Open(o)
      BY <1>4, <3>1, <3>2 DEF Open
    <3>4. IF end[f].SendHandshake
          THEN end[o].IsHandshaked /\ ~end[o].SendHandshake /\ Other(o) = f
          ELSE end[o].SendHandshake
      BY <3>1, <3>2, <3>3 DEF IInv, Paired
    <3>5. CASE o = e
      BY <1>3, <1>4, <1>8, <2>2, <3>2, <3>4, <3>5 DEF Paired
    <3>6. CASE o # e
      <4>1. end'[o] = end[o] /\ Other(o)' = Other(o) /\ end'[f] = end[f]
        BY <1>8, <2>2, <3>6
      <4>2. Other(Other(f))' = Other(o)'
        BY <3>2 DEF Other
      <4> QED
        BY <3>2, <3>4, <4>1, <4>2 DEF Paired
    <3> QED
      BY <3>5, <3>6
  <2> QED
    BY <2>1, <2>2
<1>11. ASSUME NEW m \in datagrams, m.type = "handshake"
       PROVE  /\ Sender(m) \in Ends
              /\ m.dest # 0 => Sender(m) # e /\ Target(m) \in Ends
  BY <1>3, <1>11, TargetIsEnd DEF IInv, Sound, Answers
<1>12. ASSUME NEW m \in datagrams'
       PROVE  Sound(m)'
  <2>1. CASE Plain(m)
    BY <2>1, <1>12, PlainIsSound
  <2>2. CASE m \in datagrams
    <3>1. m.dest # 0 => Open(Target(m))' /\ end'[Target(m)].peer = m.from
      BY <1>4, <1>12, <2>2, TargetIsEnd DEF IInv, Sound, Target, Open
    <3>2. m.type = "handshake" =>
              /\ Sender(m) \in Ends /\ Made(Sender(m))'
              /\ end'[Sender(m)].peer = m.to
              /\ m.options = GetBuffer(config'[m.from])
      BY <1>4, <1>11, <2>2 DEF IInv, Sound, Sender, Made
    <3>3. Opens(m) =>
              /\ m = HandShakeMessage(Sender(m), Inbound(m.to), FALSE)'
              /\ Open(Sender(m))' => end'[Sender(m)].SendHandshake
      <4>1. Opens(m) =>
                m = HandShakeMessage(Sender(m), Inbound(m.to), FALSE)'
        BY <2>2 DEF IInv, Sound, Sender, HandShakeMessage
      <4>2. Opens(m) /\ Open(Sender(m))' => end'[Sender(m)].SendHandshake
        <5>1. SUFFICES ASSUME Opens(m), Open(Sender(m))'
                       PROVE  end'[Sender(m)].SendHandshake
          OBVIOUS
        <5>2. PICK r \in Ends : r = Sender(m)
          BY <1>11, <2>2, <5>1 DEF Opens
        <5> QED
          BY <1>4, <2>2, <5>1, <5>2 DEF IInv, Sound, Open, Sender
      <4> QED
        BY <4>1, <4>2
    <3>4. Answers(m) =>
              /\ end'[Target(m)].SendHandshake
              /\ Open(Sender(m))' => /\ end'[Sender(m)].IsHandshaked
                                     /\ ~end'[Sender(m)].SendHandshake
                                     /\ Other(Sender(m))' = Target(m)
      <4>1. SUFFICES ASSUME Answers(m)
                     PROVE  /\ end'[Target(m)].SendHandshake
                            /\ Open(Sender(m))' =>
                                  /\ end'[Sender(m)].IsHandshaked
                                  /\ ~end'[Sender(m)].SendHandshake
                                  /\ Other(Sender(m))' = Target(m)
        OBVIOUS
      <4>2. PICK r \in Ends \ {e} : r = Sender(m)
        BY <1>11, <2>2, <4>1 DEF Answers
      <4>3. /\ end[Target(m)].SendHandshake /\ Target(m) \in Ends
            /\ Open(r) => /\ end[r].IsHandshaked /\ ~end[r].SendHandshake
                          /\ Other(r) = Target(m)
        BY <1>11, <2>2, <4>1, <4>2 DEF IInv, Sound, Answers
      <4> QED
        BY <1>4, <1>8, <4>2, <4>3 DEF Open, Sender, Other
    <3> QED
      BY <3>1, <3>2, <3>3, <3>4 DEF Sound, Opens, Answers, Target, Sender
  <2> QED
    BY <1>12, <2>1, <2>2
<1>13. \A f \in Ends : (Accepted(f)' <=> Accepted(f)) /\ (Accepted(f) => f # e)
  BY <1>3, <1>4, <1>8 DEF Accepted
<1>14. \A m \in datagrams' : m.type = "handshake" => m \in datagrams
  BY DEF Plain
<1>15. ASSUME Without({"duplicate"})', NEW m \in datagrams', Opens(m)
       PROVE  Unanswered(m)'
  <2>1. m \in datagrams /\ Unanswered(m) /\ Sender(m) \in Ends
    BY <1>11, <1>14, <1>15 DEF FaultsCount, IInv, Single, Opens
  <2>2. Sender(m) # e
    BY <1>3, <2>1 DEF Unanswered
  <2> QED
    BY <1>4, <1>8, <1>13, <1>14, <2>1, <2>2
       DEF Unanswered, Sender, Open, Answers
<1>16. ASSUME Without({"duplicate"})', NEW f \in Ends, Accepted(f)'
       PROVE  OneAnswer(f)'
  <2>1. Accepted(f) /\ f # e /\ OneAnswer(f)
    BY <1>13, <1>16 DEF FaultsCount, IInv, Single
  <2>2. PICK o \in Ends : o = Other(f) /\ Other(f)' = o
    BY <1>8, <2>1, OtherIsEnd DEF Accepted
  <2>3. SUFFICES ASSUME Open(o)'
                 PROVE  /\ end'[o].IsHandshaked => Other(o)' = f
                        /\ \A r \in datagrams' :
                              Answers(r) /\ Target(r) = o => Sender(r) = f
    BY <2>2 DEF OneAnswer, Open, Other
  <2>4. Open(o)
    BY <1>4, <2>3
  <2>5. end'[o].IsHandshaked => Other(o)' = f
    <3>1. CASE o = e
      BY <1>5, <2>1, <2>2, <2>4, <3>1 DEF OneAnswer
    <3>2. CASE o # e
      BY <1>8, <2>1, <2>2, <2>4, <3>2 DEF OneAnswer
    <3> QED
      BY <3>1, <3>2
  <2> QED
    BY <1>14, <2>1, <2>2, <2>4, <2>5 DEF OneAnswer, Answers
<1>17. Single'
  BY <1>15, <1>16 DEF Single
<1> QED
  BY <1>2, <1>7, <1>9, <1>10, <1>12, <1>17 DEF IInv

-----------------------------------------------------------------------------
(* What a handler leaves and sends *)

\* Faults are counted, duplicates among them.
LEMMA FaultIsCounted ==
    ASSUME TypeOK, NEW kind \in Faults, Fault(kind)
    PROVE  FaultsCount /\ (kind = "duplicate" => ~Without({"duplicate"})')
<1>1. /\ faults \in [Faults -> Nat] /\ "duplicate" \in Faults
      /\ faults' = [faults EXCEPT ![kind] = @ + 1]
  BY Types DEF Fault, Faults
<1>2. /\ faults' \in [Faults -> Nat]
      /\ faults'["duplicate"] = IF kind = "duplicate"
                                THEN faults["duplicate"] + 1
                                ELSE faults["duplicate"]
      /\ faults["duplicate"] \in Nat
  BY <1>1
<1> QED
  BY <1>2 DEF FaultsCount, Without

\* The messages of a client go to its peer.
LEMMA MessageFields ==
    ASSUME NEW e \in Ends, NEW c \in EndType, c.peer \in Nodes,
           NEW type \in {"handshake", "keepalive", "request", "data"},
           NEW m, m = Message(e, c, type)
    PROVE  /\ DatagramOK(m) /\ m.type = type
           /\ m.from = e[1] /\ m.to = c.peer /\ m.dest = c.DestChannelID
<1>1. e[1] \in Nodes /\ c.DestChannelID \in 0..MaxChannels /\ 0 \in 0..MaxChannels
  BY BoundsAssumption DEF Ends, EndType
<1> QED
  BY <1>1 DEF Message, DatagramOK

(* What the fields of a handshake say of the end that builds it. *)
LEMMA HandShakeFields ==
    ASSUME NEW e \in Ends, NEW c \in EndType, c.peer \in Nodes, NEW have,
           NEW m, m = HandShakeMessage(e, c, have)
    PROVE  /\ DatagramOK(m) /\ m.type = "handshake" /\ Sender(m) = e
           /\ m.options = GetBuffer(config[e[1]])
           /\ m.from = e[1] /\ m.to = c.peer /\ m.dest = c.DestChannelID
<1>1. /\ e[1] \in Nodes /\ c.DestChannelID \in 0..MaxChannels
      /\ e[2] \in 0..MaxChannels /\ e = <<e[1], e[2]>>
  BY BoundsAssumption DEF Ends, EndType
<1>2. /\ m.type = "handshake" /\ m.from = e[1] /\ m.to = c.peer
      /\ m.dest = c.DestChannelID /\ m.source = e[2]
      /\ m.options = GetBuffer(config[e[1]])
  BY DEF HandShakeMessage, Message
<1> QED
  BY <1>1, <1>2 DEF DatagramOK, Sender

\* The clients that are closed, and that a datagram makes.
LEMMA NoEndType ==
    /\ NoEnd \in EndType /\ NoEnd.DestChannelID = 0
    /\ NoEnd.IsHandshaked = FALSE /\ NoEnd.SendHandshake = FALSE
BY BoundsAssumption DEF NoEnd, EndType

(* Closing an end, either way, leaves a well-typed end. *)
LEMMA ClosedType ==
    ASSUME NEW c \in EndType
    PROVE  /\ Stopped(c) \in EndType /\ Refuses(c) \in EndType
           /\ Stopped(c).at = "stopped" /\ Refuses(c).at = "refused"
           /\ Stopped(c).peer = c.peer /\ Refuses(c).peer = c.peer
<1>1. c.peer \in Nodes \cup {"none"}
  BY DEF EndType
<1> QED
  BY <1>1, NoEndType DEF Stopped, Refuses, EndType

(* The end made for an unknown peer is open and has no destination yet. *)
LEMMA InboundType ==
    ASSUME NEW p \in Nodes
    PROVE  /\ Inbound(p) \in EndType /\ Inbound(p).at = "open"
           /\ Inbound(p).peer = p /\ Inbound(p).DestChannelID = 0
           /\ ~Inbound(p).IsHandshaked /\ ~Inbound(p).SendHandshake
BY NoEndType DEF Inbound, EndType

\* The client c keeps what it knows of its channel.
Same(c, known) ==
    /\ known \in EndType /\ known.at = c.at /\ known.peer = c.peer
    /\ known.SendHandshake = c.SendHandshake
    /\ known.IsHandshaked = c.IsHandshaked
    /\ known.DestChannelID = c.DestChannelID

\* The client c has accepted the HANDSHAKE d.
Learns(c, d, known) ==
    /\ known \in EndType /\ known.at = c.at /\ known.peer = c.peer
    /\ known.SendHandshake = c.SendHandshake
    /\ known.IsHandshaked /\ known.DestChannelID = d.source

\* What any handler does: it refuses, stops, goes on, or learns a channel and
\* answers unless it was the one to open.
LEMMA Outcomes ==
    ASSUME NEW e \in Ends, NEW c \in EndType, c.at = "open", c.peer \in Nodes,
           NEW d, DatagramOK(d), NEW overread,
           NEW out \in HandleMessage(e, c, d, overread)
    PROVE  \/ /\ out.client = Refuses(c) /\ out.sent = {}
              /\ d.type = "handshake" /\ Refused(config[e[1]], d.options)
           \/ out.client = Stopped(c) /\ out.sent = {}
           \/ /\ d.type # "handshake" /\ Same(c, out.client)
              /\ \A m \in out.sent :
                    /\ c.IsHandshaked
                    /\ \E type \in {"request", "data"} :
                          m = Message(e, out.client, type)
           \/ /\ d.type = "handshake" /\ ~Refused(config[e[1]], d.options)
              /\ Learns(c, d, out.client)
              /\ \A m \in out.sent :
                    \/ m = Message(e, out.client, "request")
                    \/ /\ ~c.SendHandshake
                       /\ \E have : m = HandShakeMessage(e, out.client, have)
<1> DEFINE heard == [c EXCEPT !.SilentSec = 0]
           known == [c EXCEPT !.started = TRUE, !.SilentSec = 0,
                              !.DestChannelID = d.source, !.IsHandshaked = TRUE]
<1>1. Same(c, heard) /\ Stopped(heard) = Stopped(c)
  BY BoundsAssumption DEF Same, EndType, Stopped
<1>2. Learns(c, d, known) /\ Stopped(known) = Stopped(c)
  <2>1. /\ known.at = c.at /\ known.peer = c.peer
        /\ known.SendHandshake = c.SendHandshake
        /\ known.IsHandshaked /\ known.DestChannelID = d.source
    BY DEF EndType
  <2>2. known \in EndType
    <3>1. d.source \in 0..MaxChannels /\ 0 \in 0..(KeepAliveInterval + 1)
      BY BoundsAssumption DEF DatagramOK
    <3> QED
      BY <3>1 DEF EndType
  <2> QED
    BY <2>1, <2>2 DEF Learns, Stopped
<1> HIDE DEF heard, known
<1>3. CASE d.type = "keepalive"
  <2>1. out = Outcome(heard, {})
    BY <1>3 DEF HandleMessage, ReceiveKeepAlive, heard
  <2> QED
    BY <1>1, <1>3, <2>1 DEF Outcome
<1>4. CASE d.type \in {"request", "data"} /\ ~c.IsHandshaked
  <2>1. out = Outcome(Stopped(c), {})
    BY <1>4 DEF HandleMessage
  <2> QED
    BY <2>1 DEF Outcome
<1>5. CASE d.type = "request" /\ c.IsHandshaked
  <2>1. \E sent \in {{Message(e, heard, "data")}, {}} :
            out = Outcome(heard, sent)
    <3>1. out \in ReceiveRequest(e, c)
      BY <1>5 DEF HandleMessage
    <3>2. \A x : Message(e, heard, x) = Message(e, c, x)
      BY <1>1 DEF Message, Same
    <3> QED
      BY <3>1, <3>2 DEF ReceiveRequest, heard
  <2> QED
    BY <1>1, <1>5, <2>1 DEF Outcome
<1>6. CASE d.type = "data" /\ c.IsHandshaked
  <2>1. out \in SendNextRequest(e, heard)
    BY <1>6 DEF HandleMessage, ReceiveData, heard
  <2>2. \/ \E sent \in {{Message(e, heard, "request")}, {}} :
               out = Outcome(heard, sent)
        \/ out = Outcome(Stopped(c), {})
    BY <1>1, <2>1 DEF SendNextRequest
  <2> QED
    BY <1>1, <1>6, <2>2 DEF Outcome
<1>7. CASE d.type = "handshake"
  <2>1. out \in ReceiveHandShake(e, c, d, overread)
    BY <1>7 DEF HandleMessage
  <2>2. CASE Refused(config[e[1]], d.options)
    <3>1. out = Outcome(Refuses(c), {})
      BY <2>1, <2>2 DEF ReceiveHandShake
    <3> QED
      BY <1>7, <2>2, <3>1 DEF Outcome
  <2>3. CASE ~Refused(config[e[1]], d.options)
    <3>1. \/ out \in SendNextRequest(e, known)
          \/ out = Outcome(known, {})
          \/ ~c.SendHandshake /\ out \in SendHandShakeHave(e, known)
      BY <2>1, <2>3 DEF ReceiveHandShake, known
    <3>2. CASE out \in SendNextRequest(e, known)
      <4>1. \/ \E sent \in {{Message(e, known, "request")}, {}} :
                   out = Outcome(known, sent)
            \/ out = Outcome(Stopped(c), {})
        BY <1>2, <3>2 DEF SendNextRequest
      <4> QED
        BY <1>2, <1>7, <2>3, <4>1 DEF Outcome
    <3>3. CASE out = Outcome(known, {})
      BY <1>2, <1>7, <2>3, <3>3 DEF Outcome
    <3>4. CASE ~c.SendHandshake /\ out \in SendHandShakeHave(e, known)
      <4>1. PICK have \in BOOLEAN :
                out = Outcome(known, {HandShakeMessage(e, known, have)})
        BY <3>4 DEF SendHandShakeHave
      <4> QED
        BY <1>2, <1>7, <2>3, <3>4, <4>1 DEF Outcome
    <3> QED
      BY <3>1, <3>2, <3>3, <3>4
  <2> QED
    BY <2>2, <2>3
<1> QED
  BY <1>3, <1>4, <1>5, <1>6, <1>7 DEF DatagramOK

-----------------------------------------------------------------------------
(* Initial states and steps *)

(* No end exists and nothing was sent: the invariant holds at the start. *)
LEMMA InitInv == Init => IInv
<1> SUFFICES ASSUME Init
             PROVE  IInv
  OBVIOUS
<1>1. end \in [Ends -> EndType] /\ \A e \in Ends : end[e].at = "none"
  <2>1. NoEnd.at = "none"
    BY DEF NoEnd
  <2> QED
    BY <2>1, NoEndType DEF Init
<1>2. TypeOK
  BY <1>1, BoundsAssumption, Types DEF Init
<1>3. Numbered
  BY <1>1 DEF Init, Numbered, Made, Ends
<1>4. \A e \in Ends : Known(e) /\ RefusedRight(e) /\ Paired(e)
  BY <1>1 DEF Known, RefusedRight, Paired, Open
<1>5. Single
  BY <1>1 DEF Init, Single, Accepted, Open
<1> QED
  BY <1>2, <1>3, <1>4, <1>5 DEF IInv, Init

\* A node opens a channel: its HANDSHAKE names the new end.
LEMMA StartInv ==
    ASSUME IInv, NEW n \in Nodes, NEW p \in Nodes, Start(n, p)
    PROVE  IInv'
<1> DEFINE c == [Inbound(p) EXCEPT !.started = TRUE, !.SendHandshake = TRUE]
<1>1. PICK g \in Ends : g = NextEnd(n) /\ ~Made(g)
  BY NextEndIsNew DEF Start, UseNumber
<1>2. /\ c \in EndType /\ c.at = "open" /\ c.peer = p /\ c.SendHandshake
      /\ ~c.IsHandshaked /\ c.DestChannelID = 0
  <2>1. /\ Inbound(p) \in EndType /\ Inbound(p).at = "open"
        /\ Inbound(p).peer = p /\ Inbound(p).DestChannelID = 0
        /\ ~Inbound(p).IsHandshaked
    BY InboundType
  <2>2. c \in EndType
    BY <2>1 DEF EndType
  <2>3. c.at = "open" /\ c.peer = p /\ c.DestChannelID = 0
    BY <2>1 DEF EndType
  <2>4. c.SendHandshake /\ ~c.IsHandshaked
    BY <2>1 DEF EndType
  <2> QED
    BY <2>2, <2>3, <2>4
<1>3. /\ end' = [end EXCEPT ![g] = c] /\ UseNumber(n)
      /\ datagrams' = datagrams \cup {HandShakeMessage(g, c, FALSE)}
      /\ UNCHANGED <<config, faults>>
  BY <1>1 DEF Start
<1>4. HandShakeMessage(g, c, FALSE) = HandShakeMessage(g, Inbound(p), FALSE)
  <2>1. Message(g, c, "handshake") = Message(g, Inbound(p), "handshake")
    BY <1>2, InboundType DEF Message
  <2> QED
    BY <2>1 DEF HandShakeMessage
<1> HIDE DEF c
<1>5. /\ end' \in [Ends -> EndType] /\ end'[g] = c
      /\ \A e \in Ends \ {g} : end'[e] = end[e]
  BY <1>2, <1>3, Types DEF IInv
<1>6. \A e \in Ends \ {g} : Fades(e)
  BY <1>5 DEF Fades, Made, Open
<1>7. Numbered' /\ NextChannelID' \in [Nodes -> 1..(MaxChannels + 1)]
  BY <1>1, <1>2, <1>3, <1>5, <1>6, NumberedNext DEF Made
<1>8. ASSUME NEW d \in datagrams'
      PROVE  /\ Reaches(d)
             /\ d \in datagrams \/ (Opening(d) /\ Sender(d) \in {g})
  <2>1. CASE d \in datagrams
    <3>1. d.dest # 0 => Target(d) \in Ends \ {g} /\ Open(Target(d))
      BY <1>1, <2>1, TargetIsEnd
    <3>2. d.dest # 0 => end'[Target(d)].at = "open"
      BY <1>5, <3>1 DEF Open
    <3>3. DatagramOK(d)
      BY <2>1, Types DEF IInv
    <3> QED
      BY <2>1, <3>2, <3>3 DEF Reaches
  <2>2. CASE d = HandShakeMessage(g, c, FALSE)
    <3>1. /\ DatagramOK(d) /\ d.type = "handshake" /\ Sender(d) = g
          /\ d.to = p /\ d.dest = 0
      BY <1>2, <2>2, HandShakeFields
    <3>2. d = HandShakeMessage(Sender(d), Inbound(d.to), FALSE)
      BY <1>4, <2>2, <3>1
    <3> QED
      BY <1>2, <1>5, <3>1, <3>2 DEF Reaches, Opening, Opens
  <2> QED
    BY <1>3, <2>1, <2>2
<1>9. FaultsCount
  BY <1>3, Types DEF IInv, FaultsCount, Without
<1>10. \A e \in Ends : RefusedRight(e)'
  BY <1>2, <1>3, <1>5 DEF IInv, RefusedRight
<1>11. Open(g)' => ~end'[g].IsHandshaked /\ end'[g].DestChannelID = 0
  BY <1>2, <1>5
<1> QED
  <2>1. {g} \in SUBSET Ends /\ \A f \in {g} : ~Made(f)
    BY <1>1
  <2>2. \A f \in {g} : Open(f)' => /\ ~end'[f].IsHandshaked
                                   /\ end'[f].DestChannelID = 0
    BY <1>11
  <2> QED
    BY <1>3, <1>5, <1>6, <1>7, <1>8, <1>9, <1>10, <2>1, <2>2, QuietStep

\* A datagram is lost: nothing else happens.
LEMMA LoseInv ==
    ASSUME IInv, NEW d \in datagrams, Lose(d)
    PROVE  IInv'
<1>1. UNCHANGED <<config, NextChannelID, end>> /\ datagrams' \subseteq datagrams
  BY DEF Lose
<1>2. FaultsCount
  BY FaultIsCounted DEF IInv, Lose, Faults
<1>3. \A e \in Ends : Fades(e) /\ RefusedRight(e)'
  BY <1>1 DEF IInv, Fades, RefusedRight, Made, Open
<1>4. \A m \in datagrams' : Reaches(m) /\ m \in datagrams
  BY <1>1, Types, TargetIsEnd DEF IInv, Reaches, Open
<1>5. Numbered'
  BY <1>1, <1>3, NumberedKept
<1>6. /\ end' \in [Ends -> EndType]
      /\ NextChannelID' \in [Nodes -> 1..(MaxChannels + 1)]
  BY <1>1, Types DEF IInv
<1> QED
  <2>1. {} \in SUBSET Ends
    OBVIOUS
  <2> QED
    BY <1>1, <1>2, <1>3, <1>4, <1>5, <1>6, <2>1, QuietStep

\* The keep-alive thread closes its end or counts, and what it sends goes where
\* all messages of the end go.
LEMMA KeepAliveCheckInv ==
    ASSUME IInv, NEW e \in Ends, KeepAliveCheck(e)
    PROVE  IInv'
<1> DEFINE c == end[e]
           counted == [c EXCEPT !.SilentSec = @ + 1, !.sendcnt = @ + 1]
<1>1. /\ end \in [Ends -> EndType] /\ c \in EndType /\ Open(e) /\ Made(e)
      /\ UNCHANGED <<config, NextChannelID, faults>>
  BY Types DEF IInv, KeepAliveCheck, Open, Made
<1>2. PICK k \in EndType :
          /\ end' = [end EXCEPT ![e] = k] /\ k.peer = end[e].peer
          /\ \/ k.at = "stopped"
             \/ /\ k.at = "open" /\ k.IsHandshaked = end[e].IsHandshaked
                /\ k.SendHandshake = end[e].SendHandshake
                /\ k.DestChannelID = end[e].DestChannelID
  <2>1. CASE KeepAliveInterval < c.SilentSec
    <3>1. end' = [end EXCEPT ![e] = Stopped(c)]
      BY <2>1 DEF KeepAliveCheck
    <3> QED
      BY <1>1, <3>1, ClosedType
  <2>2. CASE ~(KeepAliveInterval < c.SilentSec)
    <3>1. end' = [end EXCEPT ![e] = Sends(counted)]
      BY <2>2 DEF KeepAliveCheck
    <3>2. /\ c.SilentSec + 1 \in 0..(KeepAliveInterval + 1)
          /\ c.sendcnt + 1 \in Nat /\ 0 \in 0..KeepAliveInterval
      BY <1>1, <2>2, BoundsAssumption DEF EndType
    <3>3. /\ counted.sendcnt = c.sendcnt + 1
          /\ counted.at = c.at /\ counted.peer = c.peer
          /\ counted.IsHandshaked = c.IsHandshaked
          /\ counted.SendHandshake = c.SendHandshake
          /\ counted.DestChannelID = c.DestChannelID
      BY <1>1 DEF EndType
    <3>4. CASE 5 * counted.sendcnt > 4 * KeepAliveInterval
      <4>1. Sends(counted) = [counted EXCEPT !.sendcnt = 0]
        BY <3>4 DEF Sends
      <4>2. [counted EXCEPT !.sendcnt = 0] \in EndType
        BY <1>1, <3>2 DEF EndType
      <4> QED
        BY <1>1, <3>1, <3>3, <4>1, <4>2 DEF Open, EndType
    <3>5. CASE ~(5 * counted.sendcnt > 4 * KeepAliveInterval)
      <4>1. Sends(counted) = counted
        BY <3>5 DEF Sends
      <4>2. c.sendcnt + 1 \in 0..KeepAliveInterval
        BY <3>2, <3>3, <3>5, BoundsAssumption
      <4>3. counted \in EndType
        BY <1>1, <3>2, <4>2 DEF EndType
      <4> QED
        BY <1>1, <3>1, <3>3, <4>1, <4>3 DEF Open
    <3> QED
      BY <3>4, <3>5
  <2> QED
    BY <2>1, <2>2
<1>3. /\ end' \in [Ends -> EndType] /\ end'[e] = k
      /\ \A f \in Ends \ {e} : end'[f] = end[f]
  BY <1>1, <1>2
<1>4. \A f \in Ends : Fades(f) /\ RefusedRight(f)'
  <2>1. TAKE f \in Ends
  <2>2. Fades(f)
    BY <1>1, <1>2, <1>3 DEF Fades, Made, Open
  <2>3. RefusedRight(f)'
    BY <1>1, <1>2, <1>3 DEF IInv, RefusedRight
  <2> QED
    BY <2>2, <2>3
<1>5. ASSUME NEW d \in datagrams'
      PROVE  Reaches(d) /\ (d \in datagrams \/ Plain(d))
  <2>1. /\ d \in datagrams \/ d = Message(e, c, "keepalive")
        /\ d.dest = 0 \/ end'[<<d.to, d.dest>>].at = "open"
    BY DEF KeepAliveCheck, Reaching
  <2>2. d.dest # 0 => end'[Target(d)].at = "open"
    BY <2>1 DEF Target
  <2>3. CASE d \in datagrams
    <3>1. DatagramOK(d)
      BY <2>3, Types DEF IInv
    <3> QED
      BY <2>2, <2>3, <3>1 DEF Reaches
  <2>4. CASE d = Message(e, c, "keepalive")
    <3>1. c.peer \in Nodes
      BY <1>1 DEF IInv, Numbered
    <3>2. /\ DatagramOK(d) /\ d.type = "keepalive"
          /\ d.from = e[1] /\ d.to = c.peer /\ d.dest = c.DestChannelID
      BY <1>1, <2>4, <3>1, MessageFields
    <3>3. d.dest # 0 => end'[Target(d)].peer = d.from
      <4>1. SUFFICES ASSUME d.dest # 0
                     PROVE  end'[Target(d)].peer = d.from
        OBVIOUS
      <4>2. PICK o \in Ends : o = Other(e) /\ end[o].peer = e[1]
        BY <1>1, <3>2, <4>1, OtherIsEnd DEF IInv, Known
      <4>3. Target(d) = o
        BY <3>2, <4>2 DEF Target, Other
      <4> QED
        BY <1>4, <3>2, <4>2, <4>3 DEF Fades
    <3> QED
      BY <2>2, <3>2, <3>3 DEF Reaches, Plain
  <2> QED
    BY <2>1, <2>3, <2>4
<1>6. FaultsCount
  BY <1>1, Types DEF IInv, FaultsCount, Without
<1>7. Numbered' /\ NextChannelID' \in [Nodes -> 1..(MaxChannels + 1)]
  BY <1>1, <1>4, Types, NumberedKept DEF IInv
<1> QED
  <2>1. {} \in SUBSET Ends
    OBVIOUS
  <2> QED
    BY <1>1, <1>3, <1>4, <1>5, <1>6, <1>7, <2>1, QuietStep

\* The faults of a datagram's delivery are counted. Without duplicates it is no
\* longer in flight, unless it is sent again.
LEMMA DeliveryCounts ==
    ASSUME TypeOK, NEW d, NEW overread \in BOOLEAN, NEW duplicate \in BOOLEAN,
           overread => ~duplicate,
           CASE overread  -> Fault("overread")
             [] duplicate -> Fault("duplicate")
             [] OTHER     -> UNCHANGED faults
    PROVE  FaultsCount /\ (duplicate => ~Without({"duplicate"})')
<1>1. "overread" \in Faults /\ "duplicate" \in Faults
  BY DEF Faults
<1>2. CASE overread
  <2>1. Fault("overread") /\ ~duplicate
    BY <1>2
  <2> QED
    BY <1>1, <2>1, FaultIsCounted
<1>3. CASE ~overread /\ duplicate
  <2>1. Fault("duplicate")
    BY <1>3
  <2> QED
    BY <1>1, <2>1, FaultIsCounted
<1>4. CASE ~overread /\ ~duplicate
  <2>1. UNCHANGED faults
    BY <1>4
  <2> QED
    BY <1>4, <2>1, Types DEF FaultsCount, Without
<1> QED
  BY <1>2, <1>3, <1>4

\* What PPServer::Receive does with a datagram, in the words of the lemmas.
LEMMA Delivery ==
    ASSUME IInv, NEW d \in datagrams, Receive(d),
           NEW e, e = (IF d.dest = 0 THEN NextEnd(d.to) ELSE Target(d)),
           NEW c, c = (IF d.dest = 0 THEN Inbound(d.from) ELSE end[e])
    PROVE  /\ DatagramOK(d) /\ e \in Ends /\ e[1] = d.to
           /\ c \in EndType /\ c.at = "open" /\ c.peer = d.from
           /\ d.dest = 0 => ~Made(e) /\ UseNumber(d.to)
           /\ d.dest # 0 => UNCHANGED NextChannelID
           /\ UNCHANGED config /\ FaultsCount
           /\ \E overread \in BOOLEAN : \E out \in HandleMessage(e, c, d, overread) :
                 /\ end' = [end EXCEPT ![e] = out.client]
                 /\ \A m \in datagrams' :
                       /\ m.dest # 0 => end'[Target(m)].at = "open"
                       /\ m \in datagrams \/ m \in out.sent
                       /\ Without({"duplicate"})' => m # d \/ m \in out.sent
<1>1. DatagramOK(d)
  BY Types DEF IInv
<1>2. /\ e \in Ends /\ e[1] = d.to
      /\ d.dest = 0 => ~Made(e) /\ UseNumber(d.to)
      /\ d.dest # 0 => UNCHANGED NextChannelID
  <2>1. CASE d.dest = 0
    <3>1. UseNumber(d.to) /\ d.to \in Nodes /\ e = NextEnd(d.to)
      BY <1>1, <2>1 DEF Receive, DatagramOK
    <3>2. e \in Ends /\ ~Made(e)
      BY <3>1, NextEndIsNew DEF UseNumber
    <3> QED
      BY <2>1, <3>1, <3>2 DEF NextEnd
  <2>2. CASE d.dest # 0
    BY <2>2, TargetIsEnd DEF Receive, Target
  <2> QED
    BY <2>1, <2>2
<1>3. c \in EndType /\ c.at = "open" /\ c.peer = d.from
  <2>1. CASE d.dest = 0
    BY <1>1, <2>1, InboundType DEF DatagramOK
  <2>2. CASE d.dest # 0
    BY <1>2, <2>2, TargetIsEnd, Types DEF IInv, Sound, Open
  <2> QED
    BY <2>1, <2>2
<1>4. PICK overread \in BOOLEAN, duplicate \in BOOLEAN :
          /\ overread => d.type = "handshake" /\ ~d.have /\ ~duplicate
          /\ CASE overread  -> Fault("overread")
               [] duplicate -> Fault("duplicate")
               [] OTHER     -> UNCHANGED faults
          /\ \E out \in HandleMessage(e, c, d, overread) :
                /\ end' = [end EXCEPT ![e] = out.client]
                /\ datagrams' = Reaching(out.sent \cup
                      (IF duplicate THEN datagrams ELSE datagrams \ {d}))
  BY DEF Receive, Target
<1>5. FaultsCount /\ (duplicate => ~Without({"duplicate"})')
  <2>1. overread => ~duplicate
    BY <1>4
  <2> QED
    BY <1>4, <2>1, DeliveryCounts DEF IInv
<1>6. PICK out \in HandleMessage(e, c, d, overread) :
          /\ end' = [end EXCEPT ![e] = out.client]
          /\ datagrams' = Reaching(out.sent \cup
                (IF duplicate THEN datagrams ELSE datagrams \ {d}))
  BY <1>4
<1>7. ASSUME NEW m \in datagrams'
      PROVE  /\ m.dest # 0 => end'[Target(m)].at = "open"
             /\ m \in datagrams \/ m \in out.sent
             /\ Without({"duplicate"})' => m # d \/ m \in out.sent
  <2>1. /\ m \in out.sent \cup
              (IF duplicate THEN datagrams ELSE datagrams \ {d})
        /\ m.dest = 0 \/ end'[<<m.to, m.dest>>].at = "open"
    BY <1>6 DEF Reaching
  <2> QED
    BY <1>5, <2>1 DEF Target
<1>8. UNCHANGED config
  BY DEF Receive
<1> QED
  BY <1>1, <1>2, <1>3, <1>5, <1>6, <1>7, <1>8

\* A datagram to channel 0 makes an end, which learns of its peer's channel from
\* a HANDSHAKE it accepts and knows of none otherwise.
LEMMA ReceiveNewInv ==
    ASSUME IInv, NEW d \in datagrams, Receive(d), d.dest = 0
    PROVE  IInv'
<1> DEFINE c == Inbound(d.from)
<1>1. PICK g : g = NextEnd(d.to)
  OBVIOUS
<1>2. /\ DatagramOK(d) /\ g \in Ends /\ g[1] = d.to /\ ~Made(g)
      /\ c \in EndType /\ c.at = "open" /\ c.peer = d.from
      /\ UseNumber(d.to) /\ UNCHANGED config /\ FaultsCount
  BY <1>1, Delivery
<1>3. PICK overread \in BOOLEAN : \E out \in HandleMessage(g, c, d, overread) :
          /\ end' = [end EXCEPT ![g] = out.client]
          /\ \A m \in datagrams' :
                /\ m.dest # 0 => end'[Target(m)].at = "open"
                /\ m \in datagrams \/ m \in out.sent
                /\ Without({"duplicate"})' => m # d \/ m \in out.sent
  BY <1>1, Delivery
<1>4. PICK out \in HandleMessage(g, c, d, overread) :
          /\ end' = [end EXCEPT ![g] = out.client]
          /\ \A m \in datagrams' :
                /\ m.dest # 0 => end'[Target(m)].at = "open"
                /\ m \in datagrams \/ m \in out.sent
                /\ Without({"duplicate"})' => m # d \/ m \in out.sent
  BY <1>3
<1>5. d.from \in Nodes /\ d.to \in Nodes
  BY <1>2 DEF DatagramOK
<1>6. /\ ~c.IsHandshaked /\ ~c.SendHandshake /\ c.DestChannelID = 0
  BY <1>5, InboundType
<1> HIDE DEF c
<1>7. /\ out.client \in EndType /\ out.client.peer = d.from
      /\ out.client.at # "none"
      /\ \/ /\ out.sent = {}
            /\ out.client.at = "open" => /\ ~out.client.IsHandshaked
                                         /\ out.client.DestChannelID = 0
            /\ out.client.at = "refused" =>
                  d.type = "handshake" /\ Refused(config[g[1]], d.options)
         \/ /\ d.type = "handshake" /\ ~Refused(config[g[1]], d.options)
            /\ Learns(c, d, out.client)
            /\ \A m \in out.sent :
                  \/ m = Message(g, out.client, "request")
                  \/ \E have : m = HandShakeMessage(g, out.client, have)
  <2>1. \/ /\ out.client = Refuses(c) /\ out.sent = {}
           /\ d.type = "handshake" /\ Refused(config[g[1]], d.options)
        \/ out.client = Stopped(c) /\ out.sent = {}
        \/ Same(c, out.client) /\ out.sent = {}
        \/ /\ d.type = "handshake" /\ ~Refused(config[g[1]], d.options)
           /\ Learns(c, d, out.client)
           /\ \A m \in out.sent :
                 \/ m = Message(g, out.client, "request")
                 \/ \E have : m = HandShakeMessage(g, out.client, have)
    BY <1>2, <1>5, <1>6, Outcomes
  <2> QED
    BY <1>2, <1>6, <2>1, ClosedType DEF Same, Learns
<1>8. /\ end \in [Ends -> EndType] /\ end' \in [Ends -> EndType]
      /\ end'[g] = out.client /\ \A e \in Ends \ {g} : end'[e] = end[e]
  BY <1>2, <1>4, <1>7, Types DEF IInv
<1>9. \A e \in Ends \ {g} : Fades(e)
  BY <1>8 DEF Fades, Made, Open
<1>10. Numbered' /\ NextChannelID' \in [Nodes -> 1..(MaxChannels + 1)]
  BY <1>1, <1>2, <1>5, <1>7, <1>8, <1>9, NumberedNext DEF Made
<1>11. d.type = "handshake" =>
           d.options = GetBuffer(config[d.from]) /\ Opens(d)
  BY DEF IInv, Sound, Opens
<1>12. CASE /\ out.sent = {}
            /\ out.client.at = "open" => /\ ~out.client.IsHandshaked
                                         /\ out.client.DestChannelID = 0
            /\ out.client.at = "refused" =>
                  d.type = "handshake" /\ Refused(config[g[1]], d.options)
  <2>1. {g} \in SUBSET Ends /\ \A f \in {g} : ~Made(f)
    BY <1>2
  <2>2. \A f \in {g} : Open(f)' => /\ ~end'[f].IsHandshaked
                                   /\ end'[f].DestChannelID = 0
    BY <1>8, <1>12 DEF Open
  <2>3. \A e \in Ends : RefusedRight(e)'
    BY <1>2, <1>7, <1>8, <1>11, <1>12 DEF IInv, RefusedRight
  <2>4. \A m \in datagrams' : Reaches(m) /\ m \in datagrams
    BY <1>4, <1>12, Types DEF IInv, Reaches
  <2> QED
    BY <1>2, <1>8, <1>9, <1>10, <2>1, <2>2, <2>3, <2>4, QuietStep
<1>13. CASE /\ d.type = "handshake" /\ ~Refused(config[g[1]], d.options)
            /\ Learns(c, d, out.client)
            /\ \A m \in out.sent :
                  \/ m = Message(g, out.client, "request")
                  \/ \E have : m = HandShakeMessage(g, out.client, have)
  <2>1. /\ out.client \in EndType /\ out.client.at = "open"
        /\ out.client.peer = d.from /\ ~out.client.SendHandshake
        /\ out.client.IsHandshaked /\ out.client.DestChannelID = d.source
    BY <1>2, <1>6, <1>7, <1>13 DEF Learns
  <2>2. Sender(d) \in Ends /\ Made(Sender(d)) /\ end[Sender(d)].peer = d.to
    BY <1>13 DEF IInv, Sound
  <2>3. d.source # 0
    <3>1. Sender(d)[2] = d.source /\ Sender(d)[2] \in 1..MaxChannels
      BY <2>2 DEF Ends, Sender
    <3> QED
      BY <3>1, BoundsAssumption
  <2>4. ASSUME NEW m \in out.sent
        PROVE  /\ DatagramOK(m) /\ m.dest # 0
               /\ Plain(m) \/ AnswerTo(m, d, g)
    <3>1. CASE m = Message(g, out.client, "request")
      <4>1. /\ DatagramOK(m) /\ m.type = "request"
            /\ m.from = g[1] /\ m.to = d.from /\ m.dest = d.source
        BY <1>2, <1>5, <2>1, <3>1, MessageFields
      <4>2. Target(m) = Sender(d)
        BY <4>1 DEF Target, Sender
      <4>3. end'[Target(m)].peer = m.from
        BY <1>2, <1>8, <2>2, <4>1, <4>2
      <4> QED
        BY <2>3, <4>1, <4>3 DEF Plain
    <3>2. CASE \E have : m = HandShakeMessage(g, out.client, have)
      <4>1. /\ DatagramOK(m) /\ m.type = "handshake" /\ Sender(m) = g
            /\ m.options = GetBuffer(config[g[1]])
            /\ m.to = d.from /\ m.dest = d.source
        BY <1>2, <1>5, <2>1, <3>2, HandShakeFields
      <4> QED
        BY <2>3, <4>1 DEF AnswerTo
    <3> QED
      BY <1>13, <3>1, <3>2
  <2>5. \A m \in datagrams' :
            Reaches(m) /\ (m \in datagrams \/ Plain(m) \/ AnswerTo(m, d, g))
    BY <1>4, <2>4, Types DEF IInv, Reaches
  <2>6. Without({"duplicate"})' => d \notin datagrams'
    BY <1>4, <2>4
  <2> QED
    BY <1>2, <1>4, <1>10, <1>11, <1>13, <2>1, <2>5, <2>6, AcceptStep
<1> QED
  BY <1>7, <1>12, <1>13

\* A datagram to an open end: it fades, or is the end that opened its channel
\* and accepts the answer.
LEMMA ReceiveKnownInv ==
    ASSUME IInv, NEW d \in datagrams, Receive(d), d.dest # 0
    PROVE  IInv'
<1> DEFINE c == end[Target(d)]
<1>1. PICK e : e = Target(d)
  OBVIOUS
<1>2. /\ DatagramOK(d) /\ e \in Ends /\ e[1] = d.to /\ c = end[e]
      /\ c \in EndType /\ c.at = "open" /\ c.peer = d.from
      /\ UNCHANGED <<config, NextChannelID>> /\ FaultsCount
  BY <1>1, Delivery
<1>3. PICK overread \in BOOLEAN : \E out \in HandleMessage(e, c, d, overread) :
          /\ end' = [end EXCEPT ![e] = out.client]
          /\ \A m \in datagrams' :
                /\ m.dest # 0 => end'[Target(m)].at = "open"
                /\ m \in datagrams \/ m \in out.sent
  BY <1>1, Delivery
<1>4. PICK out \in HandleMessage(e, c, d, overread) :
          /\ end' = [end EXCEPT ![e] = out.client]
          /\ \A m \in datagrams' :
                /\ m.dest # 0 => end'[Target(m)].at = "open"
                /\ m \in datagrams \/ m \in out.sent
  BY <1>3
<1>5. d.from \in Nodes
  BY <1>2 DEF DatagramOK
<1> HIDE DEF c
<1>6. d.type = "handshake" =>
          /\ Answers(d) /\ d.options = GetBuffer(config[d.from])
          /\ c.SendHandshake
          /\ Sender(d) \in Ends /\ end[Sender(d)].peer = d.to
  BY <1>1, <1>2 DEF IInv, Sound, Answers
<1>7. \/ /\ out.client = Refuses(c) /\ out.sent = {}
         /\ d.type = "handshake" /\ Refused(config[e[1]], d.options)
      \/ out.client = Stopped(c) /\ out.sent = {}
      \/ /\ Same(c, out.client)
         /\ \A m \in out.sent :
               /\ c.IsHandshaked
               /\ \E type \in {"request", "data"} :
                     m = Message(e, out.client, type)
      \/ /\ d.type = "handshake" /\ ~Refused(config[e[1]], d.options)
         /\ Learns(c, d, out.client)
         /\ \A m \in out.sent : m = Message(e, out.client, "request")
  BY <1>2, <1>5, <1>6, Outcomes
<1>8. out.client \in EndType /\ out.client.peer = d.from
  BY <1>2, <1>7, ClosedType DEF Same, Learns
<1>9. /\ end \in [Ends -> EndType] /\ end' \in [Ends -> EndType]
      /\ end'[e] = out.client /\ \A f \in Ends \ {e} : end'[f] = end[f]
  BY <1>2, <1>4, <1>8, Types DEF IInv
<1>10. \A f \in Ends : end'[f].peer = end[f].peer
  BY <1>2, <1>8, <1>9
<1>11. ASSUME NEW m \in out.sent, NEW type \in {"request", "data"},
              m = Message(e, out.client, type),
              NEW o \in Ends, o = <<d.from, out.client.DestChannelID>>,
              end[o].peer = e[1]
       PROVE  DatagramOK(m) /\ Plain(m)
  <2>1. /\ DatagramOK(m) /\ m.type = type /\ m.from = e[1]
        /\ m.to = d.from /\ m.dest = out.client.DestChannelID
    BY <1>2, <1>5, <1>8, <1>11, MessageFields
  <2>2. Target(m) = o
    BY <1>11, <2>1 DEF Target
  <2> QED
    BY <1>10, <1>11, <2>1, <2>2 DEF Plain
<1>12. CASE ~Learns(c, d, out.client) \/ d.type # "handshake"
            \/ Refused(config[e[1]], d.options)
  <2>1. \/ /\ out.client = Refuses(c) /\ out.sent = {}
           /\ d.type = "handshake" /\ Refused(config[e[1]], d.options)
        \/ out.client = Stopped(c) /\ out.sent = {}
        \/ /\ Same(c, out.client)
           /\ \A m \in out.sent :
                 /\ c.IsHandshaked
                 /\ \E type \in {"request", "data"} :
                       m = Message(e, out.client, type)
    BY <1>7, <1>12
  <2>2. Open(e) /\ Made(e)
    BY <1>2 DEF Open, Made
  <2>3. \A f \in Ends : Fades(f)
    <3>1. Fades(e)
      BY <1>2, <1>9, <1>10, <2>1, <2>2, ClosedType DEF Fades, Same, Made, Open
    <3> QED
      BY <1>9, <3>1 DEF Fades, Made, Open
  <2>4. \A f \in Ends : RefusedRight(f)'
    <3>1. RefusedRight(e)'
      BY <1>2, <1>6, <1>8, <1>9, <2>1, ClosedType DEF RefusedRight, Same
    <3> QED
      BY <1>2, <1>9, <3>1 DEF IInv, RefusedRight
  <2>5. ASSUME NEW m \in out.sent
        PROVE  DatagramOK(m) /\ Plain(m)
    <3>1. Same(c, out.client) /\ c.IsHandshaked
      BY <2>1
    <3>2. PICK type \in {"request", "data"} : m = Message(e, out.client, type)
      BY <2>1
    <3>3. PICK o \in Ends : o = Other(e) /\ end[o].peer = e[1]
      BY <1>2, <2>2, <3>1, OtherIsEnd DEF IInv, Known
    <3>4. o = <<d.from, out.client.DestChannelID>>
      BY <1>2, <3>1, <3>3 DEF Same, Other
    <3> QED
      BY <1>11, <3>2, <3>3, <3>4
  <2>6. \A m \in datagrams' : Reaches(m) /\ (m \in datagrams \/ Plain(m))
    BY <1>4, <2>5, Types DEF IInv, Reaches
  <2>7. Numbered' /\ NextChannelID' \in [Nodes -> 1..(MaxChannels + 1)]
    BY <1>2, <2>3, Types, NumberedKept DEF IInv
  <2>8. {} \in SUBSET Ends
    OBVIOUS
  <2> QED
    BY <1>2, <1>9, <2>3, <2>4, <2>6, <2>7, <2>8, QuietStep
<1>13. CASE /\ d.type = "handshake" /\ ~Refused(config[e[1]], d.options)
            /\ Learns(c, d, out.client)
  <2>1. /\ out.client.at = "open" /\ out.client.peer = end[e].peer
        /\ out.client.SendHandshake = end[e].SendHandshake
        /\ out.client.IsHandshaked /\ out.client.DestChannelID = d.source
    BY <1>2, <1>13 DEF Learns
  <2>2. ASSUME NEW m \in out.sent
        PROVE  DatagramOK(m) /\ Plain(m)
    <3>1. PICK type \in {"request", "data"} : m = Message(e, out.client, type)
      BY <1>7, <1>13
    <3>2. PICK o \in Ends : /\ o = <<d.from, out.client.DestChannelID>>
                            /\ end[o].peer = e[1]
      BY <1>2, <1>6, <1>13, <2>1 DEF Sender
    <3> QED
      BY <1>11, <3>1, <3>2
  <2>3. \A m \in datagrams' : Reaches(m) /\ (m \in datagrams \/ Plain(m))
    BY <1>4, <2>2, Types DEF IInv, Reaches
  <2> QED
    BY <1>1, <1>2, <1>4, <1>6, <1>8, <1>13, <2>1, <2>3, LearnStep
<1> QED
  BY <1>12, <1>13

\* The invariant is about these variables.
LEMMA StutterInv ==
    ASSUME IInv, UNCHANGED vars
    PROVE  IInv'
<1>1. \A e \in Ends : Fades(e) /\ RefusedRight(e)'
  BY DEF IInv, vars, Fades, RefusedRight, Made, Open
<1>2. /\ FaultsCount /\ end' \in [Ends -> EndType]
      /\ NextChannelID' \in [Nodes -> 1..(MaxChannels + 1)]
      /\ UNCHANGED <<config, NextChannelID>>
  BY Types DEF IInv, vars, FaultsCount, Without
<1>3. Numbered'
  BY <1>1, <1>2, NumberedKept
<1>4. \A m \in datagrams' : Reaches(m) /\ m \in datagrams
  BY Types, TargetIsEnd DEF IInv, vars, Reaches, Open
<1>5. {} \in SUBSET Ends
  OBVIOUS
<1> QED
  BY <1>1, <1>2, <1>3, <1>4, <1>5, QuietStep

\* Every step keeps the invariant.
LEMMA StepInv == IInv /\ [Next]_vars => IInv'
<1> SUFFICES ASSUME IInv, [Next]_vars
             PROVE  IInv'
  OBVIOUS
<1>1. CASE UNCHANGED vars
  BY <1>1, StutterInv
<1>2. ASSUME NEW n \in Nodes, NEW p \in Nodes, Start(n, p)
      PROVE  IInv'
  BY <1>2, StartInv
<1>3. ASSUME NEW d \in datagrams, Receive(d)
      PROVE  IInv'
  BY <1>3, ReceiveNewInv, ReceiveKnownInv
<1>4. ASSUME NEW d \in datagrams, Lose(d)
      PROVE  IInv'
  BY <1>4, LoseInv
<1>5. ASSUME NEW e \in Ends, KeepAliveCheck(e)
      PROVE  IInv'
  BY <1>5, KeepAliveCheckInv
<1> QED
  BY <1>1, <1>2, <1>3, <1>4, <1>5 DEF Next

\* The invariant holds in every state of a behaviour.
LEMMA Inductive == Spec => []IInv
BY InitInv, StepInv, PTL DEF Spec

-----------------------------------------------------------------------------
(* What a node reads in a HANDSHAKE *)

\* Create reads what GetBuffer wrote: all of a parameter, none of a chunk size
\* of 0.
LEMMA ParametersRead ==
    ASSUME NEW info, NEW p \in Parameters, p # "ChunkSize" \/ info.ChunkSize > 0
    PROVE  /\ p \in DOMAIN GetBuffer(info)
           /\ Create(GetBuffer(info), p) = info[p]
<1> DEFINE sent == (Parameters \ {"ChunkSize"}) \cup {"SwarmIdentifier"} \cup
                   (IF info.ChunkSize > 0 THEN {"ChunkSize"} ELSE {})
<1>1. p \in sent /\ p # "SwarmIdentifier"
  BY DEF Parameters
<1>2. GetBuffer(info) =
        [option \in sent |->
            IF option = "SwarmIdentifier" THEN GetHashFromString(info.SwarmID)
                                          ELSE info[option]]
  BY DEF GetBuffer
<1> HIDE DEF sent
<1>3. DOMAIN GetBuffer(info) = sent /\ GetBuffer(info)[p] = info[p]
  BY <1>1, <1>2
<1> QED
  BY <1>1, <1>3 DEF Create

(* The swarm identifier is read back as its hash was written. *)
LEMMA SwarmRead ==
    ASSUME NEW info
    PROVE  Create(GetBuffer(info), "SwarmIdentifier") =
               GetStringFromHash(GetHashFromString(info.SwarmID))
<1>1. /\ "SwarmIdentifier" \in DOMAIN GetBuffer(info)
      /\ GetBuffer(info)["SwarmIdentifier"] = GetHashFromString(info.SwarmID)
  BY DEF GetBuffer
<1> QED
  BY <1>1 DEF Create

\* Two nodes that accept each other's HANDSHAKE have the same parameters: a
\* chunk size of 0, which is not sent, is compared by the node that has another.
LEMMA AcceptedAgree ==
    ASSUME NEW mine, NEW other, mine.ChunkSize \in Nat, other.ChunkSize \in Nat,
           ~Refused(mine, GetBuffer(other)), ~Refused(other, GetBuffer(mine)),
           NEW p \in Parameters
    PROVE  mine[p] = other[p]
<1>1. /\ p \in DOMAIN GetBuffer(other) =>
             mine[p] = Create(GetBuffer(other), p)
      /\ p \in DOMAIN GetBuffer(mine) =>
             other[p] = Create(GetBuffer(mine), p)
  BY DEF Refused, Differs
<1>2. CASE p # "ChunkSize" \/ other.ChunkSize > 0
  BY <1>1, <1>2, ParametersRead
<1>3. CASE p # "ChunkSize" \/ mine.ChunkSize > 0
  BY <1>1, <1>3, ParametersRead
<1>4. CASE p = "ChunkSize" /\ ~(other.ChunkSize > 0) /\ ~(mine.ChunkSize > 0)
  BY <1>4
<1> QED
  BY <1>2, <1>3, <1>4

\* A swarm named by a SHA-1 in lower case.
ShortName(info) ==
    \E head : info.SwarmID = [head |-> head, tail |-> NoTail, upper |-> FALSE]

\* A supported node refuses none with its parameters and the same short name.
LEMMA EqualNotRefused ==
    ASSUME NEW mine, NEW other, ShortName(other), Supported(mine),
           mine.SwarmID = other.SwarmID, \A p \in Parameters : mine[p] = other[p]
    PROVE  ~Refused(mine, GetBuffer(other))
<1>1. mine.SwarmID = Create(GetBuffer(other), "SwarmIdentifier")
  <2>1. PICK head :
            other.SwarmID = [head |-> head, tail |-> NoTail, upper |-> FALSE]
    BY DEF ShortName
  <2>2. GetHashFromString(other.SwarmID) = [head |-> head, tail |-> NoTail]
    BY <2>1 DEF GetHashFromString
  <2>3. GetStringFromHash([head |-> head, tail |-> NoTail]) =
            [head |-> head, tail |-> NoTail, upper |-> FALSE]
    BY DEF GetStringFromHash
  <2> QED
    BY <2>1, <2>2, <2>3, SwarmRead
<1>2. ~Differs(mine, GetBuffer(other))
  <2>1. SUFFICES ASSUME NEW p \in Parameters, p \in DOMAIN GetBuffer(other)
                 PROVE  mine[p] = Create(GetBuffer(other), p)
    BY DEF Differs
  <2>2. p # "ChunkSize" \/ other.ChunkSize > 0
    BY <2>1 DEF GetBuffer
  <2> QED
    BY <2>2, ParametersRead
<1>3. Supported([p \in Parameters |-> Create(GetBuffer(other), p)])
  <2>1. ASSUME NEW p \in Parameters, p # "ChunkSize"
        PROVE  Create(GetBuffer(other), p) = mine[p]
    BY <2>1, ParametersRead
  <2> QED
    BY <2>1 DEF Supported, Parameters
<1> QED
  BY <1>1, <1>2, <1>3 DEF Refused

-----------------------------------------------------------------------------
(* The theorems *)

\* Every client and every datagram keeps its type: an end counts no more ticks
\* than the interval and one, and sends before its count passes the interval.
THEOREM ChannelTypeCorrect == Spec => []TypeOK
<1>1. IInv => TypeOK
  BY DEF IInv
<1> QED
  BY <1>1, Inductive, PTL

\* For any network that loses, duplicates and delays: an end sends to an open end
\* only if that was made for its node, the end that opened the channel to one
\* that sends back to it, and without duplicates so does the other.
THEOREM AlwaysReciprocal == Spec => []Reciprocal
<1>1. IInv => Reciprocal
  <2>1. SUFFICES ASSUME IInv, NEW e \in Ends, Open(e), end[e].IsHandshaked,
                        Open(Other(e))
                 PROVE  /\ end[Other(e)].peer = e[1]
                        /\ end[e].SendHandshake => Other(Other(e)) = e
                        /\ Without({"duplicate"}) /\ end[Other(e)].IsHandshaked
                           => Other(Other(e)) = e
    BY DEF Reciprocal
  <2>2. end[Other(e)].peer = e[1]
    BY <2>1 DEF IInv, Known
  <2>3. CASE end[e].SendHandshake
    BY <2>1, <2>2, <2>3 DEF IInv, Paired
  <2>4. CASE ~end[e].SendHandshake
    <3>1. Without({"duplicate"}) => OneAnswer(e)
      BY <2>1, <2>4 DEF IInv, Single, Accepted
    <3> QED
      BY <2>1, <2>2, <2>4, <3>1 DEF OneAnswer
  <2> QED
    BY <2>3, <2>4
<1> QED
  BY <1>1, Inductive, PTL

\* Whatever the nodes are configured to, ReceiveHandShake keeps two that differ
\* in a parameter from both going on, a chunk size that one does not send too.
THEOREM ParametersAlwaysAgree == Spec => []ParametersAgree
<1>1. IInv => ParametersAgree
  <2>1. SUFFICES ASSUME IInv, NEW e \in Ends, Open(e), end[e].IsHandshaked,
                        Open(Other(e)), end[Other(e)].IsHandshaked,
                        NEW p \in Parameters
                 PROVE  config[e[1]][p] = config[end[e].peer][p]
    BY DEF ParametersAgree
  <2>2. PICK o \in Ends : o = Other(e)
    BY <2>1, OtherIsEnd
  <2>3. o[1] = end[e].peer /\ end[o].peer = e[1] /\ e[1] \in Nodes /\ o[1] \in Nodes
    BY <2>1, <2>2 DEF IInv, Known, Other, Ends
  <2>4. /\ ~Refused(config[e[1]], GetBuffer(config[o[1]]))
        /\ ~Refused(config[o[1]], GetBuffer(config[e[1]]))
    BY <2>1, <2>2, <2>3 DEF IInv, Known
  <2>5. config[e[1]].ChunkSize \in Nat /\ config[o[1]].ChunkSize \in Nat
    <3>1. config \in Configurations
      BY <2>1 DEF IInv, TypeOK
    <3> QED
      BY <2>3, <3>1, ConfigurationsAssumption
  <2> QED
    BY <2>3, <2>4, <2>5, AcceptedAgree
<1> QED
  BY <1>1, Inductive, PTL

\* Nodes of a swarm named by a SHA-1 refuse nobody with their own parameters:
\* only a longer hash is cut short.
THEOREM ShortNamesAccepted ==
    ASSUME \A configured \in Configurations, n \in Nodes :
               ShortName(configured[n])
    PROVE  Spec => []EqualsAccepted
<1>1. IInv => EqualsAccepted
  <2>1. SUFFICES ASSUME IInv, NEW e \in Ends, end[e].at = "refused",
                        Supported(config[e[1]]),
                        config[e[1]].SwarmID = config[end[e].peer].SwarmID
                 PROVE  \E p \in Parameters :
                            config[e[1]][p] # config[end[e].peer][p]
    BY DEF EqualsAccepted
  <2>2. Refused(config[e[1]], GetBuffer(config[end[e].peer]))
    BY <2>1 DEF IInv, RefusedRight
  <2>3. end[e].peer \in Nodes
    BY <2>1 DEF IInv, Numbered, Made
  <2>4. ShortName(config[end[e].peer])
    <3>1. config \in Configurations
      BY <2>1 DEF IInv, TypeOK
    <3> QED
      BY <2>3, <3>1
  <2> QED
    BY <2>1, <2>2, <2>4, EqualNotRefused
<1> QED
  BY <1>1, Inductive, PTL
=============================================================================
