-------------------------- MODULE EpollServProofs --------------------------
(***************************************************************************)
(* Machine-checked facts about EpollServ, for any number of clients, cells *)
(* and events: a conversation is undivided and in step, and only a client  *)
(* that is killed can end the server.                                      *)
(***************************************************************************)
EXTENDS EpollServ, FiniteSetTheorems, SequenceTheorems, WellFoundedInduction, TLAPS

Messages == [kind : {"array", "code"}, busy : SUBSET Cells]
Talking == {"type", "array", "index", "code", "close"}

TypeInv ==
  /\ spc \in Talking \cup {"wait", "dispatch", "ended"}
  /\ cur \in Clients \cup {listenfd}
  /\ request \in 0 .. 3
  /\ batch \subseteq Clients \cup {listenfd}
  /\ busy \subseteq Cells
  /\ why \in {"no", "rounds", "alarm", "peer", "sigint"}
  /\ cpc \in [Clients -> {"connect", "sendread", "getarray", "sendwrite",
                          "sendindex", "getcode", "gone", "killed"}]
  /\ index \in [Clients -> Cells]
  /\ link \in [Clients -> {"none", "queued", "open", "closed"}]
  /\ up \in [Clients -> Seq(Int)] /\ down \in [Clients -> Seq(Messages)]
  /\ backlog \in Seq(Clients)
  /\ faults \in 0 .. MaxFaults

\* Where the client of a connection stands, unless it has been killed there, and
\* what is on the way.
Says(c, at, u, d) == cpc[c] \in {at, "killed"} /\ up[c] = u /\ down[c] = d

\* The conversation before the server has read anything of it.
New(c) == Says(c, "sendread", <<>>, <<>>) \/ Says(c, "getarray", <<READ>>, <<>>)

\* The index is the one to be chosen from the array as it is now.
Chosen(c) == cpc[c] # "killed" => index[c] = FirstFree(busy)

\* The conversation in hand: what each place of the server knows of its client.
Stage(c) ==
  /\ spc = "type" => request \in {1, 2}
  /\ spc = "type" /\ request = 1 => New(c)
  /\ spc = "array" => request = 1 /\ Says(c, "getarray", <<>>, <<>>)
  /\ spc = "type" /\ request = 2 =>
       \/ Says(c, "getarray", <<>>, <<Array(busy)>>)
       \/ Says(c, "sendwrite", <<>>, <<>>) /\ Chosen(c)
       \/ Says(c, "sendindex", <<WRITE>>, <<>>) /\ Chosen(c)
       \/ Says(c, "getcode", <<WRITE, FirstFree(busy)>>, <<>>)
  /\ spc = "index" =>
       /\ request = 2
       /\ \/ Says(c, "sendindex", <<>>, <<>>) /\ Chosen(c)
          \/ Says(c, "getcode", <<FirstFree(busy)>>, <<>>)
  /\ spc = "code" =>
       /\ request = 2
       /\ cpc[c] = "killed" \/ Says(c, "getcode", <<>>, <<>>)
  /\ spc = "close" =>
       /\ request = 3
       /\ link[c] = "open" => cpc[c] = "killed" \/ Says(c, "getcode", <<>>, <<Code>>)

\* A connection from its client's side.
Linked(c) ==
  /\ cpc[c] = "connect" => link[c] = "none"
  /\ cpc[c] = "gone" => link[c] \in {"none", "closed"}
  /\ link[c] = "none" => up[c] = <<>> /\ down[c] = <<>> /\ cpc[c] \in {"connect", "gone", "killed"}
  /\ link[c] = "queued" \/ (link[c] = "open" /\ c # cur) => New(c)
  /\ Len(up[c]) <= 2 /\ Len(down[c]) <= 1

\* The server's side.
AtServer ==
  /\ IF spc \in Talking
     THEN cur \in Clients /\ Stage(cur) /\ (spc # "close" => link[cur] = "open")
     ELSE cur = listenfd /\ request = 0
  /\ spc \in {"wait", "ended"} => batch = {}
  /\ spc = "ended" => \A c \in Clients : link[c] \in {"none", "closed"}
  /\ \A c \in batch \ {listenfd} : link[c] = "open" /\ c # cur
  /\ listenfd \in batch => backlog # <<>>

Queue ==
  /\ \A i \in 1 .. Len(backlog) : link[backlog[i]] = "queued"
  /\ \A i, j \in 1 .. Len(backlog) : backlog[i] = backlog[j] => i = j

ConvInv == TypeInv /\ (\A c \in Clients : Linked(c)) /\ AtServer /\ Queue /\ NoInnocentStop
-----------------------------------------------------------------------------
(* The first free cell.                                                    *)

\* A set of natural numbers that is not empty has a least element.
LEMMA LeastNatural ==
  ASSUME NEW T \in SUBSET Nat, T # {}
  PROVE  \E i \in T : \A j \in T : i <= j
<1> DEFINE Upto(i) == {j \in T : j <= i}
           Sets == {Upto(i) : i \in T}
           R == StrictSubsetOrdering(Nat)
<1>0. \A j \in T : j \in Nat
  OBVIOUS
<1>1. IsWellFoundedOn(R, FiniteSubsetsOf(Nat))
  BY FS_StrictSubsetOrderingWellFounded
<1>2. Sets \subseteq FiniteSubsetsOf(Nat) /\ Sets # {}
  <2>1. ASSUME NEW i \in T PROVE Upto(i) \in FiniteSubsetsOf(Nat)
    <3>1. IsFiniteSet(0 .. i) BY FS_Interval
    <3>2. ASSUME NEW k \in Upto(i) PROVE k \in 0 .. i
      <4>1. k \in T /\ k <= i OBVIOUS
      <4> QED BY <1>0, <4>1
    <3>3. IsFiniteSet(Upto(i)) BY <3>1, <3>2, FS_Subset
    <3> QED BY <3>3 DEF FiniteSubsetsOf
  <2> QED BY <2>1
<1>3. PICK x \in Sets : \A y \in Sets : ~ (<<y, x>> \in R)
  <2> HIDE DEF R, Sets
  <2> QED BY <1>1, <1>2, WFMin
<1>4. PICK i \in T : x = Upto(i)
  OBVIOUS
<1>5. ASSUME NEW j \in T, j < i PROVE FALSE
  <2>1. ASSUME NEW k \in Upto(j) PROVE k \in Upto(i)
    <3>1. k \in T /\ k <= j OBVIOUS
    <3> QED BY <1>0, <1>5, <3>1
  <2>2. i \in Upto(i) /\ i \notin Upto(j) BY <1>0, <1>5
  <2>3. <<Upto(j), x>> \in R
    BY <1>4, <2>1, <2>2 DEF StrictSubsetOrdering
  <2> QED BY <1>3, <2>3
<1> QED BY <1>0, <1>5

\* What the client finds is a cell, whatever is busy.
LEMMA FirstFreeIsCell ==
  ASSUME NEW b \in SUBSET Cells
  PROVE  FirstFree(b) \in Cells
<1>1. CASE b = Cells
  BY <1>1, ConstantsAssumption DEF FirstFree, Cells
<1>2. CASE b # Cells
  <2>1. \E i \in Cells \ b : \A j \in Cells \ b : i <= j
    <3>1. \A i \in Cells \ b : i \in Nat
      BY ConstantsAssumption DEF Cells
    <3>2. Cells \ b \in SUBSET Nat
      BY <3>1, Zenon
    <3>3. Cells \ b # {}
      BY <1>2, Zenon
    <3> QED BY <3>2, <3>3, LeastNatural
  <2> QED BY <1>2, <2>1 DEF FirstFree
<1> QED BY <1>1, <1>2
-----------------------------------------------------------------------------
(* Types.                                                                  *)

\* Nobody speaks in the beginning.
LEMMA ConvInit == Init => ConvInv
<1> SUFFICES ASSUME Init PROVE ConvInv
  OBVIOUS
<1> USE ConstantsAssumption DEF Init
<1>1. TypeInv
  BY DEF TypeInv, Cells, Talking, server, client, net
<1>2. \A c \in Clients : Linked(c)
  BY DEF Linked
<1>3. AtServer /\ Queue /\ NoInnocentStop
  BY DEF AtServer, Queue, NoInnocentStop, Talking
<1> QED BY <1>1, <1>2, <1>3 DEF ConvInv

\* Every step keeps the types.
LEMMA TypeStep ==
  ASSUME ConvInv, [Next]_vars
  PROVE  TypeInv'
<1>0. /\ TypeInv
      /\ listenfd \in batch => backlog # <<>>
      /\ spc \in Talking => cur \in Clients
      /\ spc \in {"type", "array", "index", "code"} => request \in {1, 2}
  BY DEF ConvInv, AtServer, Stage, Talking
<1> USE <1>0 DEF TypeInv, Talking
<1>1. CASE UNCHANGED vars
  BY <1>1 DEF vars, server, client, net
<1>2. ASSUME NEW c \in Clients, Client(c) PROVE TypeInv'
  <2> USE DEF server, client, net, Step
  <2>1. CASE Connect(c)
    BY SMTT(30), <2>1 DEF Connect
  <2>2. CASE ConnectFails(c)
    BY <2>2 DEF ConnectFails
  <2>3. CASE SendRead(c)
    BY <2>3 DEF SendRead, Send, READ
  <2>4. CASE GetArray(c)
    <3>1. Head(down[c]) \in Messages /\ Tail(down[c]) \in Seq(Messages)
      BY <2>4 DEF GetArray
    <3>2. FirstFree(Head(down[c]).busy) \in Cells
      BY <3>1, FirstFreeIsCell DEF Messages
    <3> QED BY <2>4, <3>1, <3>2 DEF GetArray
  <2>5. CASE SendWrite(c)
    BY <2>5 DEF SendWrite, Send, WRITE
  <2>6. CASE SendIndex(c)
    <3>1. index[c] \in Int
      BY ConstantsAssumption DEF Cells
    <3> QED BY <2>6, <3>1 DEF SendIndex, Send
  <2>7. CASE GetCode(c)
    BY <2>7 DEF GetCode, Close
  <2>8. CASE GetNothing(c)
    <3>1. CASE Step(c, "getarray", "sendwrite") /\ UNCHANGED <<server, index, net, faults>>
      BY <3>1
    <3>2. CASE Step(c, "getcode", "connect") /\ Close(c)
      BY <3>2 DEF Close
    <3> QED BY <2>8, <3>1, <3>2 DEF GetNothing
  <2>9. CASE ClientFails(c)
    BY <2>9 DEF ClientFails
  <2> QED BY <1>2, <2>1, <2>2, <2>3, <2>4, <2>5, <2>6, <2>7, <2>8, <2>9 DEF Client
<1>3. ASSUME NEW c \in Clients, Kill(c) PROVE TypeInv'
  BY <1>3, ConstantsAssumption DEF Kill, server, client, net
<1>4. ASSUME NEW reason \in {"rounds", "alarm", "peer", "sigint"}, Ends(reason) PROVE TypeInv'
  BY <1>4 DEF Ends, client
<1>5. CASE Alarm \/ Interrupt \/ LastBatch \/ TypeLost \/ AnswerFails \/ IndexLost
  BY <1>4, <1>5 DEF Alarm, Interrupt, LastBatch, TypeLost, AnswerFails, IndexLost
<1>6. CASE EpollWait \/ EndBatch \/ CloseConnection \/ \E c \in Clients : Serve(c)
  <2>1. CASE EpollWait
    <3>1. Ready \subseteq Clients \cup {listenfd}
      BY DEF Ready, Open
    <3> QED BY <2>1, <3>1 DEF EpollWait, client, net
  <2>2. CASE EndBatch
    BY <2>2 DEF EndBatch, client, net
  <2>3. CASE CloseConnection
    BY <2>3 DEF CloseConnection, client
  <2>4. ASSUME NEW c \in Clients, Serve(c) PROVE TypeInv'
    BY <2>4 DEF Serve, client, net
  <2> QED BY <1>6, <2>1, <2>2, <2>3, <2>4
<1>7. CASE Accept \/ AcceptFails \/ EpollCtlFails
  <2>1. CASE backlog = <<>>
    BY <1>7, <2>1 DEF Accept, AcceptFails, EpollCtlFails, Accepts
  <2>2. CASE backlog # <<>>
    <3>1. Head(backlog) \in Clients /\ Tail(backlog) \in Seq(Clients)
      BY <2>2
    <3>2. CASE Accept
      BY <3>1, <3>2 DEF Accept, Accepts, client
    <3>3. CASE AcceptFails
      BY <3>3, ConstantsAssumption DEF AcceptFails, Accepts, client
    <3>4. CASE EpollCtlFails
      BY <3>1, <3>4, ConstantsAssumption DEF EpollCtlFails, Accepts, client
    <3> QED BY <1>7, <3>2, <3>3, <3>4
  <2> QED BY <2>1, <2>2
<1>8. CASE ReadType \/ ReadIndex \/ ReadNoIndex
  <2>1. \A i \in Cells : Flip(i) \subseteq Cells
    BY DEF Flip
  <2>2. CASE ReadType
    <3>1. up' \in [Clients -> Seq(Int)]
      BY <2>2 DEF ReadType, Received
    <3>2. spc' \in {"type", "array", "index", "close"} /\ request' \in 0 .. 3
      <4>1. \/ spc' \in {"array", "index"} /\ request' = request
            \/ NextRequest
        BY <2>2 DEF ReadType
      <4> QED BY <2>2, <4>1 DEF ReadType, NextRequest
    <3> QED BY <2>2, <3>1, <3>2 DEF ReadType, client
  <2>3. CASE ReadIndex
    <3>1. up' \in [Clients -> Seq(Int)]
      BY <2>3 DEF ReadIndex, Received
    <3> QED BY <2>1, <2>3, <3>1 DEF ReadIndex, client
  <2>4. CASE ReadNoIndex
    BY <2>1, <2>4 DEF ReadNoIndex, client, net
  <2> QED BY <1>8, <2>2, <2>3, <2>4
<1>9. CASE SendArray \/ SendCode
  <2>1. Array(busy) \in Messages /\ Code \in Messages
    BY DEF Array, Code, Messages
  <2>2. ASSUME NEW msg \in Messages, Answer(msg), spc \in {"array", "code"} PROVE TypeInv'
    <3>1. down' \in [Clients -> Seq(Messages)]
      BY <2>2 DEF Answer
    <3> QED BY <2>2, <3>1 DEF Answer, NextRequest, client
  <2> QED BY <1>9, <2>1, <2>2 DEF SendArray, SendCode
<1> QED BY <1>1, <1>2, <1>3, <1>5, <1>6, <1>7, <1>8, <1>9 DEF Next, Server
-----------------------------------------------------------------------------
(* The clients' steps.                                                     *)

Same(d) == UNCHANGED <<cpc[d], index[d], link[d], up[d], down[d]>>

\* Whom a step leaves alone stays where it is in its conversation.
LEMMA OthersStay ==
  ASSUME NEW d \in Clients, Same(d)
  PROVE  /\ Linked(d) /\ cur' = cur => Linked(d)'
         /\ Stage(d) /\ UNCHANGED <<spc, request, busy>> => Stage(d)'
BY DEF Same, Linked, Stage, New, Says, Chosen

\* What a step of client c must do to its own connection.
Moves(c) ==
  /\ \A d \in Clients \ {c} : Same(d)
  /\ UNCHANGED server
  /\ Linked(c)'
  /\ c = cur /\ spc \in Talking => Stage(c)' /\ (spc # "close" => link'[c] = "open")
  /\ c \in batch => link'[c] = "open"
  /\ spc = "ended" => link'[c] \in {"none", "closed"}
  /\ cpc[c] = "killed" => cpc'[c] = "killed"
  /\ \/ backlog' = backlog /\ (link'[c] = link[c] \/ link[c] # "queued")
     \/ backlog' = Append(backlog, c) /\ link[c] # "queued" /\ link'[c] = "queued"

\* A step of one client need only be looked at from that client's side.
LEMMA MovesEnough ==
  ASSUME ConvInv, TypeInv', NEW c \in Clients, Moves(c)
  PROVE  ConvInv'
<1> USE ConstantsAssumption DEF ConvInv, Moves, server
<1>1. \A d \in Clients : Linked(d)'
  BY OthersStay
<1>2. AtServer'
  <2>1. (spc \in Talking => cur \in Clients /\ Stage(cur) /\ (spc # "close" => link[cur] = "open"))'
    <3>1. CASE cur = c
      BY <3>1 DEF AtServer
    <3>2. CASE cur # c
      BY <3>2, OthersStay DEF AtServer, Same
    <3> QED BY <3>1, <3>2
  <2>2. (spc = "ended" => \A d \in Clients : link[d] \in {"none", "closed"})'
    BY DEF AtServer, Same
  <2>3. (\A d \in batch \ {listenfd} : link[d] = "open" /\ d # cur)'
    BY DEF AtServer, Same, TypeInv
  <2>4. (listenfd \in batch => backlog # <<>>)'
    BY DEF AtServer, TypeInv
  <2> QED BY <2>1, <2>2, <2>3, <2>4 DEF AtServer
<1>3. Queue'
  <2>1. CASE backlog' = backlog /\ (link'[c] = link[c] \/ link[c] # "queued")
    <3>1. \A i \in 1 .. Len(backlog) : backlog[i] \in Clients /\ link[backlog[i]] = "queued"
      <4>1. \A i \in 1 .. Len(backlog) : backlog[i] \in Clients
        BY ElementOfSeq DEF TypeInv
      <4> QED BY <4>1 DEF Queue
    <3>2. \A i \in 1 .. Len(backlog) : link'[backlog[i]] = "queued"
      BY <2>1, <3>1 DEF Same
    <3> QED BY <2>1, <3>2 DEF Queue
  <2>2. CASE backlog' = Append(backlog, c) /\ link[c] # "queued" /\ link'[c] = "queued"
    <3>1. /\ Len(backlog') = Len(backlog) + 1 /\ Len(backlog) \in Nat
          /\ backlog'[Len(backlog) + 1] = c
          /\ \A i \in 1 .. Len(backlog) : backlog'[i] = backlog[i] /\ backlog[i] \in Clients
      BY <2>2 DEF TypeInv
    <3>2. \A i \in 1 .. Len(backlog) : backlog[i] # c /\ link'[backlog[i]] = "queued"
      BY <2>2, <3>1 DEF Queue, Same
    <3>3. \A i \in 1 .. Len(backlog') : i \in 1 .. Len(backlog) \/ i = Len(backlog) + 1
      BY <3>1
    <3> QED BY <2>2, <3>1, <3>2, <3>3 DEF Queue
  <2> QED BY <2>1, <2>2
<1>4. NoInnocentStop'
  BY DEF NoInnocentStop, Same
<1> QED BY <1>1, <1>2, <1>3, <1>4

\* A second datum behind the first one on its way.
LEMMA AppendTwo ==
  ASSUME NEW x \in Int, NEW y \in Int
  PROVE  Append(<<x>>, y) = <<x, y>>
<1>1. Append(<<x>>, y) \in Seq(Int) /\ <<x, y>> \in Seq(Int)
  OBVIOUS
<1>2. Len(Append(<<x>>, y)) = 2 /\ Len(<<x, y>>) = 2
  OBVIOUS
<1>3. \A i \in 1 .. 2 : Append(<<x>>, y)[i] = <<x, y>>[i]
  OBVIOUS
<1> QED BY <1>1, <1>2, <1>3, SeqEqual

\* What is left when the first datum has been read.
LEMMA TailOfTwo ==
  ASSUME NEW x \in Int, NEW y \in Int
  PROVE  Tail(<<x, y>>) = <<y>> /\ Tail(<<x>>) = <<>>
<1>1. Tail(<<x, y>>) \in Seq(Int) /\ <<y>> \in Seq(Int) /\ Tail(<<x>>) \in Seq(Int)
  OBVIOUS
<1>2. Len(Tail(<<x, y>>)) = 1 /\ Len(<<y>>) = 1 /\ Len(Tail(<<x>>)) = 0
  OBVIOUS
<1>3. \A i \in 1 .. 1 : Tail(<<x, y>>)[i] = <<y>>[i]
  OBVIOUS
<1>4. Tail(<<x, y>>) = <<y>>
  BY <1>1, <1>2, <1>3, SeqEqual
<1> QED BY <1>1, <1>2, <1>4

\* A client goes through its conversation.
LEMMA ClientStep ==
  ASSUME ConvInv, TypeInv', NEW c \in Clients, Client(c)
  PROVE  ConvInv'
<1> SUFFICES Moves(c)
  BY MovesEnough
<1>0. TypeInv /\ Linked(c) /\ AtServer /\ c # listenfd
  BY ConstantsAssumption DEF ConvInv
<1> USE <1>0 DEF Moves, Step, server, net, Same, TypeInv, Talking
<1>1. CASE Connect(c)
  BY <1>1 DEF Connect, Linked, AtServer, Stage, New, Says
<1>2. CASE ConnectFails(c)
  BY <1>2 DEF ConnectFails, Linked, AtServer, Stage, New, Says
<1>3. CASE SendRead(c)
  <2>1. CASE link[c] = "closed"
    BY <1>3, <2>1 DEF SendRead, Send, Linked, AtServer, Stage, New, Says
  <2>2. CASE link[c] # "closed"
    <3>1. /\ link[c] \in {"queued", "open"} /\ up[c] = <<>> /\ down[c] = <<>>
          /\ c = cur /\ spc \in Talking =>
               (spc = "type" /\ request = 1) \/ (spc = "close" /\ link[c] = "queued")
      <4>1. cpc[c] = "sendread" /\ link[c] \in {"queued", "open"}
        BY <1>3, <2>2 DEF SendRead, Linked
      <4>2. CASE c = cur /\ spc \in Talking /\ link[c] = "open"
        <5>1. Stage(c)
          BY <4>2 DEF AtServer
        <5>2. spc = "type" /\ request = 1
          BY <4>1, <4>2, <5>1 DEF Stage, Says
        <5>3. New(c)
          BY <5>1, <5>2 DEF Stage
        <5>4. up[c] = <<>> /\ down[c] = <<>>
          <6> HIDE DEF TypeInv
          <6> QED BY <4>1, <5>3 DEF New, Says
        <5> HIDE DEF TypeInv
        <5> QED BY <4>1, <5>2, <5>4
      <4>3. CASE ~ (c = cur /\ spc \in Talking /\ link[c] = "open")
        BY <4>1, <4>3 DEF AtServer, Linked, New, Says
      <4> QED BY <4>1, <4>2, <4>3
    <3>2. up'[c] = <<READ>>
      BY <1>3, <2>2, <3>1 DEF SendRead, Send
    <3> QED BY <1>3, <2>2, <3>1, <3>2 DEF SendRead, Send, Linked, AtServer, Stage, New, Says
  <2> QED BY <2>1, <2>2
<1>4. CASE GetArray(c)
  BY SMTT(30), <1>4 DEF GetArray, Linked, AtServer, Stage, New, Says, Chosen, Array
<1>5. CASE SendWrite(c)
  <2>1. CASE link[c] = "closed"
    BY <1>5, <2>1 DEF SendWrite, Send, Linked, AtServer, Stage, New, Says
  <2>2. CASE link[c] # "closed"
    <3>1. /\ link[c] = "open" /\ up[c] = <<>> /\ down[c] = <<>>
          /\ c = cur /\ spc = "type" /\ request = 2 /\ index[c] = FirstFree(busy)
      BY <1>5, <2>2 DEF SendWrite, Linked, AtServer, Stage, New, Says, Chosen
    <3>2. up'[c] = <<WRITE>>
      BY <1>5, <2>2, <3>1 DEF SendWrite, Send
    <3> QED BY <1>5, <2>2, <3>1, <3>2 DEF SendWrite, Send, Linked, AtServer, Stage, New, Says, Chosen
  <2> QED BY <2>1, <2>2
<1>6. CASE SendIndex(c)
  <2>1. CASE link[c] = "closed"
    BY <1>6, <2>1 DEF SendIndex, Send, Linked, AtServer, Stage, New, Says
  <2>2. CASE link[c] # "closed"
    <3>1. /\ link[c] = "open" /\ down[c] = <<>> /\ c = cur
          /\ index[c] = FirstFree(busy)
          /\ \/ spc = "type" /\ request = 2 /\ up[c] = <<WRITE>>
             \/ spc = "index" /\ request = 2 /\ up[c] = <<>>
      BY <1>6, <2>2 DEF SendIndex, Linked, AtServer, Stage, New, Says, Chosen
    <3>2. up'[c] = Append(up[c], FirstFree(busy))
      BY <1>6, <2>2, <3>1 DEF SendIndex, Send
    <3>3. CASE spc = "type"
      <4>1. up'[c] = <<WRITE, FirstFree(busy)>>
        <5>1. FirstFree(busy) \in Int /\ WRITE \in Int
          BY FirstFreeIsCell, ConstantsAssumption DEF Cells, WRITE
        <5> HIDE DEF FirstFree, WRITE
        <5>2. up'[c] = Append(<<WRITE>>, FirstFree(busy))
          BY <3>1, <3>2, <3>3
        <5> HIDE DEF TypeInv, Moves, Step, Same
        <5> QED BY <5>1, <5>2, AppendTwo
      <4>2. Len(up'[c]) = 2
        BY <4>1
      <4>3. Linked(c)'
        BY <1>6, <2>2, <3>1, <3>3, <4>2 DEF SendIndex, Send, Linked
      <4> QED BY SMTT(30), <1>6, <2>2, <3>1, <3>3, <4>1, <4>3 DEF SendIndex, Send, AtServer, Stage, Says
    <3>4. CASE spc = "index"
      <4>1. up'[c] = <<FirstFree(busy)>>
        BY <3>1, <3>2, <3>4
      <4> QED BY <1>6, <2>2, <3>1, <3>4, <4>1 DEF SendIndex, Send, Linked, AtServer, Stage, New, Says
    <3> QED BY <3>1, <3>3, <3>4
  <2> QED BY <2>1, <2>2
<1>7. CASE GetCode(c)
  BY <1>7 DEF GetCode, Close, Linked, AtServer, Stage, New, Says
<1>8. CASE GetNothing(c)
  BY SMTT(30), <1>8 DEF GetNothing, Close, Linked, AtServer, Stage, New, Says
<1>9. CASE ClientFails(c)
  BY <1>9 DEF ClientFails, Linked, AtServer, Stage, New, Says
<1> QED BY <1>1, <1>2, <1>3, <1>4, <1>5, <1>6, <1>7, <1>8, <1>9, Zenon
  DEF Client

\* A client is killed, wherever it is.
LEMMA KillStep ==
  ASSUME ConvInv, TypeInv', NEW c \in Clients, Kill(c)
  PROVE  ConvInv'
<1> SUFFICES Moves(c)
  BY MovesEnough
<1>0. TypeInv /\ Linked(c) /\ AtServer
  BY DEF ConvInv
<1>1. /\ cpc' = [cpc EXCEPT ![c] = "killed"] /\ cpc[c] \notin {"gone", "killed"}
      /\ UNCHANGED <<server, index, net>>
  BY DEF Kill, Dead
<1>2. (\A d \in Clients \ {c} : Same(d)) /\ cpc'[c] = "killed"
  BY <1>0, <1>1 DEF TypeInv, Same, net
<1>3. Linked(c)'
  BY <1>0, <1>1, <1>2 DEF Linked, New, Says, net, server
<1>4. c = cur /\ spc \in Talking => Stage(c)'
  BY <1>0, <1>1, <1>2 DEF AtServer, Stage, New, Says, Chosen, net, server
<1>5. UNCHANGED <<server, link, backlog>> /\ c # listenfd
  BY <1>1, ConstantsAssumption DEF net
<1>6. (c = cur /\ spc # "close" /\ spc \in Talking => link[c] = "open")
      /\ (c \in batch => link[c] = "open") /\ (spc = "ended" => link[c] \in {"none", "closed"})
  BY <1>0, <1>5 DEF AtServer
<1> QED BY <1>2, <1>3, <1>4, <1>5, <1>6 DEF Moves
-----------------------------------------------------------------------------
(* The server's steps.                                                     *)

\* The server ends, with any reason that can be told.
LEMMA EndsStep ==
  ASSUME ConvInv, TypeInv', NEW reason, Ends(reason),
         reason = "peer" => \E c \in Clients : cpc[c] = "killed"
  PROVE  ConvInv'
<1>1. \A c \in Clients : Linked(c)'
  BY DEF ConvInv, Ends, client, Linked, TypeInv
<1>2. AtServer'
  BY DEF Ends, AtServer, Talking, ConvInv, TypeInv
<1>3. Queue' /\ NoInnocentStop'
  BY DEF Ends, Queue, NoInnocentStop, client
<1> QED BY <1>1, <1>2, <1>3 DEF ConvInv

\* A client that has left a connection in hand has been killed.
LEMMA OnlyTheKilledHangUp ==
  ASSUME ConvInv, spc \in Talking \ {"close"}, HungUp(cur)
  PROVE  cur \in Clients /\ cpc[cur] = "killed"
BY DEF ConvInv, AtServer, Linked, HungUp, Dead, Talking

\* The server ends: by a signal, by its alarm, or by a read or a write that
\* fails.
LEMMA EndStep ==
  ASSUME ConvInv, TypeInv',
         Alarm \/ Interrupt \/ LastBatch \/ TypeLost \/ AnswerFails \/ IndexLost
  PROVE  ConvInv'
<1>1. CASE Alarm \/ Interrupt \/ LastBatch
  BY <1>1, EndsStep DEF Alarm, Interrupt, LastBatch
<1>2. CASE TypeLost \/ AnswerFails \/ IndexLost
  <2>1. spc \in Talking \ {"close"} /\ HungUp(cur) /\ Ends("peer")
    BY <1>2 DEF TypeLost, AnswerFails, IndexLost, Talking
  <2> QED BY <2>1, OnlyTheKilledHangUp, EndsStep
<1> QED BY <1>1, <1>2

\* The steps of the loop over the events.
LEMMA LoopStep ==
  ASSUME ConvInv, TypeInv', EpollWait \/ EndBatch \/ \E c \in Clients : Serve(c)
  PROVE  ConvInv'
<1>0. TypeInv /\ (\A d \in Clients : Linked(d)) /\ AtServer /\ Queue /\ NoInnocentStop
  BY DEF ConvInv
<1>1. CASE EpollWait
  <2>1. /\ batch' \subseteq Ready /\ cur = listenfd /\ request = 0 /\ spc' = "dispatch"
        /\ UNCHANGED <<cur, request, busy, why, client, net, faults>>
    BY <1>0, <1>1 DEF EpollWait, AtServer, Talking
  <2>2. AtServer'
    BY <2>1, ConstantsAssumption DEF AtServer, Talking, net, Ready, Open
  <2> QED BY <1>0, <2>1, <2>2 DEF ConvInv, client, net, Queue, NoInnocentStop, Linked, New, Says
<1>2. CASE EndBatch
  BY <1>0, <1>2 DEF EndBatch, ConvInv, AtServer, Talking, client, net, Queue, NoInnocentStop,
     Linked, New, Says
<1>3. ASSUME NEW c \in Clients, Serve(c) PROVE ConvInv'
  <2>1. /\ c \in batch /\ c # listenfd /\ link[c] = "open" /\ cur = listenfd /\ batch' = batch \ {c}
        /\ spc' = "type" /\ cur' = c /\ request' = 1 /\ spc = "dispatch"
        /\ UNCHANGED <<busy, why, client, net, faults>>
    BY <1>0, <1>3 DEF Serve, AtServer, Talking
  <2>2. New(c)
    BY <1>0, <2>1 DEF Linked
  <2>3. AtServer'
    BY <1>0, <2>1, <2>2 DEF AtServer, Talking, client, net, Stage, New, Says
  <2>4. \A d \in Clients : Linked(d)'
    BY <1>0, <2>1, ConstantsAssumption DEF Linked, client, net, New, Says
  <2> QED BY <1>0, <2>1, <2>3, <2>4 DEF ConvInv, client, net, Queue, NoInnocentStop
<1> QED BY <1>1, <1>2, <1>3

\* accept and epoll_ctl, done or failed.
LEMMA AcceptStep ==
  ASSUME ConvInv, TypeInv', Accept \/ AcceptFails \/ EpollCtlFails
  PROVE  ConvInv'
<1>0. TypeInv /\ (\A d \in Clients : Linked(d)) /\ AtServer /\ Queue /\ NoInnocentStop
  BY DEF ConvInv
<1>1. /\ spc = "dispatch" /\ batch' = batch \ {listenfd} /\ backlog # <<>>
      /\ cur = listenfd /\ request = 0
      /\ UNCHANGED <<spc, cur, request, busy, why, client, up, down>>
  BY <1>0 DEF Accept, AcceptFails, EpollCtlFails, Accepts, AtServer, Talking
<1>2. PICK h \in Clients : h = Head(backlog) /\ h = backlog[1] /\ link[h] = "queued" /\ New(h)
  <2>1. /\ Head(backlog) = backlog[1] /\ 1 \in 1 .. Len(backlog)
        /\ Head(backlog) \in Clients
    BY <1>0, <1>1 DEF TypeInv
  <2> QED BY <1>0, <2>1 DEF Queue, Linked
<1>3. CASE AcceptFails
  BY <1>0, <1>1, <1>3 DEF AcceptFails, ConvInv, AtServer, Talking, client, Queue,
     NoInnocentStop, Linked, New, Says
<1>4. ASSUME NEW to \in {"open", "closed"},
             link' = [link EXCEPT ![h] = to], backlog' = Tail(backlog)
      PROVE  ConvInv'
  <2>1. (\A d \in Clients \ {h} : link'[d] = link[d]) /\ link'[h] = to
    BY <1>0, <1>2, <1>4 DEF TypeInv
  <2>2. \A d \in Clients : Linked(d)'
    <3>1. ASSUME NEW d \in Clients \ {h} PROVE Linked(d)'
      BY <1>0, <1>1, <2>1 DEF Linked, client, New, Says
    <3>2. Linked(h)'
      BY <1>0, <1>1, <1>2, <1>4, <2>1 DEF Linked, client, New, Says
    <3> QED BY <3>1, <3>2
  <2>3. AtServer'
    BY <1>0, <1>1, <1>2, <2>1 DEF AtServer, Talking, TypeInv
  <2>4. Queue'
    <3>1. /\ Len(backlog) \in Nat \ {0} /\ Len(backlog') = Len(backlog) - 1
          /\ \A i \in 1 .. Len(backlog') : backlog'[i] = backlog[i + 1]
      BY <1>0, <1>1, <1>4 DEF TypeInv
    <3>2. \A i \in 1 .. Len(backlog') :
            /\ backlog[i + 1] \in Clients /\ backlog[i + 1] # h
            /\ link[backlog[i + 1]] = "queued"
      <4>1. ASSUME NEW i \in 1 .. Len(backlog')
            PROVE  i + 1 \in 1 .. Len(backlog) /\ i + 1 # 1 /\ 1 \in 1 .. Len(backlog)
        BY <3>1
      <4>2. \A i \in 1 .. Len(backlog) : backlog[i] \in Clients
        BY <1>0, ElementOfSeq DEF TypeInv
      <4> QED BY <1>0, <1>2, <4>1, <4>2 DEF Queue
    <3>3. \A i \in 1 .. Len(backlog') : link'[backlog'[i]] = "queued"
      BY <2>1, <3>1, <3>2
    <3>4. ASSUME NEW i \in 1 .. Len(backlog'), NEW j \in 1 .. Len(backlog'),
                 backlog'[i] = backlog'[j]
          PROVE  i = j
      <4>1. i + 1 \in 1 .. Len(backlog) /\ j + 1 \in 1 .. Len(backlog)
        BY <3>1
      <4>2. i + 1 = j + 1
        BY <1>0, <3>1, <3>4, <4>1 DEF Queue
      <4> QED BY <3>1, <4>2
    <3> QED BY <3>3, <3>4 DEF Queue
  <2> QED BY <1>0, <1>1, <2>2, <2>3, <2>4 DEF ConvInv, NoInnocentStop, client
<1>5. CASE Accept \/ EpollCtlFails
  <2>1. \E to \in {"open", "closed"} :
          link' = [link EXCEPT ![h] = to] /\ backlog' = Tail(backlog)
    BY <1>2, <1>5 DEF Accept, EpollCtlFails
  <2> QED BY <1>4, <2>1
<1> QED BY <1>3, <1>5

\* A step of the conversation in hand: the others stay where they are, and the
\* invariant needs looking at for the client in hand alone.
Converses ==
  /\ spc \in Talking \ {"close"} /\ spc' \in Talking
  /\ \A d \in Clients \ {cur} : Same(d)
  /\ UNCHANGED <<cur, batch, why, cpc, index, link, backlog>>
  /\ Stage(cur)'
  /\ Len(up'[cur]) <= 2 /\ Len(down'[cur]) <= 1

\* A step of the server need only be looked at for the client it serves.
LEMMA ConversesEnough ==
  ASSUME ConvInv, TypeInv', Converses
  PROVE  ConvInv'
<1>0. /\ TypeInv /\ (\A d \in Clients : Linked(d)) /\ AtServer /\ Queue /\ NoInnocentStop
      /\ cur \in Clients /\ link[cur] = "open"
  BY DEF ConvInv, AtServer, Converses
<1>1. \A d \in Clients : Linked(d)'
  <2>1. ASSUME NEW d \in Clients \ {cur} PROVE Linked(d)'
    BY <1>0, <2>1, OthersStay DEF Converses
  <2>2. Linked(cur)'
    <3>1. cpc[cur] \notin {"connect", "gone"}
      BY <1>0 DEF Linked
    <3>2. ASSUME NEW d \in Clients, d = cur PROVE Linked(d)'
      BY <1>0, <3>1, <3>2 DEF Linked, Converses
    <3> QED BY <1>0, <3>2 DEF Converses
  <2> QED BY <2>1, <2>2 DEF Converses
<1>2. AtServer'
  BY <1>0 DEF AtServer, Converses, Talking
<1> QED BY <1>0, <1>1, <1>2 DEF ConvInv, Queue, NoInnocentStop, Converses

\* The server reads what the client asks for.
LEMMA ReadTypeStep ==
  ASSUME ConvInv, TypeInv', ReadType
  PROVE  ConvInv'
<1>0. TypeInv /\ cur \in Clients /\ Stage(cur) /\ spc = "type" /\ request \in {1, 2}
  BY DEF ConvInv, AtServer, Stage, Talking, ReadType
<1>1. /\ up[cur] # <<>> /\ up' = [up EXCEPT ![cur] = Tail(@)]
      /\ UNCHANGED <<cur, batch, busy, why, client, link, down, backlog>>
  BY DEF ReadType, Received
<1>2. (\A d \in Clients \ {cur} : Same(d)) /\ up'[cur] = Tail(up[cur])
  BY <1>0, <1>1 DEF TypeInv, Same, client
<1>3. CASE request = 1
  <2>1. up[cur] = <<READ>> /\ Says(cur, "getarray", <<READ>>, <<>>)
    BY <1>0, <1>1, <1>3 DEF Stage, New, Says
  <2>2. spc' = "array" /\ request' = 1
    <3>1. Head(up[cur]) = READ
      BY <2>1
    <3> QED BY <1>3, <3>1 DEF ReadType, READ, WRITE
  <2>3. up'[cur] = <<>>
    BY <1>2, <2>1
  <2>4. Stage(cur)'
    BY <1>1, <2>1, <2>2, <2>3 DEF Stage, Says, client
  <2>5. Len(up'[cur]) <= 2 /\ Len(down'[cur]) <= 1
    BY <1>1, <2>1, <2>3 DEF Says
  <2> QED BY <1>0, <1>1, <1>2, <2>2, <2>4, <2>5, ConversesEnough DEF Converses, Talking, client
<1>4. CASE request = 2
  <2>1. \/ Says(cur, "sendindex", <<WRITE>>, <<>>) /\ Chosen(cur)
        \/ Says(cur, "getcode", <<WRITE, FirstFree(busy)>>, <<>>)
    BY <1>0, <1>1, <1>4 DEF Stage, Says
  <2>2. Head(up[cur]) = WRITE
    BY <2>1 DEF Says
  <2>3. spc' = "index" /\ request' = 2
    BY <1>4, <2>2 DEF ReadType, READ, WRITE
  <2>4. \/ Says(cur, "sendindex", up[cur], <<>>) /\ Chosen(cur) /\ up'[cur] = <<>>
        \/ Says(cur, "getcode", up[cur], <<>>) /\ up'[cur] = <<FirstFree(busy)>>
    <3>1. Tail(<<WRITE, FirstFree(busy)>>) = <<FirstFree(busy)>> /\ Tail(<<WRITE>>) = <<>>
      <4>1. FirstFree(busy) \in Int /\ WRITE \in Int
        BY <1>0, FirstFreeIsCell, ConstantsAssumption DEF TypeInv, Cells, WRITE
      <4> QED BY <4>1, TailOfTwo
    <3> QED BY <1>2, <2>1, <3>1 DEF Says
  <2>5. Stage(cur)'
    BY <1>1, <2>3, <2>4 DEF Stage, Says, Chosen, client
  <2>6. Len(up'[cur]) <= 2 /\ Len(down'[cur]) <= 1
    <3>1. up'[cur] = <<>> \/ up'[cur] = <<FirstFree(busy)>>
      BY <2>4
    <3>2. down'[cur] = <<>>
      BY <1>1, <2>4 DEF Says
    <3>3. CASE up'[cur] = <<>>
      BY <3>2, <3>3
    <3>4. CASE up'[cur] = <<FirstFree(busy)>>
      BY <3>2, <3>4
    <3> QED BY <3>1, <3>3, <3>4
  <2> QED BY <1>0, <1>1, <1>2, <2>3, <2>5, <2>6, ConversesEnough DEF Converses, Talking, client
<1> QED BY <1>0, <1>3, <1>4

\* The server answers with the array or with a code.
LEMMA AnswerStep ==
  ASSUME ConvInv, TypeInv', SendArray \/ SendCode
  PROVE  ConvInv'
<1>0. TypeInv /\ cur \in Clients /\ Stage(cur) /\ spc \in {"array", "code"}
  BY DEF ConvInv, AtServer, Talking, SendArray, SendCode
<1> DEFINE msg == IF spc = "array" THEN Array(busy) ELSE Code
<1>1. /\ down' = IF HungUp(cur) THEN down ELSE [down EXCEPT ![cur] = Append(@, msg)]
      /\ UNCHANGED <<cur, batch, busy, why, client, link, up, backlog>>
      /\ NextRequest
  BY <1>0 DEF SendArray, SendCode, Answer
<1>2. /\ cpc[cur] # "killed" => up[cur] = <<>> /\ down[cur] = <<>>
      /\ spc = "array" => request = 1 /\ Says(cur, "getarray", <<>>, <<>>)
      /\ spc = "code" => request = 2 /\ (cpc[cur] = "killed" \/ cpc[cur] = "getcode")
  BY <1>0 DEF Stage, Says
<1>3. HungUp(cur) <=> cpc[cur] = "killed"
  <2>1. HungUp(cur) => cpc[cur] = "killed"
    BY <1>0, OnlyTheKilledHangUp DEF Talking
  <2> QED BY <1>0, <2>1 DEF HungUp, Dead
<1>4. \A d \in Clients \ {cur} : Same(d)
  BY <1>0, <1>1 DEF TypeInv, Same, client
<1>5. cpc[cur] # "killed" => down'[cur] = <<msg>>
  <2>1. ASSUME cpc[cur] # "killed" PROVE down'[cur] = Append(<<>>, msg)
    BY <1>0, <1>1, <1>2, <1>3, <2>1 DEF TypeInv
  <2> QED BY <2>1
<1>6. cpc[cur] = "killed" => down'[cur] = down[cur]
  BY <1>1, <1>3
<1>7. Len(up'[cur]) <= 2 /\ Len(down'[cur]) <= 1
  <2>1. Len(up[cur]) <= 2 /\ Len(down[cur]) <= 1
    BY <1>0 DEF ConvInv, Linked
  <2>2. UNCHANGED up
    BY <1>1
  <2>3. CASE cpc[cur] = "killed"
    BY <1>6, <2>1, <2>2, <2>3
  <2>4. CASE cpc[cur] # "killed"
    <3>1. Len(down'[cur]) = 1
      BY <1>5, <2>4
    <3> QED BY <2>1, <2>2, <3>1
  <2> QED BY <2>3, <2>4
<1>8. CASE spc = "array"
  <2>1. spc' = "type" /\ request' = 2
    BY <1>1, <1>2, <1>8 DEF NextRequest
  <2>2. Stage(cur)'
    <3>1. UNCHANGED <<cpc, index, up, busy>> /\ cpc[cur] \in {"getarray", "killed"}
      BY <1>1, <1>2, <1>8 DEF Says, client
    <3>2. up[cur] = <<>> /\ down[cur] = <<>>
      BY <1>2, <1>8 DEF Says
    <3>3. Says(cur, "getarray", <<>>, <<Array(busy)>>)'
          \/ (Says(cur, "sendwrite", <<>>, <<>>)' /\ cpc[cur] = "killed")
      BY <1>1, <1>5, <1>6, <1>8, <3>1, <3>2 DEF Says
    <3> QED BY <1>1, <2>1, <3>1, <3>3 DEF Stage, Chosen
  <2> QED BY <1>1, <1>4, <1>7, <1>8, <2>1, <2>2, ConversesEnough DEF Converses, Talking, client
<1>9. CASE spc = "code"
  <2>1. spc' = "close" /\ request' = 3
    BY <1>1, <1>2, <1>9 DEF NextRequest
  <2>2. Stage(cur)'
    BY <1>1, <1>2, <1>5, <1>9, <2>1 DEF Stage, Says, client
  <2> QED BY <1>1, <1>4, <1>7, <1>9, <2>1, <2>2, ConversesEnough DEF Converses, Talking, client
<1> QED BY <1>0, <1>8, <1>9

\* The server reads an index, or finds the connection closed.
LEMMA IndexStep ==
  ASSUME ConvInv, TypeInv', ReadIndex \/ ReadNoIndex
  PROVE  ConvInv'
<1>0. TypeInv /\ cur \in Clients /\ Stage(cur) /\ Linked(cur) /\ spc = "index" /\ request = 2
  BY DEF ConvInv, AtServer, Stage, Talking, ReadIndex, ReadNoIndex
<1>1. spc' = "code" /\ UNCHANGED <<cur, request, batch, why, client, link, down, backlog>>
  BY DEF ReadIndex, ReadNoIndex, net
<1>2. CASE ReadIndex
  <2>1. (\A d \in Clients \ {cur} : Same(d)) /\ up'[cur] = Tail(up[cur]) /\ up[cur] # <<>>
    BY <1>0, <1>1, <1>2 DEF TypeInv, Same, client, ReadIndex, Received
  <2>2. Says(cur, "getcode", <<FirstFree(busy)>>, <<>>)
    BY <1>0, <2>1 DEF Stage, Says
  <2>3. up'[cur] = <<>>
    BY <2>1, <2>2 DEF Says
  <2>4. Stage(cur)'
    BY <1>0, <1>1, <2>2, <2>3 DEF Stage, Says, client
  <2>5. Len(up'[cur]) <= 2 /\ Len(down'[cur]) <= 1
    BY <1>1, <2>2, <2>3 DEF Says
  <2> QED BY <1>0, <1>1, <2>1, <2>4, <2>5, ConversesEnough DEF Converses, Talking, client
<1>3. CASE ReadNoIndex
  <2>1. cpc[cur] = "killed" /\ UNCHANGED up
    BY <1>0, <1>3, OnlyTheKilledHangUp DEF ReadNoIndex, Talking, net
  <2>2. \A d \in Clients \ {cur} : Same(d)
    BY <1>1, <2>1 DEF Same, client
  <2>3. Stage(cur)' /\ Len(up'[cur]) <= 2 /\ Len(down'[cur]) <= 1
    BY <1>0, <1>1, <2>1 DEF Stage, client, Linked
  <2> QED BY <1>0, <1>1, <2>2, <2>3, ConversesEnough DEF Converses, Talking, client
<1> QED BY <1>2, <1>3

\* The server closes a connection that has ended.
LEMMA CloseStep ==
  ASSUME ConvInv, TypeInv', CloseConnection
  PROVE  ConvInv'
<1>0. /\ TypeInv /\ (\A d \in Clients : Linked(d)) /\ AtServer /\ Queue /\ NoInnocentStop
      /\ cur \in Clients /\ Stage(cur) /\ spc = "close" /\ cur # listenfd
  BY ConstantsAssumption DEF ConvInv, AtServer, Talking, CloseConnection
<1>1. /\ spc' = "dispatch" /\ cur' = listenfd /\ request' = 0
      /\ UNCHANGED <<batch, busy, why, client, up, down, backlog>>
      /\ \A d \in Clients \ {cur} : link'[d] = link[d]
      /\ link'[cur] = IF link[cur] = "open" THEN "closed" ELSE link[cur]
  BY <1>0 DEF CloseConnection, TypeInv
<1>2. \A d \in Clients : Linked(d)'
  <2>1. ASSUME NEW d \in Clients \ {cur} PROVE Linked(d)'
    BY <1>0, <1>1 DEF Linked, client, New, Says
  <2>2. ASSUME NEW d \in Clients, d = cur PROVE Linked(d)'
    <3>1. link[d] = "open" => cpc[d] \notin {"connect", "gone"}
      BY <1>0 DEF Linked
    <3>2. (link[d] = "queued" => New(d)) /\ link'[d] # "open"
      BY <1>0, <1>1, <2>2 DEF Linked
    <3> QED BY <1>0, <1>1, <2>2, <3>1, <3>2 DEF Linked, client, New, Says
  <2> QED BY <2>1, <2>2
<1>3. AtServer'
  BY <1>0, <1>1 DEF AtServer, Talking, TypeInv
<1>4. Queue'
  <2>1. \A i \in 1 .. Len(backlog) : backlog[i] \in Clients /\ link[backlog[i]] = "queued"
    BY <1>0, ElementOfSeq DEF Queue, TypeInv
  <2>2. \A i \in 1 .. Len(backlog) : link'[backlog[i]] = "queued"
    BY <1>1, <2>1
  <2> QED BY <1>0, <1>1, <2>2 DEF Queue
<1> QED BY <1>0, <1>1, <1>2, <1>3, <1>4 DEF ConvInv, NoInnocentStop, client
-----------------------------------------------------------------------------
(* The invariant and what it says of the program.                          *)

\* ConvInv is inductive.
LEMMA ConvStep == ConvInv /\ [Next]_vars => ConvInv'
<1> SUFFICES ASSUME ConvInv, [Next]_vars PROVE ConvInv'
  OBVIOUS
<1>0. TypeInv'
  BY TypeStep
<1>1. CASE UNCHANGED vars
  BY <1>0, <1>1 DEF vars, server, client, net, ConvInv, Linked, AtServer, Queue, NoInnocentStop,
     Stage, New, Says, Chosen
<1>2. ASSUME NEW c \in Clients, Client(c) PROVE ConvInv'
  BY <1>0, <1>2, ClientStep
<1>3. ASSUME NEW c \in Clients, Kill(c) PROVE ConvInv'
  BY <1>0, <1>3, KillStep
<1>4. CASE Alarm \/ Interrupt \/ LastBatch \/ TypeLost \/ AnswerFails \/ IndexLost
  BY <1>0, <1>4, EndStep
<1>5. CASE EpollWait \/ EndBatch \/ \E c \in Clients : Serve(c)
  BY <1>0, <1>5, LoopStep
<1>6. CASE Accept \/ AcceptFails \/ EpollCtlFails
  BY <1>0, <1>6, AcceptStep
<1>7. CASE ReadType
  BY <1>0, <1>7, ReadTypeStep
<1>8. CASE SendArray \/ SendCode
  BY <1>0, <1>8, AnswerStep
<1>9. CASE ReadIndex \/ ReadNoIndex
  BY <1>0, <1>9, IndexStep
<1>10. CASE CloseConnection
  BY <1>0, <1>10, CloseStep
<1> QED
  BY <1>1, <1>2, <1>3, <1>4, <1>5, <1>6, <1>7, <1>8, <1>9, <1>10, Zenon DEF Next, Server

\* ConvInv holds in every reachable state.
LEMMA ConvAlways == Spec => []ConvInv
<1> QED BY ConvInit, ConvStep, PTL DEF Spec

\* The program keeps its types, and no more than two messages are ever on the
\* way to the server and one to a client (read and write of server.c and
\* client.c).
THEOREM Types == Spec => []TypeOK
<1>1. ConvInv => TypeOK
  BY DEF ConvInv, TypeInv, TypeOK, Linked, Talking
<1> QED BY <1>1, ConvAlways, PTL

\* The server and a client never wait for one another: while the server is in a
\* read (request_type, writer), its client is not in one of its own.
THEOREM NobodyWaitsInVain == Spec => []InStep
<1>1. ConvInv => InStep
  <2> SUFFICES ASSUME ConvInv, spc \in {"type", "index"}, link[cur] = "open",
                      up[cur] = <<>>, down[cur] = <<>>, cpc[cur] \in {"getarray", "getcode"}
               PROVE  FALSE
    BY DEF InStep
  <2>1. Stage(cur)
    BY DEF ConvInv, AtServer, Talking
  <2> QED BY <2>1 DEF Stage, New, Says
<1> QED BY <1>1, ConvAlways, PTL

\* A conversation is never divided: the index that the server reads in writer is
\* the first free one of the array as it is at that moment.
THEOREM ConversationUndivided == Spec => []ConversationAtomic
<1>1. ConvInv => ConversationAtomic
  BY DEF ConvInv, AtServer, Talking, Stage, Says, ConversationAtomic, Received
<1> QED BY <1>1, ConvAlways, PTL

\* Clients that go on living never stop the server with a read or a write that
\* fails (the exits of request_type, reader and writer).
THEOREM OnlyTheKilledStopIt == Spec => []NoInnocentStop
<1>1. ConvInv => NoInnocentStop
  BY DEF ConvInv
<1> QED BY <1>1, ConvAlways, PTL
=============================================================================
