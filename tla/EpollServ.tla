----------------------------- MODULE EpollServ -----------------------------
(***************************************************************************)
(* lab_022: a server with one thread that waits for its clients with       *)
(* epoll_wait and holds a whole conversation, a READ and a WRITE, with     *)
(* each one before it looks at the next (server.c), and the processes that *)
(* hold such conversations with it again and again (client.c).             *)
(*                                                                         *)
(* A connection is named after its client, which has one at a time.        *)
(***************************************************************************)
EXTENDS Integers, FiniteSets, Sequences

CONSTANTS Clients,     \* the client processes
          listenfd,    \* the listening socket, as an event of epoll
          BUFFERSIZE,  \* 26 in the code
          MAX_EVENTS,  \* events that one epoll_wait reports, 10 in the code
          MaxBacklog,  \* connections that wait for accept, from listen(5)
          MaxFaults    \* clients that are killed, accept and epoll_ctl that fail

ASSUME ConstantsAssumption ==
  /\ IsFiniteSet(Clients)
  /\ listenfd \notin Clients
  /\ BUFFERSIZE \in 1 .. 26
  /\ {MAX_EVENTS, MaxBacklog} \subseteq Nat \ {0}
  /\ MaxFaults \in Nat

VARIABLES
  spc,      \* where the server stands
  cur,      \* the connection in hand, listenfd when there is none
  request,  \* which of its requests is served
  batch,    \* the events of the last epoll_wait not yet looked at
  busy,     \* the cells of buf that hold a space
  why,      \* auxiliary: why the server ended
  cpc,      \* where each client stands
  index,    \* the index each client is to ask for
  link,     \* the server's end of each connection
  up, down, \* the bytes on the way to the server and to the client
  backlog,  \* the connections that wait for accept, oldest first
  faults    \* auxiliary: how many faults there were

server == <<spc, cur, request, batch, busy, why>>
client == <<cpc, index>>
net    == <<link, up, down, backlog>>
vars   == <<server, client, net, faults>>

\* The two request types; an index travels as the same four bytes.
READ == 0
WRITE == 1

Cells == 0 .. BUFFERSIZE - 1

\* What the server sends: the whole array, or the code e, which is always 0.
Array(b) == [kind |-> "array", busy |-> b]
Code == [kind |-> "code", busy |-> {}]

Init ==
  /\ spc = "wait" /\ cur = listenfd /\ request = 0 /\ batch = {}
  /\ busy = {}
  /\ why = "no"
  /\ cpc = [c \in Clients |-> "connect"]
  /\ index = [c \in Clients |-> 0]
  /\ link = [c \in Clients |-> "none"]
  /\ up = [c \in Clients |-> <<>>]
  /\ down = [c \in Clients |-> <<>>]
  /\ backlog = <<>>
  /\ faults = 0

Dead == {c \in Clients : cpc[c] \in {"gone", "killed"}}
Open == {c \in Clients : link[c] = "open"}

\* The client has left the connection that the server holds.
HungUp(c) == c \in Dead \/ link[c] # "open"
-----------------------------------------------------------------------------
(* The client.                                                             *)

Step(c, from, to) ==
  /\ cpc[c] = from
  /\ cpc' = [cpc EXCEPT ![c] = to]

\* connect: succeeds as soon as the connection is queued for accept.
Connect(c) ==
  /\ Step(c, "connect", "sendread")
  /\ spc # "ended"
  /\ Len(backlog) < MaxBacklog
  /\ link' = [link EXCEPT ![c] = "queued"]
  /\ backlog' = Append(backlog, c)
  /\ UNCHANGED <<server, index, up, down, faults>>

ConnectFails(c) ==
  /\ Step(c, "connect", "gone")
  /\ spc = "ended"
  /\ UNCHANGED <<server, index, net, faults>>

\* write: what is sent to an end that is closed goes nowhere.
Send(c, msg) ==
  /\ up' = IF link[c] = "closed" THEN up ELSE [up EXCEPT ![c] = Append(@, msg)]
  /\ UNCHANGED <<server, index, link, down, backlog, faults>>

SendRead(c) == Step(c, "sendread", "getarray") /\ Send(c, READ)
SendWrite(c) == Step(c, "sendwrite", "sendindex") /\ Send(c, WRITE)

\* Fault: the index is not sent.
SendIndexForgotten(c) ==
  /\ Step(c, "sendindex", "getcode")
  /\ UNCHANGED <<server, index, net, faults>>

SendIndex(c) == Step(c, "sendindex", "getcode") /\ Send(c, index[c])

\* The first cell that is not a space; cell 0 when all of them are.
FirstFree(b) ==
  IF b = Cells THEN 0
  ELSE CHOOSE i \in Cells \ b : \A j \in Cells \ b : i <= j

\* read of the array, and the search for the index.
GetArray(c) ==
  /\ Step(c, "getarray", "sendwrite")
  /\ down[c] # <<>>
  /\ index' = [index EXCEPT ![c] = FirstFree(Head(down[c]).busy)]
  /\ down' = [down EXCEPT ![c] = Tail(@)]
  /\ UNCHANGED <<server, link, up, backlog, faults>>

\* The end of the conversation; what is left of the connection is dropped.
Close(c) ==
  /\ link' = [link EXCEPT ![c] = "none"]
  /\ up' = [up EXCEPT ![c] = <<>>]
  /\ down' = [down EXCEPT ![c] = <<>>]
  /\ UNCHANGED <<server, index, backlog, faults>>

GetCode(c) ==
  /\ Step(c, "getcode", "connect")
  /\ down[c] # <<>>
  /\ Close(c)

\* read gives 0 at an end of file, which the client does not look at: it goes
\* on with what its buffer held before.
GetNothing(c) ==
  /\ link[c] = "closed" /\ down[c] = <<>>
  /\ \/ Step(c, "getarray", "sendwrite") /\ UNCHANGED <<server, index, net, faults>>
     \/ Step(c, "getcode", "connect") /\ Close(c)

\* read or write fails on a connection that the server closed, or the write
\* raises SIGPIPE: the client ends.  An answer that was sent before is not lost
\* unless the server closed the connection with something unread.
ClientFails(c) ==
  /\ link[c] = "closed"
  /\ down[c] = <<>> \/ up[c] # <<>>
  /\ cpc[c] \notin {"connect", "gone", "killed"}
  /\ cpc' = [cpc EXCEPT ![c] = "gone"]
  /\ UNCHANGED <<server, index, net, faults>>

Client(c) ==
  \/ Connect(c) \/ ConnectFails(c) \/ SendRead(c) \/ GetArray(c) \/ SendWrite(c)
  \/ SendIndex(c) \/ GetCode(c) \/ GetNothing(c) \/ ClientFails(c)

\* The client is killed in the middle of anything.
Kill(c) ==
  /\ c \notin Dead
  /\ faults < MaxFaults
  /\ faults' = faults + 1
  /\ cpc' = [cpc EXCEPT ![c] = "killed"]
  /\ UNCHANGED <<server, index, net>>
-----------------------------------------------------------------------------
(* The server.                                                             *)

\* The process ends and every connection with it.
Ends(reason) ==
  /\ spc' = "ended" /\ why' = reason
  /\ cur' = listenfd /\ request' = 0 /\ batch' = {}
  /\ link' = [c \in Clients |-> IF link[c] = "none" THEN "none" ELSE "closed"]
  /\ backlog' = <<>>
  /\ UNCHANGED <<busy, up, down, client, faults>>

\* A connection is ready when there is something to read or its client has
\* gone, the listening socket when there is somebody to accept.
Ready == {c \in Open : up[c] # <<>> \/ c \in Dead}
         \cup {e \in {listenfd} : backlog # <<>>}

\* The batch is any part of them: some may become ready just too late for it.
EpollWait ==
  /\ spc = "wait"
  /\ Ready # {}
  /\ spc' = "dispatch"
  /\ \E b \in SUBSET Ready :
       /\ b # {} /\ Cardinality(b) <= MAX_EVENTS
       /\ batch' = b
  /\ UNCHANGED <<cur, request, busy, why, client, net, faults>>

\* The loop is left after its 10000th batch, which may be any one here.
EndBatch ==
  /\ spc = "dispatch" /\ batch = {}
  /\ spc' = "wait"
  /\ UNCHANGED <<cur, request, batch, busy, why, client, net, faults>>

LastBatch ==
  /\ spc = "dispatch" /\ batch = {}
  /\ Ends("rounds")

\* accept and epoll_ctl, and what happens when one of them fails.
Accepts ==
  /\ spc = "dispatch" /\ listenfd \in batch
  /\ batch' = batch \ {listenfd}
  /\ UNCHANGED <<spc, cur, request, busy, why, client, up, down>>

Accept ==
  /\ Accepts
  /\ link' = [link EXCEPT ![Head(backlog)] = "open"]
  /\ backlog' = Tail(backlog)
  /\ UNCHANGED faults

AcceptFails ==
  /\ Accepts
  /\ faults < MaxFaults
  /\ faults' = faults + 1
  /\ UNCHANGED <<link, backlog>>

EpollCtlFails ==
  /\ Accepts
  /\ faults < MaxFaults
  /\ faults' = faults + 1
  /\ link' = [link EXCEPT ![Head(backlog)] = "closed"]
  /\ backlog' = Tail(backlog)

\* request_type is called, and sets the alarm for its first read.
Serve(c) ==
  /\ spc = "dispatch" /\ c \in batch \ {listenfd}
  /\ batch' = batch \ {c}
  /\ spc' = "type" /\ cur' = c /\ request' = 1
  /\ UNCHANGED <<busy, why, client, net, faults>>

\* Fault: one request for each event, and the connection stays open.
ReturnAfterOne ==
  /\ request' = IF request = 1 /\ spc = "array" THEN 0 ELSE 2
  /\ spc' = IF request = 1 /\ spc = "array" THEN "dispatch" ELSE "close"

\* Fault: three requests, i <= 2 for i < 2.
NextOfThree ==
  /\ request' = request + 1
  /\ spc' = IF request < 3 THEN "type" ELSE "close"

\* After a request: the second one, or close().
NextRequest ==
  /\ request' = request + 1
  /\ spc' = IF request < 2 THEN "type" ELSE "close"

Received(c) == link[c] = "open" /\ up[c] # <<>>

ReadType ==
  /\ spc = "type"
  /\ Received(cur)
  /\ up' = [up EXCEPT ![cur] = Tail(@)]
  /\ CASE Head(up[cur]) = READ -> spc' = "array" /\ UNCHANGED request
       [] Head(up[cur]) = WRITE -> spc' = "index" /\ UNCHANGED request
       [] OTHER -> NextRequest
  /\ UNCHANGED <<cur, batch, busy, why, client, link, down, backlog, faults>>

\* The alarm of five seconds ends the server when the type is late.
Alarm ==
  /\ spc = "type"
  /\ Ends("alarm")

\* read gives no type: the server exits.  When the client is dead what it had
\* sent may be lost with the connection.
TypeLost ==
  /\ spc = "type"
  /\ HungUp(cur)
  /\ Ends("peer")

\* Fault: nothing is written.
AnswerForgotten(msg) ==
  /\ NextRequest
  /\ UNCHANGED <<cur, batch, busy, why, client, net, faults>>

Answer(msg) ==
  /\ NextRequest
  /\ down' = IF HungUp(cur) THEN down ELSE [down EXCEPT ![cur] = Append(@, msg)]
  /\ UNCHANGED <<cur, batch, busy, why, client, link, up, backlog, faults>>

SendArray == spc = "array" /\ Answer(Array(busy))
SendCode == spc = "code" /\ Answer(Code)

\* write fails, or raises SIGPIPE.
AnswerFails ==
  /\ spc \in {"array", "code"}
  /\ HungUp(cur)
  /\ Ends("peer")

\* A cell in use is given back, a free one is booked.
Flip(i) == IF i \in busy THEN busy \ {i} ELSE busy \cup {i}

\* writer: the index, with no alarm set.
ReadIndex ==
  /\ spc = "index"
  /\ Received(cur)
  /\ up' = [up EXCEPT ![cur] = Tail(@)]
  /\ busy' = IF Head(up[cur]) \in Cells THEN Flip(Head(up[cur])) ELSE busy
  /\ spc' = "code"
  /\ UNCHANGED <<cur, request, batch, why, client, link, down, backlog, faults>>

\* At an end of file read gives 0 and index is whatever the stack holds.
ReadNoIndex ==
  /\ spc = "index"
  /\ HungUp(cur)
  /\ \/ busy' = busy
     \/ \E i \in Cells : busy' = Flip(i)
  /\ spc' = "code"
  /\ UNCHANGED <<cur, request, batch, why, client, net, faults>>

IndexLost ==
  /\ spc = "index"
  /\ HungUp(cur)
  /\ Ends("peer")

\* main closes the connection; its client may have a new one by now.
CloseConnection ==
  /\ spc = "close"
  /\ spc' = "dispatch" /\ cur' = listenfd /\ request' = 0
  /\ link' = IF link[cur] = "open" THEN [link EXCEPT ![cur] = "closed"] ELSE link
  /\ UNCHANGED <<batch, busy, why, client, up, down, backlog, faults>>

\* SIGINT.
Interrupt ==
  /\ spc # "ended"
  /\ Ends("sigint")

Server ==
  \/ EpollWait \/ EndBatch \/ LastBatch \/ Accept \/ AcceptFails \/ EpollCtlFails
  \/ \E c \in Clients : Serve(c)
  \/ ReadType \/ TypeLost \/ SendArray \/ SendCode \/ AnswerFails
  \/ ReadIndex \/ ReadNoIndex \/ IndexLost \/ CloseConnection

Next ==
  \/ Server \/ Alarm \/ Interrupt
  \/ \E c \in Clients : Client(c) \/ Kill(c)

Spec == Init /\ [][Next]_vars

\* The processes run.  epoll keeps the ready descriptors in a queue: one that
\* is ready again and again is reported at last, however many others are.
\* Nobody owes a signal, and an alarm need not ring.
FairSpec ==
  /\ Spec
  /\ WF_vars(Server)
  /\ \A c \in Clients : WF_vars(Client(c))
  /\ \A e \in Clients \cup {listenfd} : SF_vars(EpollWait /\ e \in batch')
-----------------------------------------------------------------------------
(* What is claimed of the server and its clients.                          *)

\* Every variable holds a value of its kind; no more than two messages are
\* ever on the way to the server and one to the client.
TypeOK ==
  /\ spc \in {"wait", "dispatch", "type", "array", "index", "code", "close", "ended"}
  /\ cur \in Clients \cup {listenfd}
  /\ request \in 0 .. 3
  /\ batch \subseteq Clients \cup {listenfd}
  /\ busy \subseteq Cells
  /\ why \in {"no", "rounds", "alarm", "peer", "sigint"}
  /\ cpc \in [Clients -> {"connect", "sendread", "getarray", "sendwrite",
                          "sendindex", "getcode", "gone", "killed"}]
  /\ index \in [Clients -> Cells]
  /\ link \in [Clients -> {"none", "queued", "open", "closed"}]
  /\ \A c \in Clients : Len(up[c]) <= 2 /\ Len(down[c]) <= 1
  /\ faults \in 0 .. MaxFaults

\* The server and a client never wait for one another: while the server reads,
\* its client is on the way to a write, or has gone, or has left bytes behind.
InStep ==
  \A c \in Clients :
    ~ /\ spc \in {"type", "index"} /\ cur = c /\ link[c] = "open"
      /\ up[c] = <<>> /\ down[c] = <<>>
      /\ cpc[c] \in {"getarray", "getcode"}

\* A conversation is never divided: the index that a client found in its copy
\* of the array is still the first free one when the server reads it.
ConversationAtomic ==
  spc = "index" /\ Received(cur) => Head(up[cur]) = FirstFree(busy)

\* A client that goes on living never makes a read or a write of the server
\* fail: the server ends on such a failure only when a client was killed.  What
\* else ends it, its alarm, its own calls, is not meant.
NoInnocentStop ==
  why = "peer" => \E c \in Clients : cpc[c] = "killed"

\* Whoever has asked for the array is through with its conversation at last, also
\* when the server ends in the middle of it.
ClientsServed ==
  \A c \in Clients :
    cpc[c] = "getarray" ~> cpc[c] \in {"connect", "gone", "killed"}
=============================================================================
