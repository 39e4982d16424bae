------------------------------- MODULE Dgram -------------------------------
(* lab_01/part_3: a server that does sums for clients over Unix datagram    *)
(* sockets, and its clients, each bound to a name made of its pid.          *)
(*                                                                          *)
(* The server never sets client_len again, the length of the address buffer *)
(* that recvfrom turns into the length of the sender's name: once it is     *)
(* shorter than a name, the rest of the buffer is of earlier senders.       *)
(*                                                                          *)
(* Datagrams are neither lost nor reordered by a local socket; the queues,  *)
(* of ten, are longer than the clients can fill.  Lengths are counted from  *)
(* sa_data.                                                                 *)
EXTENDS Integers, Sequences, FiniteSets

CONSTANTS Clients,  \* the clients, by name: sequences of characters
          Kinds,    \* what is asked: "sum", "zero" for a division by zero, "unknown"
          Width,    \* of sa_data, 14 in the code
          Stack,    \* what the bytes of client_addr may be at first
          MaxAsks   \* bound on the requests of all clients

NUL == 0

(* A name is a string of the digits of a pid, '\0' not among them. *)
ASSUME NamesAssumption ==
    /\ Width \in Nat
    /\ \A c \in Clients : c \in Seq(Nat \ {NUL}) /\ Len(c) \in 1 .. Width - 1
    /\ Kinds \subseteq {"sum", "zero", "unknown"}
    /\ Stack # {} /\ MaxAsks \in Nat

VARIABLES
    server,      \* "off", "recvfrom", "sendto", or "killed"
    requests,    \* the queue of the server's socket: sender, number, kind
    op,          \* the request in hand
    client_addr, client_len,
    result,      \* the request whose result the variable holds
    client,      \* each client "asks", is "gone", or waits: the kind of its request
    asked,       \* the number of the last request of each
    asks,        \* requests so far, which numbers them, for MaxAsks
    answers,     \* the queue of each client's socket
    last, grew,  \* history: length of the name received last; a longer one followed
    zeros        \* history: a division by zero has been asked for

serverVars == <<server, op, client_addr, client_len, result>>
clientVars == <<client, asked, asks>>
history == <<last, grew, zeros>>
dgramVars == <<serverVars, requests, clientVars, answers, history>>

NoRequest == [from |-> <<>>, n |-> 0, kind |-> "none"]

DgramInit ==
    /\ server = "off" /\ requests = <<>> /\ op = NoRequest
    /\ client_addr \in {[i \in 1 .. Width |-> b] : b \in Stack}
    /\ client_len = Width
    /\ result = NoRequest
    /\ client = [c \in Clients |-> "asks"]
    /\ asked = [c \in Clients |-> 0] /\ asks = 0
    /\ answers = [c \in Clients |-> <<>>]
    /\ last = Width /\ grew = FALSE /\ zeros = FALSE

----------------------------------------------------------------------------
(* The server.  No handler of SIGINT is installed: it dies of it, and its   *)
(* name stays, so that bind fails from then on.                             *)
Start ==
    /\ server = "off" /\ server' = "recvfrom"
    /\ UNCHANGED <<op, client_addr, client_len, result, requests, clientVars, answers, history>>

Kill ==
    /\ server \in {"recvfrom", "sendto"} /\ server' = "killed"
    /\ requests' = <<>> /\ op' = NoRequest
    /\ UNCHANGED <<client_addr, client_len, result, clientVars, answers, history>>

(* The kernel writes no more than client_len bytes of a name and its '\0',  *)
(* and then sets client_len to all it would have written.                   *)
Name(c) == c \o <<NUL>>
Fits(c) == [i \in 1 .. Width |-> IF i <= client_len /\ i <= Len(Name(c)) THEN Name(c)[i]
                                 ELSE client_addr[i]]

\* Fault: a result is computed only once.
ComputedOnce(r) == IF r.kind = "sum" /\ result = NoRequest THEN r ELSE result

(* A division by zero is only reported, and an unknown operation too. *)
Computed(r) == IF r.kind = "sum" THEN r ELSE result

Recvfrom ==
    LET r == Head(requests)
    IN  /\ server = "recvfrom" /\ requests # <<>>
        /\ requests' = Tail(requests)
        /\ client_addr' = Fits(r.from)
        /\ client_len' = Len(Name(r.from))
        /\ result' = Computed(r)
        /\ IF r.kind = "unknown" THEN server' = "recvfrom" /\ op' = NoRequest
           ELSE server' = "sendto" /\ op' = r
        /\ last' = Len(r.from) /\ grew' = (grew \/ Len(r.from) > last)
        /\ UNCHANGED <<clientVars, answers, zeros>>

(* The name that the first client_len bytes of the buffer spell. *)
Addressed ==
    {c \in Clients : \E n \in 0 .. client_len :
        /\ c = SubSeq(client_addr, 1, n)
        /\ n = client_len \/ client_addr[n + 1] = NUL}

Deliver(c, r) == answers' = [answers EXCEPT ![c] = Append(@, r)]

\* Fault: only the client that was served first is answered.
SendtoFirst ==
    /\ server = "sendto" /\ server' = "recvfrom" /\ op' = NoRequest
    /\ IF op.n = 1 THEN \E c \in Addressed : Deliver(c, result) ELSE UNCHANGED answers
    /\ UNCHANGED <<client_addr, client_len, result, requests, clientVars, history>>

(* When nobody has the name, or has left, the failure is only reported. *)
Sendto ==
    /\ server = "sendto" /\ server' = "recvfrom" /\ op' = NoRequest
    /\ \/ \E c \in Addressed : client[c] # "gone" /\ Deliver(c, result)
       \/ (\A c \in Addressed : client[c] = "gone") /\ UNCHANGED answers
    /\ UNCHANGED <<client_addr, client_len, result, requests, clientVars, history>>

Server == Recvfrom \/ Sendto

----------------------------------------------------------------------------
(* A client. *)

Ask(c, kind) ==
    /\ client[c] = "asks" /\ server \in {"recvfrom", "sendto"} /\ asks < MaxAsks
    /\ asks' = asks + 1
    /\ asked' = [asked EXCEPT ![c] = asks']
    /\ requests' = Append(requests, [from |-> c, n |-> asks', kind |-> kind])
    /\ client' = [client EXCEPT ![c] = kind]
    /\ zeros' = (zeros \/ kind = "zero")
    /\ UNCHANGED <<serverVars, answers, last, grew>>

\* sendto finds no server behind the name, or not even the name.
AskFails(c) ==
    /\ client[c] = "asks" /\ server \in {"off", "killed"}
    /\ client' = [client EXCEPT ![c] = "gone"]
    /\ UNCHANGED <<serverVars, requests, asked, asks, answers, history>>

(* Any datagram is taken for the answer. *)
GetAnswer(c) ==
    /\ client[c] \in Kinds /\ answers[c] # <<>>
    /\ client' = [client EXCEPT ![c] = "asks"]
    /\ answers' = [answers EXCEPT ![c] = Tail(@)]
    /\ UNCHANGED <<serverVars, requests, asked, asks, history>>

handle_sigint(c) ==
    /\ client[c] # "gone"
    /\ client' = [client EXCEPT ![c] = "gone"]
    /\ answers' = [answers EXCEPT ![c] = <<>>]
    /\ UNCHANGED <<serverVars, requests, asked, asks, history>>

DgramNext ==
    \/ Start \/ Kill \/ Server
    \/ \E c \in Clients : \/ \E kind \in Kinds : Ask(c, kind)
                          \/ AskFails(c) \/ GetAnswer(c) \/ handle_sigint(c)

DgramSpec == DgramInit /\ [][DgramNext]_dgramVars

(* Server and clients run; nobody has to start or to ask. *)
DgramFairSpec == DgramSpec /\ WF_dgramVars(Server) /\ \A c \in Clients : WF_dgramVars(GetAnswer(c))
----------------------------------------------------------------------------
(* What lies in a client's queue is the answer to what it asked last, as    *)
(* long as no sender had a longer name than the sender before it and nobody *)
(* divided by zero.  A name that grows may send an answer to another client,*)
(* which takes it, and every later one, for the answer to another question; *)
(* after a division by zero an earlier result is sent.                      *)
OwnAnswers ==
    ~grew /\ ~zeros =>
        \A c \in Clients : answers[c] # <<>> =>
            /\ client[c] \in Kinds /\ Len(answers[c]) = 1
            /\ answers[c][1].from = c /\ answers[c][1].n = asked[c]

(* Whoever asks for a known operation is answered, if the server lives and  *)
(* no name has grown.  Whoever asks for another, or is waiting when the     *)
(* server is killed, waits for ever.                                        *)
Answered ==
    \A c \in Clients :
        client[c] \in {"sum", "zero"} ~>
            client[c] \in {"asks", "gone"} \/ server = "killed" \/ grew
=============================================================================
