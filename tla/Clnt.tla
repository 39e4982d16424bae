-------------------------------- MODULE Clnt --------------------------------
(***************************************************************************)
(* lab_02/clnt.c, the client of the shared array, composed with the server *)
(* of ForkServ.  A connection is one turn of the client's loop: it reads   *)
(* the array, sleeps, and asks for the first letter that was free.         *)
(*                                                                         *)
(* The clients of some connections are other programs, which send what     *)
(* ForkServ lets any client send.                                          *)
(***************************************************************************)
EXTENDS ForkServ, Sequences

CONSTANT Mixes       \* the sets of connections that clnt.c may open

ASSUME MixesAssumption == Mixes \subseteq SUBSET Conns

VARIABLES
  ours,      \* the connections that clnt.c opens
  cpc,       \* where the client of each of them stands
  up, down,  \* what each side has written and the other has not read
  seen,      \* str of the client: the array it read
  freeindex,
  letter     \* result of the client, NUL before it comes

client == <<ours, cpc, up, down, seen, freeindex, letter>>
allvars == <<vars, client>>

READ == 0
WRITE == 1
Waiting == {"array", "code", "letter"}

ClntInit ==
  /\ Init
  /\ ours \in Mixes
  /\ cpc = [c \in Conns |-> "out"]
  /\ up = [c \in Conns |-> <<>>]
  /\ down = [c \in Conns |-> <<>>]
  /\ seen = [c \in Conns |-> <<>>]
  /\ freeindex = [c \in Conns |-> 0]
  /\ letter = [c \in Conns |-> NUL]
-----------------------------------------------------------------------------
(* The client.                                                             *)

\* A child closes lstnfd first of all, as part of Fork here, so that the
\* socket lives as long as the parent: then a client is refused, and one that
\* waits in the queue is reset.  Until then a client may connect when nobody
\* will ever accept it.
Listening == mpc # "ended"

Turn(c, from, to) ==
  /\ c \in ours
  /\ cpc[c] = from
  /\ cpc' = [cpc EXCEPT ![c] = to]
  /\ UNCHANGED <<vars, ours>>

Connect(c) ==
  /\ IF Listening
     THEN Turn(c, "out", "array") /\ up' = [up EXCEPT ![c] = <<READ>>]
     ELSE Turn(c, "out", "gone") /\ UNCHANGED up
  /\ UNCHANGED <<down, seen, freeindex, letter>>

Receive(c) ==
  /\ down[c] # <<>>
  /\ down' = [down EXCEPT ![c] = Tail(@)]

GetArray(c) ==
  /\ Turn(c, "array", "choose")
  /\ Receive(c)
  /\ seen' = [seen EXCEPT ![c] = Head(down[c])]
  /\ UNCHANGED <<up, freeindex, letter>>

\* Fault: the last cell is never asked for.
FirstFreeButLast(str_) ==
  LET free == {i \in Cells : str_[i] # ARRAY_ELEMENT_BUSY /\ i # ARRAY_SIZE - 1}
  IN  IF free = {} THEN -1 ELSE CHOOSE i \in free : \A j \in free : i <= j

FirstFree(str_) ==
  LET free == {i \in Cells : str_[i] # ARRAY_ELEMENT_BUSY}
  IN  IF free = {} THEN -1 ELSE CHOOSE i \in free : \A j \in free : i <= j

\* After the sleep; -1, when nothing is free, is sent like any other index.
Choose(c) ==
  /\ Turn(c, "choose", "code")
  /\ freeindex' = [freeindex EXCEPT ![c] = FirstFree(seen[c])]
  /\ up' = [up EXCEPT ![c] = @ \o <<WRITE, freeindex'[c]>>]
  /\ UNCHANGED <<down, seen, letter>>

\* The turn is over, with a code that says why not; or the letter follows.
GetCode(c) ==
  /\ Receive(c)
  /\ Turn(c, "code", IF Head(down[c]) = OK THEN "letter" ELSE "gone")
  /\ UNCHANGED <<up, seen, freeindex, letter>>

GetLetter(c) ==
  /\ Turn(c, "letter", "gone")
  /\ Receive(c)
  /\ letter' = [letter EXCEPT ![c] = Head(down[c])]
  /\ UNCHANGED <<up, seen, freeindex>>

\* Fault: a client that has been cut off goes on waiting.
NeverCut(c) ==
  /\ FALSE
  /\ UNCHANGED allvars

\* Nobody has a descriptor of the connection, or of the socket in whose queue
\* it waits: the client's read says so.
Cut(c) ==
  /\ cpc[c] \in Waiting /\ Turn(c, cpc[c], "gone")
  /\ down[c] = <<>>
  /\ \/ pc[c] \in Over /\ holders[c] = {}
     \/ pc[c] = "none" /\ ~ Listening
  /\ UNCHANGED <<up, down, seen, freeindex, letter>>

\* SIGINT or the end of the client: it closes its socket.
Leave(c) ==
  /\ cpc[c] \in Waiting \cup {"choose"} /\ Turn(c, cpc[c], "gone")
  /\ UNCHANGED <<up, down, seen, freeindex, letter>>

ClientRuns(c) ==
  \/ GetArray(c) \/ Choose(c) \/ GetCode(c) \/ GetLetter(c) \/ Cut(c)
-----------------------------------------------------------------------------
(* The server's steps and the connection.                                  *)

ClientStays == UNCHANGED <<ours, cpc, seen, freeindex, letter>>

\* What a step of the child writes to the client, if it is one that writes.
Answer(c) ==
  CASE pc[c] = "rsend" -> <<arr[c]>>
    [] pc[c] = "wrc"   -> <<rc[c]>>
    [] pc[c] = "wres"  -> <<result[c]>>
    [] OTHER -> <<>>

ChildRuns(c) ==
  /\ Runs(c)
  /\ down' = IF c \in ours /\ cpc[c] # "gone"
             THEN [down EXCEPT ![c] = @ \o Answer(c)] ELSE down
  /\ UNCHANGED up /\ ClientStays

\* The child reads what the client has written, or that it has closed.
ChildReads(c) ==
  /\ c \in ours
  /\ \/ /\ up[c] # <<>>
        /\ \/ ReadType(c) /\ pc'[c] = IF Head(up[c]) = READ THEN "rstart" ELSE "windex"
           \/ \E i \in Indices : i = Head(up[c]) /\ ReadIndex(c, i)
        /\ up' = [up EXCEPT ![c] = Tail(@)]
     \/ /\ HangUp(c)
        /\ up[c] = <<>> /\ cpc[c] = "gone"
        /\ UNCHANGED up
  /\ UNCHANGED down /\ ClientStays

\* What else becomes of a child: another client's doing, a signal, an answer
\* to a client that has gone.
ChildMeets(c) ==
  /\ \/ c \notin ours /\ (ReadType(c) \/ \E i \in Indices : ReadIndex(c, i))
     \/ HangUp(c) /\ (c \in ours => c \in intr)
     \/ SendFails(c) /\ (c \in ours => cpc[c] = "gone")
     \/ ChildSignal(c) \/ SemInterrupted(c) \/ Kill(c)
  /\ UNCHANGED <<up, down>> /\ ClientStays

AcceptClient(c) ==
  /\ Accept(c)
  /\ c \in ours => up[c] # <<>>
  /\ UNCHANGED client

ParentRuns ==
  /\ \/ Test \/ AcceptFails \/ AcceptInterrupted \/ SignalHandler \/ CtrlC
     \/ \E c \in Conns : Fork(c) \/ ForkFails(c)
  /\ UNCHANGED client

ClntNext ==
  \/ ParentRuns
  \/ \E c \in Conns :
       \/ AcceptClient(c) \/ ChildRuns(c) \/ ChildReads(c) \/ ChildMeets(c)
       \/ Connect(c) \/ ClientRuns(c) \/ Leave(c)

\* As in ForkServ, and more: the connections and the clients that are ours do
\* their part, and accept returns when a client of ours is in the queue or no
\* descriptor is left.
ClntSpec ==
  /\ ClntInit /\ [][ClntNext]_allvars
  /\ \A c \in Conns :
       /\ SF_allvars(ChildRuns(c))
       /\ WF_allvars(ChildReads(c))
       /\ WF_allvars(ClientRuns(c))
  /\ WF_allvars((Test \/ \E c \in Conns : Fork(c) \/ ForkFails(c)) /\ UNCHANGED client)
  /\ WF_allvars((SignalHandler \/ AcceptInterrupted) /\ UNCHANGED client)
  /\ WF_allvars((AcceptFails /\ UNCHANGED client) \/ \E c \in ours : AcceptClient(c))
-----------------------------------------------------------------------------
\* The client chose from a copy that others may have overtaken, and yet the
\* letter it gets is the one it saw; code and letter are never mistaken for
\* each other, although they come over one connection without a frame.
LetterAsSeen ==
  \A c \in ours :
    /\ letter[c] # NUL => letter[c] = seen[c][freeindex[c]]
    /\ down[c] # <<>> =>
         /\ cpc[c] = "code" => Head(down[c]) \in {OK, WRITE_BUSY_ERROR, RANGE_ERROR}
         /\ cpc[c] = "letter" => Head(down[c]) = seen[c][freeindex[c]]

\* When nobody but clnt.c speaks to it, the server is stopped only when every
\* letter has been taken: that is how the index -1 is reached.
StoppedOnlyWhenEmpty ==
  ours = Conns /\ ~ Terminal /\ (sigint \/ ~ flag) =>
    \A i \in Cells : str[i] = ARRAY_ELEMENT_BUSY

\* Every turn ends, when nobody but clnt.c speaks to the server and no child
\* is killed: the letter, a code, or the end of the connection comes at last.
\* A client whose child is killed waits as long as the parent, and the children
\* forked later, live, since they keep the connection open.
ClientsServed ==
  []( ours = Conns /\ \A c \in Conns : pc[c] # "killed" ) =>
    \A c \in Conns : cpc[c] \in Waiting ~> cpc[c] \notin Waiting
=============================================================================
