---------------------------- MODULE SelectServer ----------------------------
(***************************************************************************)
(* The select() server of ipc/server.c: one process and one loop around    *)
(* all its connections.  A connection is known by its client; a step of    *)
(* the server is one system call.                                          *)
(***************************************************************************)
EXTENDS Integers, Sequences

CONSTANTS
  Clients,
  Free,        \* what a descriptor that is not open refers to
  Listener,    \* what sd refers to
  sd,          \* the descriptor of make_socket(): the lowest that is free
  MAX_FDS,     \* the kernel's limit of descriptors of a process
  FD_SETSIZE,
  BACKLOG,     \* connections the kernel lets wait for accept()
  BUFSIZE,
  MaxSent      \* bound: bytes a client sends

ASSUME SelectAssumption ==
  /\ sd \in Nat /\ MAX_FDS \in Nat /\ FD_SETSIZE \in Nat
  /\ sd < MAX_FDS /\ MAX_FDS <= FD_SETSIZE
  /\ BACKLOG \in Nat \ {0} /\ BUFSIZE \in Nat \ {0, 1} /\ MaxSent \in Nat
  /\ Free \notin Clients /\ Listener \notin Clients /\ Free # Listener

VARIABLES
  table,       \* table[d]: what the descriptor d refers to
  active,      \* active_fd_set
  ready,       \* what is left of read_fd_set in this pass of the for loop
  pc,          \* "select", "scan", "exited"
  queue,       \* connections that wait for accept()
  sent,        \* sent[c]: bytes c has sent
  heard,       \* heard[c]: of which the server has read so many
  end          \* end[c]: "none" before c connects, "open", then "fin" or "rst"

server == <<table, active, ready, pc, heard>>
vars == <<table, active, ready, pc, queue, sent, heard, end>>

Fds == sd..(MAX_FDS - 1)

Init ==
  /\ table = [d \in Fds |-> IF d = sd THEN Listener ELSE Free]
  /\ active = {sd}
  /\ ready = {}
  /\ pc = "select"
  /\ queue = <<>>
  /\ sent = [c \in Clients |-> 0]
  /\ heard = [c \in Clients |-> 0]
  /\ end = [c \in Clients |-> "none"]

-----------------------------------------------------------------------------
(***************************************************************************)
(* The clients and the network.                                            *)
(***************************************************************************)
Connect(c) ==
  /\ end[c] = "none"
  /\ Len(queue) < BACKLOG
  /\ queue' = Append(queue, c)
  /\ end' = [end EXCEPT ![c] = "open"]
  /\ UNCHANGED <<server, sent>>

SendByte(c) ==
  /\ end[c] = "open"
  /\ sent[c] < MaxSent
  /\ sent' = [sent EXCEPT ![c] = @ + 1]
  /\ UNCHANGED <<server, queue, end>>

\* The client closes its end, or breaks the connection.
Leave(c) ==
  /\ end[c] = "open"
  /\ \E how \in {"fin", "rst"} : end' = [end EXCEPT ![c] = how]
  /\ UNCHANGED <<server, queue, sent>>

-----------------------------------------------------------------------------
(***************************************************************************)
(* The server.                                                             *)
(***************************************************************************)

\* A call on d returns at once.  At end of file, or when the connection has
\* been reset, it always does.
Readable(d) ==
  \/ table[d] = Listener /\ queue # <<>>
  \/ /\ table[d] \in Clients
     /\ sent[table[d]] > heard[table[d]] \/ end[table[d]] \in {"fin", "rst"}

\* select() with the set of all active descriptors; EBADF if one is not open.
\* Slip: read_fd_set is taken for what select() would return.
SelectedAll(set) == set
Selected(set) == {d \in set : Readable(d)}
Select ==
  /\ pc = "select"
  /\ IF \E d \in active : table[d] = Free
     THEN pc' = "exited" /\ UNCHANGED ready
     ELSE /\ \E d \in active : Readable(d)
          /\ ready' = Selected(active)
          /\ pc' = "scan"
  /\ UNCHANGED <<table, active, queue, sent, heard, end>>

\* The for loop has come to the descriptor d, the next one of read_fd_set.
\* Slip: the loop is left after the first.
AtFirstOnly(d) ==
  /\ pc = "scan"
  /\ d \in ready /\ \A e \in ready : d <= e
  /\ ready' = {}
At(d) ==
  /\ pc = "scan"
  /\ d \in ready /\ \A e \in ready : d <= e
  /\ ready' = ready \ {d}

\* accept() takes the lowest descriptor that is free.
\* Slip: FD_SET() is off by one in its guard against FD_SETSIZE.
AcceptIntoLeaking(new) ==
  /\ table' = [table EXCEPT ![new] = Head(queue)]
  /\ active' = IF new >= FD_SETSIZE - 1 THEN active ELSE active \cup {new}
AcceptInto(new) ==
  /\ table' = [table EXCEPT ![new] = Head(queue)]
  /\ active' = active \cup {new}
Accept(d) ==
  /\ At(d)
  /\ table[d] = Listener /\ queue # <<>>
  /\ \E new \in Fds :
       /\ table[new] = Free
       /\ \A e \in Fds : table[e] = Free => new <= e
       /\ AcceptInto(new)
  /\ queue' = Tail(queue)
  /\ UNCHANGED <<pc, sent, heard, end>>

\* EMFILE: the connection stays where it is.
AcceptFails(d) ==
  /\ At(d)
  /\ table[d] = Listener /\ queue # <<>>
  /\ \A e \in Fds : table[e] # Free
  /\ UNCHANGED <<table, active, pc, queue, sent, heard, end>>

\* Data; what is behind them is left for the next pass.
ReadData(d) ==
  /\ At(d)
  /\ table[d] \in Clients
  /\ LET c == table[d]
         there == sent[c] - heard[c]
     IN /\ there > 0
        /\ heard' = [heard EXCEPT ![c] = @ + IF there < BUFSIZE THEN there ELSE BUFSIZE - 1]
  /\ UNCHANGED <<table, active, pc, queue, sent, end>>

\* End of file: 0 bytes, which are printed; the descriptor stays active.
ReadEnd(d) ==
  /\ At(d)
  /\ table[d] \in Clients
  /\ end[table[d]] = "fin" /\ sent[table[d]] = heard[table[d]]
  /\ UNCHANGED <<table, active, pc, queue, sent, heard, end>>

\* ECONNRESET.
\* Slip: the descriptor stays in active_fd_set.
ReadFailsKeeping(d) ==
  /\ At(d)
  /\ table[d] \in Clients
  /\ end[table[d]] = "rst" /\ sent[table[d]] = heard[table[d]]
  /\ table' = [table EXCEPT ![d] = Free]
  /\ UNCHANGED <<active, pc, queue, sent, heard, end>>
ReadFails(d) ==
  /\ At(d)
  /\ table[d] \in Clients
  /\ end[table[d]] = "rst" /\ sent[table[d]] = heard[table[d]]
  /\ table' = [table EXCEPT ![d] = Free]
  /\ active' = active \ {d}
  /\ UNCHANGED <<pc, queue, sent, heard, end>>

\* The for loop is over.
PassEnds ==
  /\ pc = "scan" /\ ready = {}
  /\ pc' = "select"
  /\ UNCHANGED <<table, active, ready, queue, sent, heard, end>>

Server ==
  \/ Select \/ PassEnds
  \/ \E d \in Fds : Accept(d) \/ AcceptFails(d) \/ ReadData(d) \/ ReadEnd(d) \/ ReadFails(d)
Next == Server \/ \E c \in Clients : Connect(c) \/ SendByte(c) \/ Leave(c)

Spec == Init /\ [][Next]_vars

\* The kernel runs the server whenever it is not blocked in select().
FairSpec == Spec /\ WF_vars(Server)

-----------------------------------------------------------------------------
Served == {table[d] : d \in Fds} \cap Clients

TypeOK ==
  /\ table \in [Fds -> Clients \cup {Free, Listener}]
  /\ active \subseteq Fds /\ ready \subseteq Fds
  /\ pc \in {"select", "scan", "exited"}
  /\ queue \in Seq(Clients)
  /\ sent \in [Clients -> 0..MaxSent]
  /\ heard \in [Clients -> 0..MaxSent]
  /\ end \in [Clients -> {"none", "open", "fin", "rst"}]

(***************************************************************************)
(* The server watches what is open and nothing else: select() never fails  *)
(* with EBADF, which ends the server, and no connection is forgotten,      *)
(* whatever descriptors are closed and used again.                         *)
(***************************************************************************)
WatchesTheOpen == pc # "exited" /\ active = {d \in Fds : table[d] # Free}

(***************************************************************************)
(* Though the answer of select() is used a good while later, after other   *)
(* descriptors were accepted, read and closed, no accept() or read() of    *)
(* the pass blocks: one silent client would stop all the others.           *)
(***************************************************************************)
NeverBlocks == \A d \in ready : Readable(d)

(***************************************************************************)
(* What a client that has a descriptor sends is read in the end, though    *)
(* connections at end of file, which are never closed, and those that no   *)
(* descriptor is left for wake select() without end.                       *)
(***************************************************************************)
EveryoneHeard ==
  \A c \in Clients : \A n \in 1..MaxSent :
    (c \in Served /\ sent[c] >= n) ~> heard[c] >= n

-----------------------------------------------------------------------------
(***************************************************************************)
(* What makes the two invariants inductive: sd is the one listening        *)
(* socket, the server reads no more than was sent, and a connection has    *)
(* one place, in the backlog or at a descriptor (two descriptors of the    *)
(* same connection would be readable together, and the second read block). *)
(***************************************************************************)
Waiting == {queue[i] : i \in 1..Len(queue)}
Fresh ==
  /\ \A d, e \in Fds : table[d] \in Clients /\ table[d] = table[e] => d = e
  /\ \A d \in Fds : table[d] \notin Waiting
  /\ \A i, j \in 1..Len(queue) : queue[i] = queue[j] => i = j
  /\ \A c \in Waiting \cup Served : end[c] # "none"
Sane ==
  /\ \A d \in Fds : table[d] = Listener <=> d = sd
  /\ ready \subseteq active
  /\ \A c \in Clients : heard[c] <= sent[c]
IInv == TypeOK /\ Sane /\ Fresh /\ WatchesTheOpen /\ NeverBlocks
=============================================================================
