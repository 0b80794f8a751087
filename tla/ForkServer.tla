----------------------------- MODULE ForkServer -----------------------------
(***************************************************************************)
(* The concurrent server of ipc/tcpserver.c: makeserver accepts one        *)
(* connection after the other and forks a child for each; sigchld_handler  *)
(* interrupts it to wait for the children that have ended.  What a child   *)
(* does with its connection is the business of the transfer modules.       *)
(*                                                                         *)
(* A client stands for the one connection it makes, for the child that     *)
(* serves it and for the parent's descriptor of it.                        *)
(***************************************************************************)
EXTENDS Integers, Sequences, FiniteSets

CONSTANTS
  Clients,       \* the clients that connect
  SERVER_QLEN,   \* the backlog given to listen()
  MAX_FDS,       \* how many connections the parent may have open at once
  MAX_CHILDREN,  \* how many children, dead ones included, fork() allows
  NoClient       \* sd before the first accept()

ASSUME ForkAssumption ==
  /\ IsFiniteSet(Clients)
  /\ SERVER_QLEN \in Nat
  /\ MAX_FDS \in Nat
  /\ MAX_CHILDREN \in Nat
  /\ NoClient \notin Clients

VARIABLES
  queue,     \* connections the kernel has set up and accept() has not taken
  held,      \* connections of which the parent has a descriptor
  sd,        \* the connection in makeserver's sd
  parent,    \* the call the parent is in: "accept", "fork"
  child,     \* child[c]: the process that serves c
  pending,   \* a SIGCHLD is waiting to be delivered to the parent
  handler    \* "idle", or "waitpid" while sigchld_handler runs

vars == <<queue, held, sd, parent, child, pending, handler>>

ChildState == {"none", "running", "zombie", "reaped"}
Children(s) == {c \in Clients : child[c] = s}
Members(q) == {q[i] : i \in 1..Len(q)}

Init ==
  /\ queue = <<>>
  /\ held = {}
  /\ sd = NoClient
  /\ parent = "accept"
  /\ child = [c \in Clients |-> "none"]
  /\ pending = FALSE
  /\ handler = "idle"

\* connect(): the kernel completes it while the backlog has room.
Connect(c) ==
  /\ c \notin held \cup Members(queue)
  /\ Len(queue) <= SERVER_QLEN
  /\ queue' = Append(queue, c)
  /\ UNCHANGED <<held, sd, parent, child, pending, handler>>

-----------------------------------------------------------------------------
(***************************************************************************)
(* makeserver.  The handler runs to its end before the parent goes on.  An *)
(* accept() that fails is tried again: the loop goes round with no effect. *)
(***************************************************************************)
\* Slip: a connection is accepted while the last one still waits for fork().
AcceptAgain ==
  /\ handler = "idle"
  /\ queue # <<>>
  /\ Cardinality(held) < MAX_FDS
  /\ sd' = Head(queue)
  /\ queue' = Tail(queue)
  /\ held' = held \cup {Head(queue)}
  /\ parent' = "fork"
  /\ UNCHANGED <<child, pending, handler>>
Accept ==
  /\ handler = "idle"
  /\ parent = "accept"
  /\ queue # <<>>
  /\ Cardinality(held) < MAX_FDS
  /\ sd' = Head(queue)
  /\ queue' = Tail(queue)
  /\ held' = held \cup {Head(queue)}
  /\ parent' = "fork"
  /\ UNCHANGED <<child, pending, handler>>

CanFork == Cardinality(Children("running") \cup Children("zombie")) < MAX_CHILDREN

\* fork(): only the child looks at what it returns.  The parent goes back to
\* accept() with sd still open, whether or not there is a child.
Fork ==
  /\ handler = "idle"
  /\ parent = "fork"
  /\ parent' = "accept"
  /\ IF CanFork
     THEN child' = [child EXCEPT ![sd] = "running"]
     ELSE UNCHANGED child
  /\ UNCHANGED <<queue, held, sd, pending, handler>>

\* The child ends, one way or another.  SIGCHLD is one bit: a second one is
\* lost while the first is pending.
ChildEnds(c) ==
  /\ child[c] = "running"
  /\ child' = [child EXCEPT ![c] = "zombie"]
  /\ pending' = TRUE
  /\ UNCHANGED <<queue, held, sd, parent, handler>>

(***************************************************************************)
(* sigchld_handler: one waitpid(WAIT_ANY, WNOHANG).  SIGCHLD is blocked    *)
(* while it runs; one that arrives meanwhile stays pending.                *)
(***************************************************************************)
\* Slip: the signal that is handled is not taken off the pending ones.
DeliverAgain ==
  /\ pending
  /\ handler = "idle"
  /\ handler' = "waitpid"
  /\ UNCHANGED <<queue, held, sd, parent, child, pending>>
Deliver ==
  /\ pending
  /\ handler = "idle"
  /\ pending' = FALSE
  /\ handler' = "waitpid"
  /\ UNCHANGED <<queue, held, sd, parent, child>>

\* Slip: the handler waits for every child that has ended.
WaitForAll ==
  /\ handler = "waitpid"
  /\ handler' = "idle"
  /\ child' = [c \in Clients |-> IF child[c] = "zombie" THEN "reaped" ELSE child[c]]
  /\ UNCHANGED <<queue, held, sd, parent, pending>>
Wait ==
  /\ handler = "waitpid"
  /\ handler' = "idle"
  /\ IF Children("zombie") = {}
     THEN UNCHANGED child
     ELSE \E c \in Children("zombie") : child' = [child EXCEPT ![c] = "reaped"]
  /\ UNCHANGED <<queue, held, sd, parent, pending>>

Parent == Accept \/ Fork \/ Deliver \/ Wait

Next ==
  \/ \E c \in Clients : Connect(c) \/ ChildEnds(c)
  \/ Parent

Spec == Init /\ [][Next]_vars

(***************************************************************************)
(* The kernel runs the parent whenever it can run.  Clients connect when   *)
(* they like and a child takes as long as it likes.                        *)
(***************************************************************************)
FairSpec == Spec /\ WF_vars(Parent)

-----------------------------------------------------------------------------
\* The types of the server's variables.
TypeOK ==
  /\ queue \in Seq(Clients)
  /\ held \subseteq Clients
  /\ sd \in Clients \cup {NoClient}
  /\ parent \in {"accept", "fork"}
  /\ parent = "fork" => sd \in Clients
  /\ child \in [Clients -> ChildState]
  /\ pending \in BOOLEAN
  /\ handler \in {"idle", "waitpid"}

(***************************************************************************)
(* The waitpid() of sigchld_handler always has a child to wait for: its    *)
(* error branch (tcpserver.c:13-14) is never taken, however the ends of    *)
(* the children, the merging of their signals and the waits interleave.    *)
(***************************************************************************)
HandlerFindsChild == handler = "waitpid" => Children("zombie") # {}

(***************************************************************************)
(* A client whose connection the kernel has set up gets a child that       *)
(* serves it ("Forks at each connection", tcpserver.c:5).                  *)
(***************************************************************************)
EveryoneServed ==
  \A c \in Clients : c \in Members(queue) ~> child[c] # "none"

(***************************************************************************)
(* Every child that has ended is waited for ("A signal handler provides    *)
(* waiting for children's exit status", tcpserver.c:6-7).                  *)
(***************************************************************************)
AllReaped ==
  \A c \in Clients : child[c] = "zombie" ~> child[c] = "reaped"

-----------------------------------------------------------------------------
(***************************************************************************)
(* HandlerFindsChild made inductive: a dead child for the signal that is   *)
(* being handled, and another one for the signal that is pending.  No      *)
(* child is forgotten, since fork() serves a connection that has had none. *)
(***************************************************************************)
Due == (IF pending THEN 1 ELSE 0) + (IF handler = "waitpid" THEN 1 ELSE 0)

Fresh ==
  /\ \A i, j \in 1..Len(queue) : queue[i] = queue[j] => i = j
  /\ \A i \in 1..Len(queue) : queue[i] \notin held
  /\ \A c \in Clients \ held : child[c] = "none"
  /\ parent = "fork" => sd \in held /\ child[sd] = "none"

IInv ==
  /\ TypeOK
  /\ Fresh
  /\ Cardinality(Children("zombie")) >= Due
=============================================================================
