-------------------------------- MODULE Wire --------------------------------
(***************************************************************************)
(* One TCP connection between a client and the server child that serves   *)
(* it, and the calls of protocol.c that both ends use on it:              *)
(* proto_send_command, proto_expect_command, proto_goodbye_failure and    *)
(* proto_get_protocol_code.  The modules of the transfer protocols extend *)
(* this one and add their own state and steps.                            *)
(*                                                                         *)
(* A step is one system call.  A byte is a number: a decimal digit is its *)
(* own value, every other character is its ASCII code.                    *)
(***************************************************************************)
EXTENDS Integers, Sequences

CONSTANTS
  BUFSIZE,   \* the size of every read buffer
  Faults     \* the faults the environment may inject, a subset of FaultKinds

FaultKinds == {
  "fragment",      \* TCP hands over any non-empty part of what was sent
  "reset",         \* the network breaks the connection
  "killClient",    \* the client process is killed
  "killServer",    \* the server child is killed
  "noSource",      \* the client cannot open the local file
  "openFails",     \* the server cannot open the file it is asked for
  "diskFails",     \* write() to the server's file returns -1
  "shortWrite",    \* write() to the server's file writes less than asked
  "edit" }         \* another process changes the client's file

(***************************************************************************)
(* protocol.h: sizes, protocol names, commands and responses.             *)
(***************************************************************************)
CTRL_SIZE == 3
PROTO_NAME_LENGTH == 5

PLAIN_PUT == <<80, 80, 0, 0, 0>>
PLAIN_GET == <<80, 71, 0, 0, 0>>

OK == <<1, 0, 0>>
FILENAME == <<1, 1, 0>>
FILESIZE == <<1, 1, 5>>
END_FILE_TRANSMISSION == <<1, 3, 0>>
FILE_CUT_TO_DECLARED_SIZE == <<2, 9, 0>>
PROTOCOL_ERROR == <<3, 9, 0>>
SERVER_ERROR == <<3, 8, 0>>
FILENAME_ERROR == <<3, 7, 0>>
CLIENT_ERROR == <<3, 5, 0>>

Byte == 0..127

ASSUME BufsizeAssumption == BUFSIZE \in Nat /\ BUFSIZE > PROTO_NAME_LENGTH
ASSUME FaultsAssumption == Faults \subseteq FaultKinds

-----------------------------------------------------------------------------
VARIABLES
  pc,       \* pc[x]: the call that process x makes next, or how it ended
  chan,     \* chan[x]: the bytes sent to x that x has not read yet
  got,      \* got[x]: the bytes gathered by the read loop x is in
  dropped,  \* dropped[x]: bytes x has read past a command and thrown away
  down,     \* down[x]: x has sent its FIN
  rst       \* the connection has been reset

wireVars == <<pc, chan, got, dropped, down, rst>>

Side == {"client", "server"}
Peer(x) == IF x = "client" THEN "server" ELSE "client"

(***************************************************************************)
(* How a process ends.  "spinning" is a read loop at end of file: read()  *)
(* returns 0 for ever, the loop counts it as progress of 0 bytes and      *)
(* calls read() again.                                                    *)
(***************************************************************************)
Exited == {"succeeded", "failed"}
Stopped == Exited \cup {"spinning"}

Goto(x, label) == pc' = [pc EXCEPT ![x] = label]

InitWire(clientLabel, serverLabel) ==
  /\ pc = [x \in Side |-> IF x = "client" THEN clientLabel ELSE serverLabel]
  /\ chan = [x \in Side |-> <<>>]
  /\ got = [x \in Side |-> <<>>]
  /\ dropped = [x \in Side |-> 0]
  /\ down = [x \in Side |-> FALSE]
  /\ rst = FALSE

-----------------------------------------------------------------------------
(***************************************************************************)
(* The socket calls, as Linux answers them (external).                     *)
(***************************************************************************)
Smaller(a, b) == IF a < b THEN a ELSE b

\* How many bytes read(sd, buffer, limit) may return while there are any.
ReadSizes(x, limit) ==
  LET most == Smaller(Len(chan[x]), limit)
  IN  IF chan[x] = <<>> THEN {}
      ELSE IF "fragment" \in Faults THEN 1..most ELSE {most}

Chunk(x, n) == SubSeq(chan[x], 1, n)

Take(x, n) ==
  /\ chan' = [chan EXCEPT ![x] = SubSeq(@, n + 1, Len(@))]
  /\ UNCHANGED <<down, rst>>

\* read() returns 0: the peer's FIN has arrived and all its bytes are read.
AtEOF(x) == chan[x] = <<>> /\ down[Peer(x)]

\* read() returns -1: the connection was reset before any FIN.
Broken(x) == chan[x] = <<>> /\ rst /\ ~down[Peer(x)]

\* Only the client's end is closed by the end of its process: the parent server
\* keeps its copy of the child's descriptor.  Bytes left unread make it a RST.
LeavesUnread(x) == x = "client" /\ chan[x] # <<>>

\* exit(status) or a killing signal, with the client's connection open.  A
\* connection that has been reset sends no FIN.
ExitOpen(status) ==
  /\ Goto("client", status)
  /\ IF LeavesUnread("client")
     THEN rst' = TRUE /\ UNCHANGED down
     ELSE down' = [down EXCEPT !["client"] = ~rst] /\ UNCHANGED rst
  /\ UNCHANGED <<chan, got, dropped>>

\* shutdown(sd, 2) and exit(status).
Shutdown(x, from, status) ==
  /\ pc[x] = from
  /\ Goto(x, status)
  /\ down' = [down EXCEPT ![x] = ~rst]
  /\ rst' = (rst \/ LeavesUnread(x))
  /\ UNCHANGED <<chan, got, dropped>>

\* SIGPIPE, or the exit on a read error: the connection is gone already.
Die(x) ==
  /\ Goto(x, "failed")
  /\ UNCHANGED <<chan, got, dropped, down, rst>>

\* write(sd, bytes).  A peer that has shut down answers with a RST, and the
\* next write after it has arrived raises SIGPIPE.  A RST from the network makes
\* the write fail with ECONNRESET: proto_send_command then closes the descriptor,
\* so that the process fails at its next call on it, or at the exit.
Send(x, from, bytes, to) ==
  /\ pc[x] = from
  /\ \/ /\ ~rst
        /\ ~down[Peer(x)]
        /\ chan' = [chan EXCEPT ![Peer(x)] = @ \o bytes]
        /\ Goto(x, to)
        /\ UNCHANGED <<got, dropped, down, rst>>
     \/ /\ ~rst
        /\ down[Peer(x)]
        /\ rst' \in BOOLEAN
        /\ Goto(x, to)
        /\ UNCHANGED <<chan, got, dropped, down>>
     \/ rst /\ Die(x)

\* The first write after a RST from the network, with no look at what it
\* returns: nothing is sent and the process goes on.
Unsent(x, from, to) ==
  /\ pc[x] = from
  /\ rst
  /\ ~down[Peer(x)]
  /\ Goto(x, to)
  /\ UNCHANGED <<chan, got, dropped, down, rst>>

\* A write(sd, bytes) of the caller's own, which leaves the descriptor open.  The
\* error of the RST is reported once: it is lost with the result of the write,
\* and the read loop that follows reads what has come before the RST, or finds
\* end of file.  A client that has another part of its file to write first gets
\* SIGPIPE there, as above: both ends are allowed.
Write(x, from, bytes, to) ==
  \/ Send(x, from, bytes, to)
  \/ Unsent(x, from, IF chan[x] = <<>> THEN "spinning" ELSE to)

(***************************************************************************)
(* The read loops of proto_expect_command and proto_get_protocol_code:     *)
(* read up to BUFSIZE bytes until there are at least size, use the first   *)
(* size and drop the rest.  The caller goes on at hit if they are the ones *)
(* it wants, else at miss.                                                 *)
(***************************************************************************)
Gather(x, from, size, wanted, hit, miss) ==
  /\ pc[x] = from
  /\ \/ \E n \in ReadSizes(x, BUFSIZE) :
          LET all == got[x] \o Chunk(x, n)
          IN  /\ Take(x, n)
              /\ IF Len(all) < size
                 THEN /\ got' = [got EXCEPT ![x] = all]
                      /\ UNCHANGED <<pc, dropped>>
                 ELSE /\ got' = [got EXCEPT ![x] = <<>>]
                      /\ dropped' = [dropped EXCEPT ![x] = @ + Len(all) - size]
                      /\ Goto(x, IF SubSeq(all, 1, size) = wanted
                                 THEN hit ELSE miss)
     \/ /\ AtEOF(x)
        /\ Goto(x, "spinning")
        /\ UNCHANGED <<chan, got, dropped, down, rst>>
     \/ Broken(x) /\ Die(x)

Expect(x, from, command, hit, miss) ==
  Gather(x, from, CTRL_SIZE, command, hit, miss)

(***************************************************************************)
(* proto_goodbye_failure(sd, command): send the command, shut the          *)
(* connection down, exit(EXIT_FAILURE).  The label names the command.      *)
(***************************************************************************)
GoodbyeCode ==
  [protocolError |-> PROTOCOL_ERROR, serverError |-> SERVER_ERROR,
   filenameError |-> FILENAME_ERROR, clientError |-> CLIENT_ERROR]

Failures == {PROTOCOL_ERROR, SERVER_ERROR, FILENAME_ERROR, CLIENT_ERROR}

Goodbye(x) ==
  \/ \E reason \in DOMAIN GoodbyeCode :
       Send(x, reason, GoodbyeCode[reason], "leaving")
  \/ Shutdown(x, "leaving", "failed")

(***************************************************************************)
(* Faults of the connection and of the processes.                          *)
(***************************************************************************)
Reset ==
  /\ "reset" \in Faults
  /\ ~rst
  /\ \E x \in Side : pc[x] \notin Stopped
  /\ rst' = TRUE
  /\ UNCHANGED <<pc, chan, got, dropped, down>>

KillClient ==
  /\ "killClient" \in Faults
  /\ pc["client"] \notin Stopped
  /\ ExitOpen("failed")

KillServer ==
  /\ "killServer" \in Faults
  /\ pc["server"] \notin Stopped
  /\ Die("server")

-----------------------------------------------------------------------------
\* The types of the wire, given the labels each protocol uses.
WireTypeOK(Label) ==
  /\ pc \in [Side -> Label]
  /\ chan \in [Side -> Seq(Byte)]
  /\ got \in [Side -> Seq(Byte)]
  /\ dropped \in [Side -> Nat]
  /\ down \in [Side -> BOOLEAN]
  /\ rst \in BOOLEAN

\* A process that has sent its FIN has ended, and stays so.
DownMeansExited == \A x \in Side : down[x] => pc[x] \in Exited

=============================================================================
