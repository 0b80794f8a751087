------------------------------ MODULE PlainGet ------------------------------
(***************************************************************************)
(* One PLAIN_GET session, as far as it can go: proto_plain_get answers the *)
(* FILENAME command with FILENAME_ERROR whatever the name is.  Its test    *)
(*   (read_filename, socket_descriptor, &nread, filename) != 0             *)
(* is a comma expression, whose value is the address of a buffer, so that  *)
(* nothing is read and the condition always holds (protocol.c:316).  What  *)
(* follows it in the server, protocol.c:320-392, cannot be reached.        *)
(***************************************************************************)
EXTENDS Wire

CONSTANT Filenames    \* the names a user may pass on the command line

ASSUME FilenameAssumption == Filenames \subseteq Seq(Byte)

VARIABLE arg          \* the file name given to the client

vars == <<wireVars, arg>>

ClientLabel == {"sendCode", "awaitHello", "sendFilename", "sendName",
  "awaitOpen", "openLocal", "halt"}
ServerLabel == {"code", "hello", "filename"}
Label == ClientLabel \cup ServerLabel \cup Stopped
           \cup DOMAIN GoodbyeCode \cup {"leaving"}

Init ==
  /\ InitWire("sendCode", "code")
  /\ arg \in Filenames

-----------------------------------------------------------------------------
(***************************************************************************)
(* client_plain_get, up to the open() that truncates its own file of that  *)
(* name ("openLocal").  FILENAME and the name follow each other with no    *)
(* reply in between (the wait for one is commented out at 511-518).        *)
(***************************************************************************)
\* Slip: the greeting is not waited for, so that its OK answers FILENAME.
ClientSendCodeAtOnce == Write("client", "sendCode", PLAIN_GET, "sendFilename")
ClientSendCode == Write("client", "sendCode", PLAIN_GET, "awaitHello")
ClientAwaitHello ==
  Expect("client", "awaitHello", OK, "sendFilename", "protocolError")
ClientSendFilename == Send("client", "sendFilename", FILENAME, "sendName")
ClientSendName == Write("client", "sendName", arg, "awaitOpen")
\* Slip: the reply is not looked at, as client_plain_put does not.
ClientAwaitOpenUnchecked ==
  Expect("client", "awaitOpen", OK, "openLocal", "openLocal")
ClientAwaitOpen == Expect("client", "awaitOpen", OK, "openLocal", "halt")
ClientHalt == pc["client"] = "halt" /\ ExitOpen("failed")

Client ==
  \/ ClientSendCode \/ ClientAwaitHello \/ ClientSendFilename
  \/ ClientSendName \/ ClientAwaitOpen \/ ClientHalt \/ Goodbye("client")

-----------------------------------------------------------------------------
\* The server child: listener.c up to the module, then proto_plain_get.
ServerGetCode ==
  Gather("server", "code", PROTO_NAME_LENGTH, PLAIN_GET, "hello", "protocolError")
ServerHello == Send("server", "hello", OK, "filename")
\* Slip: FILENAME is not answered and the next command awaited.
ServerFilenameSilent ==
  Expect("server", "filename", FILENAME, "filename", "protocolError")
ServerFilename ==
  Expect("server", "filename", FILENAME, "filenameError", "protocolError")

Server ==
  ServerGetCode \/ ServerHello \/ ServerFilename \/ Goodbye("server")

-----------------------------------------------------------------------------
Ended(x) == pc[x] \in Stopped \cup {"openLocal"}

Over == (\A x \in Side : Ended(x)) /\ UNCHANGED wireVars

Next ==
  /\ Client \/ Server \/ Reset \/ KillClient \/ KillServer \/ Over
  /\ UNCHANGED arg

Spec == Init /\ [][Next]_vars

\* The kernel schedules both processes and TCP delivers what was sent.
FairSpec ==
  /\ Spec
  /\ WF_vars(Client /\ UNCHANGED arg)
  /\ WF_vars(Server /\ UNCHANGED arg)

-----------------------------------------------------------------------------
\* The types of the session's variables.
TypeOK == WireTypeOK(Label) /\ arg \in Filenames

(***************************************************************************)
(* A client that is refused keeps its own file: no reply, however it is    *)
(* cut on the way, reads as the OK after which the client truncates its    *)
(* file of that name (protocol.c:519-526).                                 *)
(***************************************************************************)
LocalFileKept == pc["client"] # "openLocal"

(***************************************************************************)
(* A refused GET is over at both ends, and neither is left in a loop at    *)
(* end of file (protocol.c:92): the server child exits, by itself or by a  *)
(* signal, unless the client has failed, and whatever the client does once *)
(* it has asked for the file, though its name may be on its way, unread or *)
(* dropped with the FILENAME command it came with; and a client whose      *)
(* server has shut down exits.                                             *)
(***************************************************************************)
BothExit ==
  /\ <>(pc["server"] \in Exited \/ pc["client"] = "failed")
  /\ pc["client"] = "awaitOpen" ~> pc["server"] \in Exited
  /\ down["server"] ~> pc["client"] \in Exited \cup {"openLocal"}

(***************************************************************************)
(* The server sends the file it is asked for, so that the client comes to  *)
(* open its own copy of it ("PLAIN GET: send the requested file to the     *)
(* client", protocol.c:284).                                               *)
(***************************************************************************)
Served == <>(pc["client"] = "openLocal")
-----------------------------------------------------------------------------
(***************************************************************************)
(* Why LocalFileKept holds, however the bytes are cut: an end that waits   *)
(* for a command is never sent two of them, so that its loop drops nothing *)
(* of a second one and takes no part of one command for another; and once  *)
(* the client has taken the OK of the greeting all that comes are failures.*)
(***************************************************************************)
In(x) == got[x] \o chan[x]

Early == {"sendCode", "awaitHello"}
Greeting ==
  pc["client"] \in Early =>
    /\ In("client") \in {<<>>, OK} \cup Failures
    /\ pc["server"] \in {"code", "hello"} \cup DOMAIN GoodbyeCode => In("client") = <<>>
    /\ In("server") \in {<<>>, PLAIN_GET}
    /\ pc["server"] \in {"hello", "filename"} => In("server") = <<>>
    /\ pc["client"] = "sendCode" =>
         In("server") = <<>> /\ pc["server"] \in {"code"} \cup Stopped

Late == {"sendFilename", "sendName", "awaitOpen"}
Refusal ==
  pc["client"] \in Late =>
    /\ pc["server"] \notin {"code", "hello"}
    /\ In("client") \in {<<>>} \cup Failures
    /\ pc["server"] \in {"filename"} \cup DOMAIN GoodbyeCode => In("client") = <<>>

IInv == TypeOK /\ Greeting /\ Refusal /\ LocalFileKept
=============================================================================
