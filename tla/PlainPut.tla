------------------------------ MODULE PlainPut ------------------------------
(***************************************************************************)
(* One PLAIN_PUT session: client_plain_put on one end of the wire,         *)
(* proto_get_protocol_code and proto_plain_put in the server child on the  *)
(* other, with the client's local file and the server's files.             *)
(***************************************************************************)
EXTENDS Wire, FiniteSets

CONSTANTS
  MAX_FILENAME_LENGTH,
  INT_MAX,          \* the largest int: 2^31 - 1 in the program
  Decimal(_),       \* Decimal(n): the bytes printf("%d", n) writes
  Atoi(_),          \* Atoi(bytes): the int atoi() reads at their start
  Filenames,        \* the names a user may pass on the command line
  Contents,         \* the contents the local file may have
  OldDisk           \* the files the server has when the session begins

ASSUME FilenameAssumption ==
  /\ MAX_FILENAME_LENGTH \in Nat
  /\ Filenames \subseteq Seq(Byte)
ASSUME ContentsAssumption == Contents \subseteq Seq(Byte)
ASSUME OldDiskAssumption == OldDisk \in [DOMAIN OldDisk -> Seq(Byte)]
ASSUME IntAssumption == INT_MAX \in Nat
\* printf writes characters, few enough for the buffer that receives them, and
\* atoi() reads back the number they were written for.
ASSUME DecimalAssumption ==
  /\ \A n \in (-INT_MAX - 1)..INT_MAX : Decimal(n) \in Seq(Byte)
  /\ \A n \in 0..INT_MAX :
       Len(Decimal(n)) < BUFSIZE /\ Atoi(Decimal(n)) = n

VARIABLES
  arg,       \* the file name given to the client
  src,       \* the contents of the client's file of that name
  offset,    \* how much of it the client has read and sent
  name,      \* the server's filename buffer
  disk,      \* the server's files: contents by name
  opened,    \* the server has opened disk[name] for writing
  filesize,  \* the server's size_t filesize
  total      \* the server's total_read, converted to size_t as it is compared

clientVars == <<arg, src, offset>>
serverVars == <<name, disk, opened, filesize, total>>
vars == <<wireVars, clientVars, serverVars>>

ClientLabel == {"sendCode", "awaitHello", "sendFilename", "awaitName",
  "sendName", "awaitOpen", "sendFilesize", "awaitSize", "sendSize",
  "awaitReady", "sendData", "awaitEnd", "exitSuccess", "exitFailure"}
ServerLabel == {"code", "hello", "filename", "filenameOK", "readName", "open",
  "openOK", "filesize", "filesizeOK", "readSize", "sizeOK", "data", "closing"}
Label == ClientLabel \cup ServerLabel \cup Stopped
           \cup DOMAIN GoodbyeCode \cup {"leaving"}

Init ==
  /\ InitWire("sendCode", "code")
  /\ arg \in Filenames
  /\ src \in Contents
  /\ offset = 0
  /\ name = <<>>
  /\ disk = OldDisk
  /\ opened = FALSE
  /\ filesize = 0
  /\ total = 0

-----------------------------------------------------------------------------
(***************************************************************************)
(* int and size_t.  The sizes compared are ints that wrap around; as a     *)
(* size_t a negative one is larger than every other.                       *)
(***************************************************************************)
WORD == 2 * (INT_MAX + 1)
\* Slip: the declared size is kept as an int.
ToSizeSigned(v) == v
ToSize(v) == IF v \in Int THEN v % WORD ELSE 0
ToInt(v) == IF ToSize(v) > INT_MAX THEN ToSize(v) - WORD ELSE ToSize(v)

\* clean_filename: the name ends before its first control character.
IsControl(b) == b \in 10..31 \cup {127}
CleanPositions(s) == {i \in 1..Len(s) : \A j \in 1..i : ~IsControl(s[j])}
\* Slip: the character before the cut goes too.
CleanFilenameShort(s) == SubSeq(s, 1, Cardinality(CleanPositions(s)) - 1)
CleanFilename(s) == SubSeq(s, 1, Cardinality(CleanPositions(s)))

-----------------------------------------------------------------------------
(***************************************************************************)
(* client_plain_put.  A reply other than the one expected is not looked    *)
(* at: only a failed read stops the client.                                *)
(***************************************************************************)
ClientSend(from, bytes, to) ==
  Send("client", from, bytes, to) /\ UNCHANGED <<clientVars, serverVars>>
ClientWrite(from, bytes, to) ==
  Write("client", from, bytes, to) /\ UNCHANGED <<clientVars, serverVars>>
ClientAwaitOK(from, to) ==
  Expect("client", from, OK, to, to) /\ UNCHANGED <<clientVars, serverVars>>

ClientSendCode == ClientWrite("sendCode", PLAIN_PUT, "awaitHello")
ClientAwaitHello == ClientAwaitOK("awaitHello", "sendFilename")
\* Slip: the name follows FILENAME at once, as client_plain_get sends it.
ClientSendFilenameAtOnce == ClientSend("sendFilename", FILENAME, "sendName")
ClientSendFilename == ClientSend("sendFilename", FILENAME, "awaitName")
ClientAwaitName == ClientAwaitOK("awaitName", "sendName")
ClientSendName == ClientWrite("sendName", arg, "awaitOpen")
ClientAwaitOpen == ClientAwaitOK("awaitOpen", "sendFilesize")
ClientSendFilesize == ClientSend("sendFilesize", FILESIZE, "awaitSize")
ClientAwaitSize == ClientAwaitOK("awaitSize", "sendSize")

\* open(), stat() and the size; or the file cannot be opened.
\* Slips: one byte more, or one byte less, is declared than will be sent.
ClientSendSizeMore ==
  ClientWrite("sendSize", Decimal(ToInt(Len(src) + 1)), "awaitReady")
ClientSendSizeLess ==
  ClientWrite("sendSize", Decimal(ToInt(Len(src) - 1)), "awaitReady")
ClientSendSize ==
  ClientWrite("sendSize", Decimal(ToInt(Len(src))), "awaitReady")
ClientNoSource ==
  /\ "noSource" \in Faults
  /\ pc["client"] = "sendSize"
  /\ Goto("client", "clientError")
  /\ UNCHANGED <<chan, got, dropped, down, rst, clientVars, serverVars>>

ClientAwaitReady == ClientAwaitOK("awaitReady", "sendData")

\* One read() of the local file and the write() of what it returned.
ClientSendData ==
  LET n == Smaller(BUFSIZE, Len(src) - offset)
  IN  /\ n > 0
      /\ Write("client", "sendData", SubSeq(src, offset + 1, offset + n), "sendData")
      /\ offset' = offset + n
      /\ UNCHANGED <<arg, src, serverVars>>
ClientDataSent ==
  /\ pc["client"] = "sendData"
  /\ offset >= Len(src)
  /\ Goto("client", "awaitEnd")
  /\ UNCHANGED <<chan, got, dropped, down, rst, clientVars, serverVars>>

\* Slip: the last reply is not looked at either.
ClientAwaitEndUnchecked ==
  /\ Expect("client", "awaitEnd", END_FILE_TRANSMISSION, "exitSuccess", "exitSuccess")
  /\ UNCHANGED <<clientVars, serverVars>>
ClientAwaitEnd ==
  /\ Expect("client", "awaitEnd", END_FILE_TRANSMISSION, "exitSuccess", "exitFailure")
  /\ UNCHANGED <<clientVars, serverVars>>
ClientExit ==
  /\ \/ pc["client"] = "exitSuccess" /\ ExitOpen("succeeded")
     \/ pc["client"] = "exitFailure" /\ ExitOpen("failed")
  /\ UNCHANGED <<clientVars, serverVars>>
ClientGoodbye == Goodbye("client") /\ UNCHANGED <<clientVars, serverVars>>

Client ==
  \/ ClientSendCode \/ ClientAwaitHello
  \/ ClientSendFilename \/ ClientAwaitName
  \/ ClientSendName \/ ClientAwaitOpen
  \/ ClientSendFilesize \/ ClientAwaitSize
  \/ ClientSendSize \/ ClientNoSource \/ ClientAwaitReady
  \/ ClientSendData \/ ClientDataSent
  \/ ClientAwaitEnd \/ ClientExit \/ ClientGoodbye

-----------------------------------------------------------------------------
(***************************************************************************)
(* The server child: listener.c up to the module, then proto_plain_put.    *)
(***************************************************************************)
ServerSend(from, bytes, to) ==
  Send("server", from, bytes, to) /\ UNCHANGED <<clientVars, serverVars>>
ServerExpect(from, command, to) ==
  /\ Expect("server", from, command, to, "protocolError")
  /\ UNCHANGED <<clientVars, serverVars>>

\* proto_get_protocol_code and proto_lookup.
ServerGetCode ==
  /\ Gather("server", "code", PROTO_NAME_LENGTH, PLAIN_PUT, "hello", "protocolError")
  /\ UNCHANGED <<clientVars, serverVars>>

ServerHello == ServerSend("hello", OK, "filename")
\* Slip: FILENAME is not answered, as proto_plain_get does not answer it.
ServerFilenameSilent == ServerExpect("filename", FILENAME, "readName")
ServerFilename == ServerExpect("filename", FILENAME, "filenameOK")
ServerFilenameOK == ServerSend("filenameOK", OK, "readName")

\* A read() that does not fill the buffer ends the name, as read_filename sees it.
\* Slip: every read() does.
NameEndsAtOnce(n) == TRUE
NameEnds(n) == n < BUFSIZE

\* One read() of read_filename: end of file ends the name too.
ServerReadName ==
  /\ pc["server"] = "readName"
  /\ \/ \E n \in ReadSizes("server", BUFSIZE) :
          LET all == got["server"] \o Chunk("server", n)
          IN  /\ Take("server", n)
              /\ IF Len(all) >= MAX_FILENAME_LENGTH
                 THEN /\ Goto("server", "filenameError")
                      /\ UNCHANGED <<got, name>>
                 ELSE IF NameEnds(n)
                 THEN /\ Goto("server", "open")
                      /\ got' = [got EXCEPT !["server"] = <<>>]
                      /\ name' = CleanFilename(all)
                 ELSE /\ got' = [got EXCEPT !["server"] = all]
                      /\ UNCHANGED <<pc, name>>
     \/ /\ AtEOF("server")
        /\ Goto("server", "open")
        /\ got' = [got EXCEPT !["server"] = <<>>]
        /\ name' = CleanFilename(got["server"])
        /\ UNCHANGED <<chan, down, rst>>
     \/ /\ Broken("server")
        /\ Die("server")
        /\ UNCHANGED name
  /\ UNCHANGED <<dropped, clientVars, disk, opened, filesize, total>>

\* Slip: the file is opened with O_APPEND for O_TRUNC.
ServerOpenAppending ==
  /\ pc["server"] = "open"
  /\ \/ /\ name # <<>>
        /\ Goto("server", "openOK")
        /\ opened' = TRUE
        /\ disk' = [f \in DOMAIN disk \cup {name} |->
                      IF f \in DOMAIN disk THEN disk[f] ELSE <<>>]
     \/ /\ name = <<>> \/ "openFails" \in Faults
        /\ Goto("server", "serverError")
        /\ UNCHANGED <<disk, opened>>
  /\ UNCHANGED <<chan, got, dropped, down, rst, clientVars, name, filesize, total>>

\* open(filename, O_WRONLY|O_CREAT|O_TRUNC); no file has the empty name.
ServerOpen ==
  /\ pc["server"] = "open"
  /\ \/ /\ name # <<>>
        /\ Goto("server", "openOK")
        /\ opened' = TRUE
        /\ disk' = [f \in DOMAIN disk \cup {name} |->
                      IF f = name THEN <<>> ELSE disk[f]]
     \/ /\ name = <<>> \/ "openFails" \in Faults
        /\ Goto("server", "serverError")
        /\ UNCHANGED <<disk, opened>>
  /\ UNCHANGED <<chan, got, dropped, down, rst, clientVars, name, filesize, total>>

ServerOpenOK == ServerSend("openOK", OK, "filesize")
ServerFilesize == ServerExpect("filesize", FILESIZE, "filesizeOK")
ServerFilesizeOK == ServerSend("filesizeOK", OK, "readSize")

\* One read() of the size; end of file reads as the empty string.
ServerReadSize ==
  /\ pc["server"] = "readSize"
  /\ \/ \E n \in ReadSizes("server", BUFSIZE - 1) :
          /\ Take("server", n)
          /\ filesize' = ToSize(Atoi(Chunk("server", n)))
          /\ Goto("server", "sizeOK")
     \/ /\ AtEOF("server")
        /\ filesize' = ToSize(Atoi(<<>>))
        /\ Goto("server", "sizeOK")
        /\ UNCHANGED <<chan, down, rst>>
     \/ /\ Broken("server")
        /\ Goto("server", "failed")
        /\ UNCHANGED <<chan, down, rst, filesize>>
  /\ UNCHANGED <<got, dropped, clientVars, name, disk, opened, total>>

ServerSizeOK == ServerSend("sizeOK", OK, "data")

\* Slip: a write() that fails is not noticed.
WriteChunkUnchecked(n) ==
  /\ \/ disk' = [disk EXCEPT ![name] = @ \o Chunk("server", n)]
     \/ "diskFails" \in Faults /\ UNCHANGED disk
  /\ UNCHANGED pc

\* write(fd, buffer, n).  What it returns is only compared with 0.
WriteChunk(n) ==
  \/ /\ \E w \in IF "shortWrite" \in Faults THEN 1..n ELSE {n} :
          disk' = [disk EXCEPT ![name] = @ \o Chunk("server", w)]
     /\ UNCHANGED pc
  \/ /\ "diskFails" \in Faults
     /\ Goto("server", "serverError")
     /\ UNCHANGED disk

\* One turn of the receive loop: read() from the socket, write() to the file.
ServerReceive ==
  /\ pc["server"] = "data"
  /\ total < filesize
  /\ \/ \E n \in ReadSizes("server", BUFSIZE) :
          /\ Take("server", n)
          /\ total' = (total + n) % WORD
          /\ WriteChunk(n)
     \/ /\ AtEOF("server")
        /\ Goto("server", "spinning")
        /\ UNCHANGED <<chan, down, rst, disk, total>>
     \/ /\ Broken("server")
        /\ Goto("server", "failed")
        /\ UNCHANGED <<chan, down, rst, disk, total>>
  /\ UNCHANGED <<got, dropped, clientVars, name, opened, filesize>>

\* The loop is over: report, shut the connection down, exit(EXIT_SUCCESS).
\* Slip: >= for >.
VerdictAtLeast ==
  IF total >= filesize THEN FILE_CUT_TO_DECLARED_SIZE ELSE END_FILE_TRANSMISSION
Verdict ==
  IF total > filesize THEN FILE_CUT_TO_DECLARED_SIZE ELSE END_FILE_TRANSMISSION
\* Slip: an if for the while of the receive loop.
ServerReportEarly == total > 0 /\ ServerSend("data", Verdict, "closing")
\* Nothing is read after the report, so that its failure goes unnoticed too.
ServerReport ==
  /\ total >= filesize
  /\ \/ ServerSend("data", Verdict, "closing")
     \/ Unsent("server", "data", "closing") /\ UNCHANGED <<clientVars, serverVars>>
ServerShutdown ==
  /\ Shutdown("server", "closing", "succeeded")
  /\ UNCHANGED <<clientVars, serverVars>>
ServerGoodbye == Goodbye("server") /\ UNCHANGED <<clientVars, serverVars>>

Server ==
  \/ ServerGetCode \/ ServerHello
  \/ ServerFilename \/ ServerFilenameOK
  \/ ServerReadName \/ ServerOpen \/ ServerOpenOK
  \/ ServerFilesize \/ ServerFilesizeOK
  \/ ServerReadSize \/ ServerSizeOK
  \/ ServerReceive \/ ServerReport \/ ServerShutdown \/ ServerGoodbye

-----------------------------------------------------------------------------
\* Another process rewrites the client's file.
EditSource ==
  /\ "edit" \in Faults
  /\ pc["client"] \notin Stopped
  /\ src' \in Contents \ {src}
  /\ UNCHANGED <<wireVars, arg, offset, serverVars>>

ConnectionFault ==
  (Reset \/ KillClient \/ KillServer) /\ UNCHANGED <<clientVars, serverVars>>

\* Both processes have stopped.
Over ==
  /\ \A x \in Side : pc[x] \in Stopped
  /\ UNCHANGED vars

Next == Client \/ Server \/ EditSource \/ ConnectionFault \/ Over

Spec == Init /\ [][Next]_vars

(***************************************************************************)
(* The kernel schedules every process that can run and TCP delivers what   *)
(* was sent.  Each process is sequential: one of its steps at a time.      *)
(***************************************************************************)
FairSpec == Spec /\ WF_vars(Client) /\ WF_vars(Server)

-----------------------------------------------------------------------------
\* The types of the session's variables.
TypeOK ==
  /\ WireTypeOK(Label)
  /\ arg \in Filenames
  /\ src \in Contents
  /\ offset \in Nat
  /\ name \in Seq(Byte)
  /\ disk \in [DOMAIN disk -> Seq(Byte)]
  /\ opened \in BOOLEAN
  /\ filesize \in 0..(WORD - 1)
  /\ total \in 0..(WORD - 1)

(***************************************************************************)
(* A client that exits with EXIT_SUCCESS has its file on the server, byte  *)
(* for byte, under the name it gave (protocol.c:466-473 takes the final    *)
(* END_FILE_TRANSMISSION as that promise, whatever the replies before it). *)
(***************************************************************************)
SuccessMeansDelivered ==
  pc["client"] = "succeeded" => arg \in DOMAIN disk /\ disk[arg] = src

(***************************************************************************)
(* No byte is lost to the over-reading of proto_expect_command: it drops   *)
(* what it reads past a command (protocol.c:103-105), so the two ends must *)
(* never have two messages on the way in the same direction.               *)
(***************************************************************************)
NothingDropped == \A x \in Side : dropped[x] = 0

(***************************************************************************)
(* The server writes no file but the one the client named: whatever part   *)
(* of the name read_filename sees, it is opened with O_TRUNC.              *)
(***************************************************************************)
OnlyNamedFileTouched ==
  [][/\ DOMAIN disk' \subseteq DOMAIN disk \cup {arg}
     /\ \A f \in DOMAIN disk \ {arg} : disk'[f] = disk[f]]_disk

(***************************************************************************)
(* A client reports success only when the server child has reported the    *)
(* complete file: no mix of replies, cut or merged on the way, reads as    *)
(* END_FILE_TRANSMISSION.                                                  *)
(***************************************************************************)
NoForgedSuccess ==
  pc["client"] = "succeeded" =>
    /\ pc["server"] \in {"closing", "succeeded"}
    /\ Verdict = END_FILE_TRANSMISSION

(***************************************************************************)
(* The report is about the file: when the server child has sent its        *)
(* verdict, total_read is the number of bytes it has put in the file.      *)
(***************************************************************************)
VerdictCountsFile ==
  pc["server"] \in {"closing", "succeeded"} =>
    opened /\ Len(disk[name]) % WORD = total

(***************************************************************************)
(* With nothing going wrong both processes end with EXIT_SUCCESS: no read  *)
(* of the conversation waits for a message the other end does not send.    *)
(***************************************************************************)
Delivery == <>(\A x \in Side : pc[x] = "succeeded")

(***************************************************************************)
(* The read loops never end at end of file (protocol.c:92, 249), so no     *)
(* server child may come to one while its client lives: it exits, by       *)
(* itself or by a signal, unless the client has failed; and once the       *)
(* client has sent all of its file it exits whatever the client and the    *)
(* connection do then.  (With names that do not fill the server's buffer:  *)
(* those block both ends, protocol.c:169.)                                 *)
(***************************************************************************)
ServerExits ==
  /\ <>(pc["server"] \in Exited \/ pc["client"] = "failed")
  /\ pc["client"] = "awaitEnd" ~> pc["server"] \in Exited

(***************************************************************************)
(* A client whose server child has run to its end exits as well: it waits  *)
(* for no reply that has been sent already or never will be, which is what *)
(* its own loop at end of file would make of it (protocol.c:92).  An empty *)
(* file is the exception the run put_empty shows.                          *)
(***************************************************************************)
ClientExits ==
  pc["server"] = "succeeded" /\ src # <<>> ~> pc["client"] \in Exited

-----------------------------------------------------------------------------
(***************************************************************************)
(* The conversation, as an inductive invariant.  It needs an environment   *)
(* in which a read returns all there is, the source does not change, the   *)
(* disk takes all it is given, names are not cut by clean_filename and     *)
(* sizes fit an int.                                                       *)
(***************************************************************************)
Reliable ==
  /\ Faults \cap {"fragment", "edit", "shortWrite"} = {}
  /\ \A f \in Filenames : \A i \in 1..Len(f) : ~IsControl(f[i])
  /\ \A c \in Contents : Len(c) <= INT_MAX

Delivered == arg \in DOMAIN disk /\ disk[arg] = src

\* The client can still report success, or has.
Hopeful == (ClientLabel \ {"exitFailure"}) \cup {"succeeded"}

\* The server is at s, the client at c, and these bytes are on their way.
At(s, c, toServer, toClient) ==
  /\ pc["server"] = s
  /\ pc["client"] = c
  /\ chan["server"] = toServer
  /\ chan["client"] = toClient

Greeting ==
  /\ got["server"] = <<>>
  /\ offset = 0
  /\ total = 0
  /\ \/ At("code", "sendCode", <<>>, <<>>)
     \/ At("code", "awaitHello", PLAIN_PUT, <<>>)
     \/ At("hello", "awaitHello", <<>>, <<>>)
     \/ At("filename", "awaitHello", <<>>, OK)
     \/ At("filename", "sendFilename", <<>>, <<>>)
     \/ At("filename", "awaitName", FILENAME, <<>>)
     \/ At("filenameOK", "awaitName", <<>>, <<>>)

Naming ==
  /\ offset = 0
  /\ total = 0
  /\ \/ got["server"] = <<>> /\ At("readName", "awaitName", <<>>, OK)
     \/ got["server"] = <<>> /\ At("readName", "sendName", <<>>, <<>>)
     \/ /\ At("readName", "awaitOpen", chan["server"], <<>>)
        /\ got["server"] \o chan["server"] = arg
     \/ /\ got["server"] = <<>>
        /\ At("open", "awaitOpen", <<>>, <<>>)
        /\ name = arg

Sizing ==
  /\ got["server"] = <<>>
  /\ offset = 0
  /\ total = 0
  /\ name = arg
  /\ arg \in DOMAIN disk
  /\ disk[arg] = <<>>
  /\ \/ At("openOK", "awaitOpen", <<>>, <<>>)
     \/ At("filesize", "awaitOpen", <<>>, OK)
     \/ At("filesize", "sendFilesize", <<>>, <<>>)
     \/ At("filesize", "awaitSize", FILESIZE, <<>>)
     \/ At("filesizeOK", "awaitSize", <<>>, <<>>)
     \/ At("readSize", "awaitSize", <<>>, OK)
     \/ At("readSize", "sendSize", <<>>, <<>>)
     \/ At("readSize", "awaitReady", Decimal(Len(src)), <<>>)
     \/ At("sizeOK", "awaitReady", <<>>, <<>>) /\ filesize = Len(src)

Sending ==
  /\ name = arg
  /\ arg \in DOMAIN disk
  /\ filesize = Len(src)
  /\ total = Len(disk[arg])
  /\ \/ /\ At("data", "awaitReady", <<>>, OK)
        /\ offset = 0
        /\ disk[arg] = <<>>
     \/ /\ \/ At("data", "sendData", chan["server"], <<>>)
           \/ At("data", "awaitEnd", chan["server"], <<>>) /\ offset = Len(src)
        /\ offset \in 0..Len(src)
        /\ disk[arg] \o chan["server"] = SubSeq(src, 1, offset)

\* The server has failed: nothing it has sent reads as success.
ServerLost ==
  /\ pc["client"] \in ClientLabel \ {"exitSuccess", "exitFailure"}
  /\ \/ pc["server"] \in DOMAIN GoodbyeCode /\ chan["client"] = <<>>
     \/ /\ pc["server"] \in {"leaving", "failed"}
        /\ chan["client"] \in {<<>>, OK} \cup Failures

\* The server has the whole file, whatever has become of the client.
Done == Delivered /\ pc["server"] \in {"closing", "succeeded", "failed"}

InTalk ==
  /\ got["client"] = <<>>
  /\ Greeting \/ Naming \/ Sizing \/ Sending \/ ServerLost

Talk == Done \/ pc["client"] \notin Hopeful \/ InTalk

IInv ==
  /\ TypeOK
  /\ DownMeansExited
  /\ Talk

-----------------------------------------------------------------------------
(***************************************************************************)
(* At which calls the server child has the file open; and what it has put  *)
(* in it, and counted, given a disk that takes all it is given.            *)
(***************************************************************************)
BeforeOpen == {"code", "hello", "filename", "filenameOK", "readName", "open"}
BeforeData == {"openOK", "filesize", "filesizeOK", "readSize", "sizeOK"}
FromData == {"data", "closing", "succeeded"}

FileOpen ==
  /\ opened => name \in DOMAIN disk
  /\ pc["server"] \in BeforeOpen => ~opened
  /\ pc["server"] \in BeforeData \cup FromData => opened

Counted ==
  /\ pc["server"] \in BeforeOpen \cup BeforeData => total = 0
  /\ pc["server"] \in BeforeData => disk[name] = <<>>
  /\ pc["server"] \in FromData => Len(disk[name]) % WORD = total

(***************************************************************************)
(* Until the server child has sent END_FILE_TRANSMISSION, no three bytes   *)
(* that the client may still read are that command, wherever the reads cut *)
(* what was sent: in every other reply a 1 comes before a 0.               *)
(***************************************************************************)
OneThenZero(s) == \A i \in 1..Len(s) : s[i] = 1 => i < Len(s) /\ s[i + 1] = 0

EndSent ==
  /\ opened
  /\ Verdict = END_FILE_TRANSMISSION
  /\ \/ pc["server"] \in {"closing", "succeeded"}
     \/ "killServer" \in Faults /\ pc["server"] = "failed"

NoEndYet ==
  /\ pc["client"] \notin {"exitSuccess", "succeeded"}
  /\ OneThenZero(got["client"] \o chan["client"])

Unforged == EndSent \/ NoEndYet

(***************************************************************************)
(* What is left for the server child to read, whether the client goes on   *)
(* or has given up.  Like IInv, it needs a Reliable environment.           *)
(***************************************************************************)
Ended == {"closing", "leaving"} \cup Stopped \cup DOMAIN GoodbyeCode

\* At s, the bytes the server has not used yet are one of S.
Left(s, S) ==
  pc["server"] = s => got["server"] = <<>> /\ chan["server"] \in S

Leftover ==
  /\ Left("code", {<<>>, PLAIN_PUT})
  /\ Left("filename", {<<>>, FILENAME})
  /\ Left("filesize", {<<>>, FILESIZE})
  /\ \A s \in {"hello", "filenameOK", "open", "openOK", "filesizeOK"} : Left(s, {<<>>})
  /\ pc["server"] = "readName" => got["server"] \o chan["server"] \in {<<>>, arg}
  /\ pc["server"] = "readSize" => Len(chan["server"]) < BUFSIZE
  /\ pc["server"] = "sizeOK" => chan["server"] = <<>>
  /\ pc["client"] \in DOMAIN GoodbyeCode =>
       pc["server"] \in Ended \/ (pc["server"] = "readSize" /\ chan["server"] = <<>>)

\* The bytes that have not been read go on where the file stops.
GoesOn ==
  LET all == disk[arg] \o chan["server"]
  IN  Len(all) <= Len(src) /\ all = SubSeq(src, 1, Len(all))

Orderly ==
  /\ pc["server"] = "open" => name \in {<<>>, arg}
  /\ opened => name = arg
  /\ pc["server"] = "data" => GoesOn
  /\ Leftover

\* No reply comes before the one before it is read, nor a command.
OneAtATime ==
  /\ NothingDropped
  /\ pc["client"] \in Hopeful =>
       /\ got["client"] = <<>>
       /\ chan["client"] = <<>> \/ Len(chan["client"]) = CTRL_SIZE

-----------------------------------------------------------------------------
(***************************************************************************)
(* The session implements the abstract transfer.                           *)
(***************************************************************************)
CONSTANT Untouched

ASSUME UntouchedAssumption == Untouched \notin Seq(Byte)

Report ==
  CASE pc["client"] = "succeeded" -> "success"
    [] pc["client"] \in {"failed", "spinning"} -> "failure"
    [] OTHER -> "none"

Abstract == INSTANCE Transfer WITH
  Sources <- Contents, Untouched <- Untouched, source <- src,
  stored <- IF opened THEN disk[name] ELSE Untouched, report <- Report

\* The server's file is a growing prefix of the client's, and the client
\* reports success of a complete copy alone.
ImplementsTransfer == Abstract!Spec
=============================================================================
