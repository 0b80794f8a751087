--------------------------- MODULE PlainGetProofs ---------------------------
(***************************************************************************)
(* Theorems about PlainGet: a refused GET does not truncate the client's   *)
(* file, however TCP cuts what is sent.                                    *)
(***************************************************************************)
EXTENDS PlainGet, WireProofs

LEMMA LabelTypes ==
  /\ ClientLabel \subseteq Label
  /\ ServerLabel \subseteq Label
  /\ DOMAIN GoodbyeCode \subseteq Label
  /\ {"succeeded", "failed", "spinning", "leaving", "serverError",
      "protocolError", "filenameError", "clientError"} \subseteq Label
BY DEF Label, Stopped, Exited, GoodbyeCode

(***************************************************************************)
(* Type correctness.                                                       *)
(***************************************************************************)
LEMMA InitTypeOK == Init => TypeOK
<1> SUFFICES ASSUME Init PROVE TypeOK
  OBVIOUS
<1>1. WireTypeOK(Label)
  BY EmptySeq DEF Init, InitWire, WireTypeOK, Label, ClientLabel, ServerLabel, Side
<1> QED
  BY <1>1 DEF Init, TypeOK

LEMMA ServerGetCodeTypes ==
  ASSUME WireTypeOK(Label), ServerGetCode
  PROVE  WireTypeOK(Label)'
<1>0. "server" \in Side
  BY DEF Side
<1>1. pc' \in [Side -> Label]
  BY LabelTypes DEF ServerGetCode, Gather, Die, Goto, WireTypeOK, ServerLabel
<1>2. CASE UNCHANGED <<chan, got, dropped, down, rst>>
  BY <1>1, <1>2 DEF WireTypeOK
<1>3. ASSUME NEW n \in ReadSizes("server", BUFSIZE),
             Gathers("server", n, PROTO_NAME_LENGTH)
      PROVE  WireTypeOK(Label)'
  BY <1>0, <1>1, <1>3, GathersTypes DEF PROTO_NAME_LENGTH
<1> QED
  BY <1>2, <1>3, Zenon DEF ServerGetCode, Gather, Die, Gathers

LEMMA NextTypeOK == TypeOK /\ [Next]_vars => TypeOK'
<1> SUFFICES ASSUME TypeOK, [Next]_vars PROVE WireTypeOK(Label)'
  BY DEF TypeOK, Next, vars
<1>0. WireTypeOK(Label) /\ {"client", "server"} \subseteq Side
  BY DEF TypeOK, Side
<1>1. CASE ClientAwaitHello \/ ClientAwaitOpen \/ ServerFilename
  BY <1>0, <1>1, ExpectTypes, LabelTypes
  DEF ClientAwaitHello, ClientAwaitOpen, ServerFilename, ClientLabel, ServerLabel, Label
<1>2. CASE ClientSendCode \/ ClientSendFilename \/ ClientSendName \/ ServerHello
  <2>1. {PLAIN_GET, FILENAME, OK, arg} \subseteq Seq(Byte)
    BY CommandTypes, FilenameAssumption DEF Commands, TypeOK
  <2> QED
    BY <1>0, <1>2, <2>1, SendTypes, WriteTypes, LabelTypes
    DEF ClientSendCode, ClientSendFilename, ClientSendName, ServerHello,
        ClientLabel, ServerLabel
<1>3. CASE ClientHalt
  BY <1>0, <1>3, LabelTypes DEF ClientHalt, ExitOpen, WireTypeOK, Goto
<1>4. CASE Goodbye("client") \/ Goodbye("server")
  BY <1>0, <1>4, GoodbyeKeepsTypes, LabelTypes
<1>5. CASE ServerGetCode
  BY <1>0, <1>5, ServerGetCodeTypes
<1>6. CASE Reset \/ KillClient \/ KillServer
  BY <1>0, <1>6, FaultTypes, LabelTypes
<1>7. CASE UNCHANGED wireVars
  BY <1>0, <1>7 DEF wireVars, WireTypeOK
<1> QED
  BY <1>1, <1>2, <1>3, <1>4, <1>5, <1>6, <1>7 DEF Next, Client, Server, Over, vars

(***************************************************************************)
(* The types of a GET session hold under every fault.                      *)
(***************************************************************************)
THEOREM GetTypeOK == Spec => []TypeOK
BY InitTypeOK, NextTypeOK, PTL DEF Spec

-----------------------------------------------------------------------------
(***************************************************************************)
(* What a gathering loop does with what has been sent, in any pieces.      *)
(***************************************************************************)
LEMMA InEmpty ==
  ASSUME WireTypeOK(Label), NEW x \in Side, In(x) = <<>>
  PROVE  got[x] = <<>> /\ chan[x] = <<>>
<1>1. got[x] \in Seq(Byte) /\ chan[x] \in Seq(Byte)
  BY DEF WireTypeOK
<1> QED
  BY <1>1, ConcatEqualIffEmpty DEF In

LEMMA GatherEffect ==
  ASSUME WireTypeOK(Label), NEW x \in Side, NEW from, NEW size \in Nat,
         NEW wanted, NEW hit, NEW miss,
         Len(In(x)) <= size, Gather(x, from, size, wanted, hit, miss)
  PROVE  \/ pc'[x] = from /\ In(x)' = In(x)
         \/ /\ In(x) # <<>> /\ In(x)' = <<>>
            /\ pc'[x] = IF In(x) = wanted THEN hit ELSE miss
         \/ pc'[x] \in {"spinning", "failed"} /\ In(x)' = In(x)
<1>1. /\ got[x] \in Seq(Byte) /\ chan[x] \in Seq(Byte) /\ pc[x] = from
      /\ pc \in [Side -> Label] /\ chan \in [Side -> Seq(Byte)]
      /\ got \in [Side -> Seq(Byte)]
  BY DEF WireTypeOK, Gather
<1>2. CASE AtEOF(x) /\ Goto(x, "spinning") /\ UNCHANGED <<chan, got>>
  BY <1>1, <1>2 DEF Goto, In
<1>3. CASE Broken(x) /\ Die(x)
  BY <1>1, <1>3 DEF Goto, Die, In
<1>4. ASSUME NEW n \in ReadSizes(x, BUFSIZE),
             LET all == got[x] \o Chunk(x, n)
             IN  /\ Take(x, n)
                 /\ IF Len(all) < size
                    THEN /\ got' = [got EXCEPT ![x] = all]
                         /\ UNCHANGED <<pc, dropped>>
                    ELSE /\ got' = [got EXCEPT ![x] = <<>>]
                         /\ dropped' = [dropped EXCEPT ![x] = @ + Len(all) - size]
                         /\ Goto(x, IF SubSeq(all, 1, size) = wanted
                                    THEN hit ELSE miss)
      PROVE  \/ pc'[x] = from /\ In(x)' = In(x)
             \/ /\ In(x) # <<>> /\ In(x)' = <<>>
                /\ pc'[x] = IF In(x) = wanted THEN hit ELSE miss
  <2> DEFINE all == got[x] \o Chunk(x, n)
             rest == SubSeq(chan[x], n + 1, Len(chan[x]))
  <2>1. /\ Chunk(x, n) \in Seq(Byte) /\ Len(Chunk(x, n)) = n
        /\ rest \in Seq(Byte) /\ Chunk(x, n) \o rest = chan[x]
    BY <1>1, ReadSplits, BufsizeAssumption
  <2>2. /\ all \in Seq(Byte) /\ Len(all) \in Nat /\ Len(rest) \in Nat
        /\ all \o rest = In(x)
    <3>1. all \in Seq(Byte)
      BY <1>1, <2>1, ConcatProperties
    <3>2. Len(all) \in Nat /\ Len(rest) \in Nat
      BY <2>1, <3>1, LenProperties
    <3>3. (got[x] \o Chunk(x, n)) \o rest = got[x] \o (Chunk(x, n) \o rest)
      <4> HIDE DEF rest
      <4> QED
        BY <1>1, <2>1, ByteConcat
    <3>4. all \o rest = In(x)
      <4>1. all \o rest = got[x] \o chan[x]
        BY <2>1, <3>3
      <4> QED
        BY <4>1 DEF In
    <3> QED
      BY <3>1, <3>2, <3>4
  <2>3. n >= 1 /\ n \in Nat
    BY <1>1, LenProperties, EmptySeq, BufsizeAssumption DEF ReadSizes, Smaller, PROTO_NAME_LENGTH
  <2>4. Len(all) >= 1
    BY <1>1, <2>1, <2>3, ConcatProperties, LenProperties
  <2>5. Len(In(x)) = Len(all) + Len(rest)
    BY <2>1, <2>2, ConcatProperties
  <2>6. chan'[x] = rest
    BY <1>1, <1>4 DEF Take
  <2> HIDE DEF all, rest
  <2>7. CASE Len(all) < size
    <3>1. got'[x] = all /\ pc' = pc
      BY <1>1, <1>4, <2>7 DEF all
    <3> QED
      BY <1>1, <2>2, <2>6, <3>1 DEF In
  <2>8. CASE ~(Len(all) < size)
    <3>1. Len(all) = size /\ Len(rest) = 0
      BY <2>2, <2>5, <2>8
    <3>2. rest = <<>>
      BY <2>1, <3>1, EmptySeq
    <3>3. all = In(x) /\ In(x) # <<>>
      <4>1. all \o <<>> = all
        BY <2>2, ConcatEmptySeq
      <4>2. all # <<>>
        BY <2>4, EmptySeq
      <4> QED
        BY <2>2, <3>2, <4>1, <4>2
    <3>4. SubSeq(all, 1, size) = In(x)
      BY <2>2, <3>1, <3>3, SubSeqFull
    <3>5. got'[x] = <<>> /\ pc'[x] = IF In(x) = wanted THEN hit ELSE miss
      BY <1>1, <1>4, <2>8, <3>4 DEF all, Goto
    <3>6. In(x)' = <<>>
      BY <2>6, <3>2, <3>5, ConcatEmptySeq, EmptySeq DEF In
    <3> QED
      BY <3>3, <3>5, <3>6
  <2> QED
    BY <2>7, <2>8
<1> QED
  BY <1>2, <1>3, <1>4 DEF Gather, Die

\* The other end does not notice, and nothing that was not sent is taken.
LEMMA GatherPeer ==
  ASSUME WireTypeOK(Label), NEW x \in Side, NEW from, NEW size \in Nat,
         NEW wanted, NEW hit, NEW miss, Gather(x, from, size, wanted, hit, miss)
  PROVE  /\ pc[x] = from
         /\ pc'[Peer(x)] = pc[Peer(x)] /\ In(Peer(x))' = In(Peer(x))
         /\ pc'[x] \in {from, hit, miss, "spinning", "failed"}
         /\ In(x) = <<>> => pc'[x] \in {"spinning", "failed"}
<1>1. /\ pc \in [Side -> Label] /\ chan \in [Side -> Seq(Byte)]
      /\ got \in [Side -> Seq(Byte)] /\ pc[x] = from
  BY DEF WireTypeOK, Gather
<1>2. /\ pc'[Peer(x)] = pc[Peer(x)] /\ chan'[Peer(x)] = chan[Peer(x)]
      /\ got'[Peer(x)] = got[Peer(x)]
  BY <1>1, PeerProperties DEF Gather, Take, Die, Goto
<1>3. pc'[x] \in {from, hit, miss, "spinning", "failed"}
  BY <1>1 DEF Gather, Die, Goto
<1>4. ASSUME In(x) = <<>> PROVE pc'[x] \in {"spinning", "failed"}
  <2>1. ReadSizes(x, BUFSIZE) = {}
    BY <1>4, InEmpty DEF ReadSizes
  <2> QED
    BY <1>1, <2>1 DEF Gather, Die, Goto
<1> QED
  BY <1>1, <1>2, <1>3, <1>4 DEF In

\* What is sent is behind what the other end has not used yet.
LEMMA SendIn ==
  ASSUME WireTypeOK(Label), NEW x \in Side, NEW from, NEW bytes \in Seq(Byte), NEW to,
         Send(x, from, bytes, to)
  PROVE  /\ pc[x] = from /\ pc'[x] \in {to, "failed"}
         /\ pc'[Peer(x)] = pc[Peer(x)] /\ In(x)' = In(x)
         /\ In(Peer(x))' = In(Peer(x)) \/ In(Peer(x))' = In(Peer(x)) \o bytes
<1>0. Peer(x) \in Side
  BY PeerProperties
<1>1. got[Peer(x)] \in Seq(Byte) /\ chan[Peer(x)] \in Seq(Byte)
  BY <1>0 DEF WireTypeOK
<1>2. (got[Peer(x)] \o chan[Peer(x)]) \o bytes = got[Peer(x)] \o (chan[Peer(x)] \o bytes)
  BY <1>1, ByteConcat
<1>3. /\ pc[x] = from /\ pc'[x] \in {to, "failed"}
      /\ pc'[Peer(x)] = pc[Peer(x)] /\ chan'[x] = chan[x] /\ got' = got
      /\ chan'[Peer(x)] = chan[Peer(x)] \/ chan'[Peer(x)] = chan[Peer(x)] \o bytes
  BY SendEffect
<1> QED
  BY <1>2, <1>3 DEF In

LEMMA WriteIn ==
  ASSUME WireTypeOK(Label), NEW x \in Side, NEW from, NEW bytes \in Seq(Byte), NEW to,
         Write(x, from, bytes, to)
  PROVE  /\ pc[x] = from /\ pc'[x] \in {to, "failed", "spinning"}
         /\ pc'[Peer(x)] = pc[Peer(x)] /\ In(x)' = In(x)
         /\ In(Peer(x))' = In(Peer(x)) \/ In(Peer(x))' = In(Peer(x)) \o bytes
<1>1. CASE Send(x, from, bytes, to)
  BY <1>1, SendIn
<1>2. ASSUME NEW next \in {to, "spinning"}, Unsent(x, from, next)
      PROVE  /\ pc[x] = from /\ pc'[x] \in {to, "failed", "spinning"}
             /\ pc'[Peer(x)] = pc[Peer(x)] /\ In(x)' = In(x)
             /\ In(Peer(x))' = In(Peer(x))
  <2>1. /\ pc[x] = from /\ pc'[x] = next /\ pc'[Peer(x)] = pc[Peer(x)]
        /\ chan' = chan /\ got' = got
    BY <1>2, UnsentEffect
  <2> QED
    BY <2>1 DEF In
<1>3. (IF chan[x] = <<>> THEN "spinning" ELSE to) \in {to, "spinning"}
  OBVIOUS
<1> QED
  BY <1>1, <1>2, <1>3 DEF Write

-----------------------------------------------------------------------------
(***************************************************************************)
(* The invariant.                                                          *)
(***************************************************************************)
LEMMA Lengths ==
  /\ Len(<<>>) = 0
  /\ Len(PLAIN_GET) = PROTO_NAME_LENGTH /\ PLAIN_GET # <<>>
  /\ \A command \in {OK} \cup Failures :
       /\ command \in Seq(Byte) /\ Len(command) = CTRL_SIZE
       /\ command # <<>> /\ <<>> \o command = command
  /\ OK \notin Failures
<1>1. \A command \in {OK} \cup Failures : command \in Seq(Byte) /\ Len(command) = CTRL_SIZE
  BY CommandTypes DEF Commands
<1>2. Len(<<>>) = 0
  BY EmptySeq
<1>3. Len(PLAIN_GET) = PROTO_NAME_LENGTH
  BY CommandTypes
<1>4. OK \notin Failures
  BY DEF OK, Failures, PROTOCOL_ERROR, SERVER_ERROR, FILENAME_ERROR, CLIENT_ERROR
<1> QED
  BY <1>1, <1>2, <1>3, <1>4, ConcatEmptySeq DEF CTRL_SIZE, PROTO_NAME_LENGTH

\* What an end waits for fits in one round of its loop.
LEMMA Short ==
  /\ \A s \in {<<>>, OK} \cup Failures : Len(s) <= 3
  /\ \A s \in {<<>>, PLAIN_GET} : Len(s) <= 5
<1>1. ASSUME NEW s \in {<<>>, OK} \cup Failures PROVE Len(s) <= 3
  <2>1. CASE s = <<>>
    BY <2>1, EmptySeq
  <2>2. CASE s \in {OK} \cup Failures
    <3>1. Len(s) = CTRL_SIZE
      BY <2>2, Lengths
    <3> QED
      BY <3>1 DEF CTRL_SIZE
  <2> QED
    BY <2>1, <2>2
<1>2. ASSUME NEW s \in {<<>>, PLAIN_GET} PROVE Len(s) <= 5
  <2>1. CASE s = <<>>
    BY <2>1, EmptySeq
  <2>2. CASE s = PLAIN_GET
    <3>1. Len(s) = PROTO_NAME_LENGTH
      BY <2>2, CommandTypes
    <3> QED
      BY <3>1 DEF PROTO_NAME_LENGTH
  <2> QED
    BY <2>1, <2>2
<1> QED
  BY <1>1, <1>2

LEMMA InitIInv == Init => IInv
<1> SUFFICES ASSUME Init PROVE IInv
  OBVIOUS
<1>1. \A x \in Side : In(x) = <<>>
  BY ConcatEmptySeq, EmptySeq DEF Init, InitWire, In
<1> QED
  BY <1>1, InitTypeOK DEF Init, InitWire, IInv, Greeting, Refusal, LocalFileKept,
                          Early, Late, Side, GoodbyeCode

\* Nothing sent is one reply or none: what is appended to nothing stands alone.
LEMMA AppendToNothing ==
  \A command \in {OK, PLAIN_GET} \cup Failures : <<>> \o command = command
BY CommandTypes, ConcatEmptySeq DEF Commands, Failures

LEMMA ClientIInv ==
  ASSUME IInv, TypeOK', Client
  PROVE  IInv'
<1>0. /\ WireTypeOK(Label) /\ "client" \in Side /\ Peer("client") = "server"
      /\ Greeting /\ Refusal /\ LocalFileKept
  BY DEF IInv, TypeOK, Side, Peer
<1>a. ASSUME pc'["client"] \notin Early \cup Late \cup {"openLocal"} PROVE IInv'
  BY <1>a DEF IInv, Greeting, Refusal, LocalFileKept
<1>b. ASSUME pc'["client"] \in Early, Greeting' PROVE IInv'
  BY <1>b DEF IInv, Refusal, LocalFileKept, Early, Late
<1>c. ASSUME pc'["client"] \in Late, Refusal' PROVE IInv'
  BY <1>c DEF IInv, Greeting, LocalFileKept, Early, Late
<1>1. CASE ClientSendCode
  <2>1. /\ pc["client"] = "sendCode" /\ pc'["client"] \in {"awaitHello", "failed", "spinning"}
        /\ pc'["server"] = pc["server"] /\ In("client")' = In("client")
        /\ In("server")' = In("server") \/ In("server")' = In("server") \o PLAIN_GET
    BY <1>0, <1>1, WriteIn, CommandTypes DEF ClientSendCode
  <2>2. /\ In("server") = <<>> /\ In("client") \in {<<>>, OK} \cup Failures
        /\ pc["server"] \in {"code", "hello"} \cup DOMAIN GoodbyeCode => In("client") = <<>>
        /\ pc["server"] \notin {"hello", "filename"}
    BY <1>0, <2>1 DEF Greeting, Early, Stopped, Exited
  <2>3. In("server")' \in {<<>>, PLAIN_GET}
    BY <2>1, <2>2, AppendToNothing
  <2>4. CASE pc'["client"] = "awaitHello"
    BY <1>b, <2>1, <2>2, <2>3, <2>4 DEF Greeting, Early
  <2> QED
    BY <1>a, <2>1, <2>4 DEF Early, Late
<1>2. CASE ClientAwaitHello
  <2>1. /\ pc["client"] = "awaitHello" /\ pc'["server"] = pc["server"]
        /\ In("server")' = In("server")
    BY <1>0, <1>2, GatherPeer DEF ClientAwaitHello, Expect, CTRL_SIZE
  <2>2. /\ In("client") \in {<<>>, OK} \cup Failures
        /\ In("server") \in {<<>>, PLAIN_GET}
        /\ pc["server"] \in {"code", "hello"} \cup DOMAIN GoodbyeCode => In("client") = <<>>
        /\ pc["server"] \in {"hello", "filename"} => In("server") = <<>>
    BY <1>0, <2>1 DEF Greeting, Early
  <2>3. Len(In("client")) <= CTRL_SIZE
    BY <2>2, Short DEF CTRL_SIZE
  <2>4. \/ pc'["client"] = "awaitHello" /\ In("client")' = In("client")
        \/ /\ In("client") # <<>> /\ In("client")' = <<>>
           /\ pc'["client"] = IF In("client") = OK
                              THEN "sendFilename" ELSE "protocolError"
        \/ pc'["client"] \in {"spinning", "failed"} /\ In("client")' = In("client")
    BY <1>0, <1>2, <2>3, GatherEffect DEF ClientAwaitHello, Expect, CTRL_SIZE
  <2>5. CASE pc'["client"] = "awaitHello" /\ In("client")' = In("client")
    BY <1>b, <2>1, <2>2, <2>5 DEF Greeting, Early
  <2>6. CASE In("client") # <<>> /\ In("client")' = <<>> /\ pc'["client"] = "sendFilename"
    BY <1>c, <2>1, <2>2, <2>6 DEF Refusal, Late
  <2> QED
    BY <1>a, <2>4, <2>5, <2>6 DEF Early, Late
<1>3. CASE ClientSendFilename \/ ClientSendName
  <2>1. FILENAME \in Seq(Byte) /\ arg \in Seq(Byte)
    BY CommandTypes, FilenameAssumption DEF Commands, IInv, TypeOK
  <2>2. /\ pc["client"] \in Late
        /\ pc'["client"] \in {"sendName", "awaitOpen", "failed", "spinning"}
        /\ pc'["server"] = pc["server"] /\ In("client")' = In("client")
    BY <1>0, <1>3, <2>1, SendIn, WriteIn DEF ClientSendFilename, ClientSendName, Late
  <2>3. CASE pc'["client"] \in Late
    BY <1>0, <1>c, <2>2, <2>3 DEF Refusal
  <2> QED
    BY <1>a, <2>2, <2>3 DEF Early, Late
<1>4. CASE ClientAwaitOpen
  <2>1. pc["client"] = "awaitOpen" /\ pc'["server"] = pc["server"]
    BY <1>0, <1>4, GatherPeer DEF ClientAwaitOpen, Expect, CTRL_SIZE
  <2>2. In("client") \in {<<>>} \cup Failures /\ Refusal
    BY <1>0, <2>1 DEF Refusal, Late
  <2>3. Len(In("client")) <= CTRL_SIZE /\ In("client") # OK
    <3>1. In("client") # OK
      BY <2>2, Lengths
    <3> QED
      BY <2>2, <3>1, Short DEF CTRL_SIZE
  <2>4. \/ pc'["client"] = "awaitOpen" /\ In("client")' = In("client")
        \/ pc'["client"] \in {"halt", "spinning", "failed"}
    BY <1>0, <1>4, <2>3, GatherEffect DEF ClientAwaitOpen, Expect, CTRL_SIZE
  <2>5. CASE pc'["client"] = "awaitOpen" /\ In("client")' = In("client")
    BY <1>c, <2>1, <2>2, <2>5 DEF Refusal, Late
  <2> QED
    BY <1>a, <2>4, <2>5 DEF Early, Late
<1>5. CASE ClientHalt \/ Goodbye("client")
  <2>1. pc'["client"] \in {"leaving", "failed"}
    BY <1>0, <1>5 DEF ClientHalt, ExitOpen, Goodbye, Send, Shutdown, Die, Goto, WireTypeOK
  <2> QED
    BY <1>a, <2>1 DEF Early, Late
<1> QED
  BY <1>1, <1>2, <1>3, <1>4, <1>5 DEF Client

LEMMA ServerIInv ==
  ASSUME IInv, TypeOK', Server
  PROVE  IInv'
<1>0. /\ WireTypeOK(Label) /\ "server" \in Side /\ Peer("server") = "client"
      /\ Greeting /\ Refusal /\ LocalFileKept
  BY DEF IInv, TypeOK, Side, Peer
<1>1. CASE ServerGetCode
  <2>1. /\ pc["server"] = "code" /\ pc'["client"] = pc["client"]
        /\ In("client")' = In("client")
        /\ In("server") = <<>> => pc'["server"] \in {"spinning", "failed"}
    BY <1>0, <1>1, GatherPeer DEF ServerGetCode, PROTO_NAME_LENGTH
  <2>2. pc["client"] \notin Late /\ Refusal' /\ LocalFileKept'
    BY <1>0, <2>1 DEF Refusal, LocalFileKept
  <2>3. ASSUME pc["client"] \in Early PROVE Greeting'
    <3>1. /\ In("client") = <<>> /\ In("server") \in {<<>>, PLAIN_GET}
          /\ pc["client"] = "sendCode" => In("server") = <<>>
      BY <1>0, <2>1, <2>3 DEF Greeting
    <3>2. Len(In("server")) <= PROTO_NAME_LENGTH
      BY <3>1, Short DEF PROTO_NAME_LENGTH
    <3>3. \/ pc'["server"] = "code" /\ In("server")' = In("server")
          \/ In("server")' = <<>>
          \/ pc'["server"] \in {"spinning", "failed"} /\ In("server")' = In("server")
      BY <1>0, <1>1, <3>2, GatherEffect DEF ServerGetCode, PROTO_NAME_LENGTH
    <3> QED
      BY <2>1, <3>1, <3>3 DEF Greeting, Stopped, Exited
  <2> QED
    BY <2>1, <2>2, <2>3 DEF IInv, Greeting
<1>2. CASE ServerHello
  <2>1. /\ pc["server"] = "hello" /\ pc'["server"] \in {"filename", "failed"}
        /\ pc'["client"] = pc["client"] /\ In("server")' = In("server")
        /\ In("client")' = In("client") \/ In("client")' = In("client") \o OK
    BY <1>0, <1>2, SendIn, CommandTypes DEF ServerHello, Commands
  <2>2. pc["client"] \notin Late /\ Refusal' /\ LocalFileKept'
    BY <1>0, <2>1 DEF Refusal, LocalFileKept
  <2>3. ASSUME pc["client"] \in Early PROVE Greeting'
    <3>1. /\ In("client") = <<>> /\ In("server") = <<>> /\ pc["client"] # "sendCode"
      BY <1>0, <2>1, <2>3 DEF Greeting, Stopped, Exited
    <3>2. In("client")' \in {<<>>, OK}
      BY <2>1, <3>1, AppendToNothing
    <3>3. pc'["server"] \notin {"code", "hello"} \cup DOMAIN GoodbyeCode
      BY <2>1 DEF GoodbyeCode
    <3> QED
      BY <2>1, <3>1, <3>2, <3>3 DEF Greeting
  <2> QED
    BY <2>1, <2>2, <2>3 DEF IInv, Greeting
<1>3. CASE ServerFilename
  <2>1. /\ pc["server"] = "filename" /\ pc'["client"] = pc["client"]
        /\ In("client")' = In("client")
        /\ pc'["server"] \in {"filename", "filenameError", "protocolError",
                              "spinning", "failed"}
        /\ In("server") = <<>> => pc'["server"] \in {"spinning", "failed"}
    BY <1>0, <1>3, GatherPeer DEF ServerFilename, Expect, CTRL_SIZE
  <2>2. Refusal' /\ LocalFileKept'
    BY <1>0, <2>1 DEF Refusal, LocalFileKept
  <2>3. ASSUME pc["client"] \in Early PROVE Greeting'
    <3>1. /\ In("client") \in {<<>>, OK} \cup Failures
          /\ In("server") = <<>> /\ pc["client"] # "sendCode"
      BY <1>0, <2>1, <2>3 DEF Greeting, Stopped, Exited
    <3>2. In("server")' = <<>>
      <4>1. Len(In("server")) <= CTRL_SIZE
        BY <3>1, Lengths DEF CTRL_SIZE
      <4> QED
        BY <1>0, <1>3, <3>1, <4>1, GatherEffect DEF ServerFilename, Expect, CTRL_SIZE
    <3>3. pc'["server"] \in {"spinning", "failed"}
      BY <2>1, <3>1
    <3> QED
      BY <2>1, <3>1, <3>2, <3>3 DEF Greeting, GoodbyeCode
  <2> QED
    BY <2>1, <2>2, <2>3 DEF IInv, Greeting
<1>4. ASSUME NEW reason \in DOMAIN GoodbyeCode,
             Send("server", reason, GoodbyeCode[reason], "leaving")
      PROVE  IInv'
  <2>1. GoodbyeCode[reason] \in Failures /\ GoodbyeCode[reason] \in Seq(Byte)
    BY GoodbyeTypes, Lengths
  <2>2. /\ pc["server"] = reason /\ pc'["server"] \in {"leaving", "failed"}
        /\ pc'["client"] = pc["client"] /\ In("server")' = In("server")
        /\ \/ In("client")' = In("client")
           \/ In("client")' = In("client") \o GoodbyeCode[reason]
    BY <1>0, <1>4, <2>1, SendIn
  <2>3. LocalFileKept'
    BY <1>0, <2>2 DEF LocalFileKept
  <2>4. ASSUME pc["client"] \in Early \cup Late
        PROVE  /\ In("client") = <<>>
               /\ In("client")' \in {<<>>} \cup Failures
    <3>1. In("client") = <<>>
      BY <1>0, <2>2, <2>4 DEF Greeting, Refusal
    <3> QED
      BY <2>1, <2>2, <3>1, AppendToNothing
  <2>5. /\ pc'["server"] \notin {"code", "hello", "filename"}
        /\ pc'["server"] \notin DOMAIN GoodbyeCode
        /\ reason \notin {"code"} \cup Stopped
    BY <2>2 DEF GoodbyeCode, Stopped, Exited
  <2>6. Refusal'
    BY <2>2, <2>4, <2>5 DEF Refusal
  <2>7. Greeting'
    BY <1>0, <2>2, <2>4, <2>5 DEF Greeting
  <2> QED
    BY <2>3, <2>6, <2>7 DEF IInv
<1>5. CASE Shutdown("server", "leaving", "failed")
  <2>1. /\ pc["server"] = "leaving" /\ pc'["server"] = "failed"
        /\ pc'["client"] = pc["client"]
        /\ In("client")' = In("client") /\ In("server")' = In("server")
    BY <1>0, <1>5 DEF Shutdown, Goto, In, WireTypeOK
  <2> QED
    BY <1>0, <2>1 DEF IInv, Greeting, Refusal, LocalFileKept, GoodbyeCode,
                      Stopped, Exited
<1> QED
  BY <1>1, <1>2, <1>3, <1>4, <1>5 DEF Server, Goodbye

LEMMA NextIInv == IInv /\ [Next]_vars => IInv'
<1> SUFFICES ASSUME IInv, [Next]_vars PROVE IInv'
  OBVIOUS
<1>0. TypeOK' /\ WireTypeOK(Label) /\ Greeting /\ Refusal /\ LocalFileKept
  BY NextTypeOK DEF IInv, TypeOK
<1>1. CASE Client
  BY <1>0, <1>1, ClientIInv
<1>2. CASE Server
  BY <1>0, <1>2, ServerIInv
<1>3. CASE KillClient
  <2>1. pc'["client"] = "failed"
    BY <1>0, <1>3 DEF KillClient, ExitOpen, Goto, WireTypeOK, Side
  <2> QED
    BY <1>0, <2>1 DEF IInv, Greeting, Refusal, LocalFileKept, Early, Late
<1>4. CASE KillServer
  <2>1. /\ pc'["server"] = "failed" /\ pc'["client"] = pc["client"]
        /\ In("client")' = In("client") /\ In("server")' = In("server")
    BY <1>0, <1>4 DEF KillServer, Die, Goto, In, WireTypeOK, Side
  <2> QED
    BY <1>0, <2>1 DEF IInv, Greeting, Refusal, LocalFileKept, GoodbyeCode,
                      Stopped, Exited
<1>5. CASE Reset \/ UNCHANGED wireVars
  <2>1. UNCHANGED <<pc, chan, got>>
    BY <1>5 DEF Reset, wireVars
  <2> QED
    BY <1>0, <2>1 DEF IInv, Greeting, Refusal, LocalFileKept, In
<1> QED
  BY <1>1, <1>2, <1>3, <1>4, <1>5 DEF Next, Over, vars

(***************************************************************************)
(* The invariant of a GET session: no end is sent two commands before it   *)
(* has used the first, and after the greeting only failures reach the      *)
(* client; for every cut, reset and kill (protocol.c:104-140, 306-318).    *)
(***************************************************************************)
THEOREM GetIInv == Spec => []IInv
BY InitIInv, NextIInv, PTL DEF Spec

(***************************************************************************)
(* A refused client never comes to the open() that truncates its own file  *)
(* (protocol.c:519-526).                                                   *)
(***************************************************************************)
THEOREM GetLocalFileKept == Spec => []LocalFileKept
<1>1. IInv => LocalFileKept
  BY DEF IInv
<1> QED
  BY <1>1, GetIInv, PTL
=============================================================================
