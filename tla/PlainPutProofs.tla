--------------------------- MODULE PlainPutProofs ---------------------------
(***************************************************************************)
(* Theorems about PlainPut.                                                *)
(***************************************************************************)
EXTENDS PlainPut, WireProofs, FiniteSetTheorems

\* clean_filename leaves a name, and one without control characters alone.
LEMMA CleanFilenameProperties ==
  ASSUME NEW s \in Seq(Byte)
  PROVE  /\ CleanFilename(s) \in Seq(Byte)
         /\ (\A i \in 1..Len(s) : ~IsControl(s[i])) => CleanFilename(s) = s
<1>1. Len(s) \in Nat
  BY LenProperties
<1>2. IsFiniteSet(1..Len(s)) /\ Cardinality(1..Len(s)) = Len(s)
  BY <1>1, FS_Interval
<1>3. CleanPositions(s) \in SUBSET (1..Len(s))
  BY DEF CleanPositions
<1>4. Cardinality(CleanPositions(s)) \in 0..Len(s)
  BY <1>1, <1>2, <1>3, FS_Subset, FS_CardinalityType
<1>5. CleanFilename(s) \in Seq(Byte)
  BY <1>1, <1>4, SplitSeq DEF CleanFilename
<1>6. ASSUME \A i \in 1..Len(s) : ~IsControl(s[i])
      PROVE  CleanFilename(s) = s
  <2>1. \A i \in 1..Len(s) : \A j \in 1..i : ~IsControl(s[j])
    BY <1>1, <1>6
  <2>2. CleanPositions(s) = 1..Len(s)
    BY <2>1 DEF CleanPositions
  <2> QED
    BY <1>2, <2>2, SubSeqFull DEF CleanFilename
<1> QED
  BY <1>5, <1>6

\* What an int is when it is compared as a size_t.
LEMMA ToSizeProperties ==
  /\ WORD \in Nat \ {0}
  /\ \A v : ToSize(v) \in 0..(WORD - 1)
  /\ \A v \in Nat : ToInt(v) \in (-INT_MAX - 1)..INT_MAX
  /\ \A v \in 0..INT_MAX : ToSize(v) = v /\ ToInt(v) = v
<1>1. WORD \in Nat \ {0} /\ INT_MAX < WORD
  BY IntAssumption DEF WORD
<1>2. \A v \in Int : v % WORD \in 0..(WORD - 1)
  BY <1>1
<1>3. \A v : ToSize(v) \in 0..(WORD - 1)
  BY <1>1, <1>2 DEF ToSize
<1>4. \A v \in 0..INT_MAX : ToSize(v) = v
  BY <1>1, IntAssumption DEF ToSize
<1>5. \A v \in Nat : ToInt(v) \in (-INT_MAX - 1)..INT_MAX
  BY <1>3, IntAssumption DEF ToInt, WORD
<1> QED
  BY <1>1, <1>3, <1>4, <1>5, IntAssumption DEF ToInt

-----------------------------------------------------------------------------
(***************************************************************************)
(* Type correctness.                                                       *)
(***************************************************************************)
LEMMA InitTypeOK == Init => TypeOK
<1> SUFFICES ASSUME Init PROVE TypeOK
  OBVIOUS
<1>1. WireTypeOK(Label)
  BY EmptySeq DEF Init, InitWire, WireTypeOK, Label, ClientLabel, ServerLabel,
                  Side
<1>2. 0 \in 0..(WORD - 1)
  BY ToSizeProperties
<1> QED
  BY <1>1, <1>2, EmptySeq, OldDiskAssumption DEF Init, TypeOK

\* Steps that leave the session's own variables alone.
LEMMA WireStepTypeOK ==
  ASSUME TypeOK, WireTypeOK(Label)', UNCHANGED <<clientVars, serverVars>>
  PROVE  TypeOK'
BY DEF TypeOK, clientVars, serverVars

LEMMA LabelTypes ==
  /\ ClientLabel \subseteq Label
  /\ ServerLabel \subseteq Label
  /\ DOMAIN GoodbyeCode \subseteq Label
  /\ {"succeeded", "failed", "spinning", "leaving", "serverError",
      "protocolError", "filenameError", "clientError"} \subseteq Label
BY DEF Label, Stopped, Exited, GoodbyeCode

LEMMA SendTypeOK ==
  ASSUME TypeOK, NEW x \in Side, NEW from, NEW bytes \in Seq(Byte),
         NEW to \in Label, Send(x, from, bytes, to),
         UNCHANGED <<clientVars, serverVars>>
  PROVE  TypeOK'
<1>1. WireTypeOK(Label)'
  BY SendTypes, LabelTypes DEF TypeOK
<1> QED
  BY <1>1, WireStepTypeOK

LEMMA WriteTypeOK ==
  ASSUME TypeOK, NEW x \in Side, NEW from, NEW bytes \in Seq(Byte),
         NEW to \in Label, Write(x, from, bytes, to),
         UNCHANGED <<clientVars, serverVars>>
  PROVE  TypeOK'
<1>1. WireTypeOK(Label)'
  BY WriteTypes, LabelTypes DEF TypeOK
<1> QED
  BY <1>1, WireStepTypeOK

LEMMA UnsentTypeOK ==
  ASSUME TypeOK, NEW x \in Side, NEW from, NEW to \in Label, Unsent(x, from, to),
         UNCHANGED <<clientVars, serverVars>>
  PROVE  TypeOK'
<1>1. WireTypeOK(Label)'
  BY UnsentTypes DEF TypeOK
<1> QED
  BY <1>1, WireStepTypeOK

LEMMA ExpectTypeOK ==
  ASSUME TypeOK, NEW x \in Side, NEW from, NEW command,
         NEW hit \in Label, NEW miss \in Label,
         Expect(x, from, command, hit, miss),
         UNCHANGED <<clientVars, serverVars>>
  PROVE  TypeOK'
<1>1. WireTypeOK(Label)'
  BY ExpectTypes, LabelTypes DEF TypeOK
<1> QED
  BY <1>1, WireStepTypeOK

LEMMA ClientTypeOK == TypeOK /\ Client => TypeOK'
<1> SUFFICES ASSUME TypeOK, Client PROVE TypeOK'
  OBVIOUS
<1>0. WireTypeOK(Label) /\ "client" \in Side
  BY DEF TypeOK, Side
<1>1. CASE \/ ClientAwaitHello \/ ClientAwaitName \/ ClientAwaitOpen
           \/ ClientAwaitSize \/ ClientAwaitReady \/ ClientAwaitEnd
  BY <1>0, <1>1, ExpectTypeOK
  DEF ClientAwaitHello, ClientAwaitName, ClientAwaitOpen, ClientAwaitSize,
      ClientAwaitReady, ClientAwaitEnd, ClientAwaitOK, Label, ClientLabel
<1>2. CASE \/ ClientSendCode \/ ClientSendFilename \/ ClientSendName
           \/ ClientSendFilesize \/ ClientSendSize
  <2>1. /\ {PLAIN_PUT, FILENAME, FILESIZE, arg} \subseteq Seq(Byte)
        /\ Decimal(ToInt(Len(src))) \in Seq(Byte)
    <3>1. Len(src) \in Nat
      BY LenProperties, ContentsAssumption DEF TypeOK
    <3> QED
      BY <3>1, CommandTypes, ToSizeProperties, FilenameAssumption,
         DecimalAssumption DEF TypeOK, Commands
  <2> QED
    BY <1>0, <1>2, <2>1, SendTypeOK, WriteTypeOK
    DEF ClientSendCode, ClientSendFilename, ClientSendName,
        ClientSendFilesize, ClientSendSize, ClientSend, Label, ClientLabel,
        ClientWrite
<1>3. CASE ClientNoSource \/ ClientDataSent
  <2>1. WireTypeOK(Label)'
    BY <1>0, <1>3, LabelTypes
    DEF ClientNoSource, ClientDataSent, WireTypeOK, Goto, ClientLabel
  <2> QED
    BY <1>3, <2>1, WireStepTypeOK DEF ClientNoSource, ClientDataSent
<1>4. CASE ClientSendData
  <2> DEFINE n == Smaller(BUFSIZE, Len(src) - offset)
  <2>1. Len(src) \in Nat /\ offset \in Nat /\ src \in Seq(Byte)
    BY LenProperties, ContentsAssumption DEF TypeOK
  <2>2. n \in Nat /\ offset + n <= Len(src)
    BY <1>4, <2>1, BufsizeAssumption DEF ClientSendData, Smaller
  <2>3. SubSeq(src, offset + 1, offset + n) \in Seq(Byte)
    <3>1. \A i \in (offset + 1)..(offset + n) : src[i] \in Byte
      BY <2>1, <2>2, ElementOfSeq
    <3> QED
      BY <2>1, <2>2, <3>1, SubSeqProperties
  <2>4. WireTypeOK(Label)'
    BY <1>0, <1>4, <2>3, WriteTypes, LabelTypes DEF ClientSendData, ClientLabel
  <2> QED
    BY <1>4, <2>1, <2>2, <2>4 DEF ClientSendData, TypeOK, serverVars
<1>5. CASE ClientExit
  <2>1. WireTypeOK(Label)'
    BY <1>0, <1>5, LabelTypes DEF ClientExit, ExitOpen, WireTypeOK, Goto
  <2> QED
    BY <1>5, <2>1, WireStepTypeOK DEF ClientExit
<1>6. CASE ClientGoodbye
  <2>1. WireTypeOK(Label)'
    BY <1>0, <1>6, GoodbyeKeepsTypes, LabelTypes DEF ClientGoodbye
  <2> QED
    BY <1>6, <2>1, WireStepTypeOK DEF ClientGoodbye
<1> QED
  BY <1>1, <1>2, <1>3, <1>4, <1>5, <1>6 DEF Client

LEMMA ServerTypeOK == TypeOK /\ Server => TypeOK'
<1> SUFFICES ASSUME TypeOK, Server PROVE TypeOK'
  OBVIOUS
<1>0. WireTypeOK(Label) /\ "server" \in Side
  BY DEF TypeOK, Side
<1>1. CASE ServerFilename \/ ServerFilesize
  BY <1>0, <1>1, ExpectTypeOK, LabelTypes
  DEF ServerFilename, ServerFilesize, ServerExpect, Label, ServerLabel
<1>2. CASE ServerGetCode
  <2>1. WireTypeOK(Label)'
    <3>1. pc' \in [Side -> Label]
      BY <1>0, <1>2, LabelTypes
      DEF ServerGetCode, Gather, Die, Goto, WireTypeOK, ServerLabel
    <3>2. CASE UNCHANGED <<chan, got, dropped, down, rst>>
      BY <1>0, <3>1, <3>2 DEF WireTypeOK
    <3>3. ASSUME NEW n \in ReadSizes("server", BUFSIZE),
                 Gathers("server", n, PROTO_NAME_LENGTH)
          PROVE  WireTypeOK(Label)'
      BY <1>0, <3>1, <3>3, GathersTypes DEF PROTO_NAME_LENGTH
    <3> QED
      BY <1>2, <3>2, <3>3, Zenon DEF ServerGetCode, Gather, Die, Gathers
  <2> QED
    BY <1>2, <2>1, WireStepTypeOK DEF ServerGetCode
<1>3. CASE \/ ServerHello \/ ServerFilenameOK \/ ServerOpenOK
           \/ ServerFilesizeOK \/ ServerSizeOK \/ ServerReport
  <2>1. OK \in Seq(Byte) /\ Verdict \in Seq(Byte)
    BY CommandTypes DEF Verdict, Commands
  <2> QED
    BY <1>0, <1>3, <2>1, SendTypeOK, UnsentTypeOK
    DEF ServerHello, ServerFilenameOK, ServerOpenOK, ServerFilesizeOK,
        ServerSizeOK, ServerReport, ServerSend, Label, ServerLabel
<1>4. CASE ServerReadName
  <2>1. got["server"] \in Seq(Byte)
    BY <1>0 DEF WireTypeOK
  <2>2. ASSUME name' \in {CleanFilename(got["server"]), name},
               got' \in {[got EXCEPT !["server"] = <<>>], got},
               Goto("server", "open") \/ Goto("server", "failed"),
               UNCHANGED <<chan, dropped, down, rst>>
        PROVE  TypeOK'
    <3>1. name' \in Seq(Byte)
      BY <2>1, <2>2, CleanFilenameProperties DEF TypeOK
    <3>2. got' \in [Side -> Seq(Byte)]
      BY <1>0, <2>2, EmptySeq DEF WireTypeOK
    <3>3. pc' \in [Side -> Label]
      BY <1>0, <2>2, LabelTypes DEF WireTypeOK, Goto, ServerLabel
    <3>4. WireTypeOK(Label)'
      BY <1>0, <2>2, <3>2, <3>3 DEF WireTypeOK
    <3> QED
      BY <1>4, <3>1, <3>4 DEF ServerReadName, NameEnds, TypeOK, clientVars
  <2>3. ASSUME NEW n \in ReadSizes("server", BUFSIZE), Take("server", n),
               LET all == got["server"] \o Chunk("server", n)
               IN  /\ \/ Goto("server", "filenameError")
                      \/ Goto("server", "open")
                      \/ UNCHANGED pc
                   /\ \/ got' = [got EXCEPT !["server"] = <<>>]
                      \/ got' = [got EXCEPT !["server"] = all]
                      \/ UNCHANGED got
                   /\ name' = CleanFilename(all) \/ UNCHANGED name
        PROVE  TypeOK'
    <3> DEFINE all == got["server"] \o Chunk("server", n)
    <3>1. /\ Chunk("server", n) \in Seq(Byte)
          /\ SubSeq(chan["server"], n + 1, Len(chan["server"])) \in Seq(Byte)
      BY <1>0, ReadSplits, BufsizeAssumption DEF WireTypeOK
    <3>2. all \in Seq(Byte)
      BY <2>1, <3>1, ConcatProperties
    <3>3. name' \in Seq(Byte)
      BY <2>3, <3>2, CleanFilenameProperties DEF TypeOK
    <3>4. got' \in [Side -> Seq(Byte)]
      BY <1>0, <2>3, <3>2, EmptySeq DEF WireTypeOK
    <3>5. pc' \in [Side -> Label]
      BY <1>0, <2>3, LabelTypes DEF WireTypeOK, Goto, ServerLabel
    <3>6. WireTypeOK(Label)'
      BY <1>0, <1>4, <2>3, <3>1, <3>4, <3>5
      DEF ServerReadName, NameEnds, WireTypeOK, Take
    <3> QED
      BY <1>4, <3>3, <3>6 DEF ServerReadName, NameEnds, TypeOK, clientVars
  <2> QED
    BY <1>4, <2>2, <2>3 DEF ServerReadName, NameEnds, Die
<1>5. CASE ServerOpen
  <2>1. WireTypeOK(Label)'
    BY <1>0, <1>5, LabelTypes DEF ServerOpen, WireTypeOK, Goto, ServerLabel
  <2>2. disk' \in [DOMAIN disk' -> Seq(Byte)]
    BY <1>5, EmptySeq DEF ServerOpen, TypeOK
  <2> QED
    BY <1>5, <2>1, <2>2 DEF ServerOpen, TypeOK, clientVars
<1>6. CASE ServerReadSize
  <2>1. ASSUME NEW n \in ReadSizes("server", BUFSIZE - 1), Take("server", n)
        PROVE  chan' \in [Side -> Seq(Byte)]
    BY <1>0, <2>1, ReadSplits, BufsizeAssumption
    DEF WireTypeOK, Take, PROTO_NAME_LENGTH
  <2>2. chan' \in [Side -> Seq(Byte)] /\ UNCHANGED <<down, rst>>
    BY <1>0, <1>6, <2>1 DEF ServerReadSize, WireTypeOK, Take
  <2>3. Goto("server", "sizeOK") \/ Goto("server", "failed")
    BY <1>6 DEF ServerReadSize
  <2>4. WireTypeOK(Label)'
    BY <1>0, <1>6, <2>2, <2>3, LabelTypes
    DEF ServerReadSize, WireTypeOK, Goto, ServerLabel
  <2>5. filesize' \in 0..(WORD - 1)
    BY <1>6, ToSizeProperties DEF ServerReadSize, TypeOK
  <2> QED
    BY <1>6, <2>4, <2>5 DEF ServerReadSize, TypeOK, clientVars
<1>7. CASE ServerReceive
  <2>1. ASSUME UNCHANGED <<chan, down, rst, disk, total>>,
               Goto("server", "spinning") \/ Goto("server", "failed")
        PROVE  TypeOK'
    <3>1. WireTypeOK(Label)'
      BY <1>0, <1>7, <2>1, LabelTypes DEF ServerReceive, WriteChunk,
                                          WireTypeOK, Goto
    <3> QED
      BY <1>7, <2>1, <3>1 DEF ServerReceive, WriteChunk, TypeOK, clientVars
  <2>2. ASSUME NEW n \in ReadSizes("server", BUFSIZE), Take("server", n),
               total' = (total + n) % WORD,
               \/ /\ \E w \in IF "shortWrite" \in Faults THEN 1..n ELSE {n} :
                        disk' = [disk EXCEPT ![name] = @ \o Chunk("server", w)]
                  /\ UNCHANGED pc
               \/ Goto("server", "serverError") /\ UNCHANGED disk
        PROVE  TypeOK'
    <3>1. /\ n \in 0..Len(chan["server"])
          /\ SubSeq(chan["server"], n + 1, Len(chan["server"])) \in Seq(Byte)
          /\ chan["server"] \in Seq(Byte) /\ Len(chan["server"]) \in Nat
      BY <1>0, ReadSplits, BufsizeAssumption, LenProperties DEF WireTypeOK
    <3>2. WireTypeOK(Label)'
      BY <1>0, <1>7, <2>2, <3>1, LabelTypes
      DEF ServerReceive, WriteChunk, WireTypeOK, Take, Goto
    <3>3. total' \in 0..(WORD - 1)
      <4>1. total + n \in Int
        BY <3>1 DEF TypeOK
      <4> QED
        BY <2>2, <4>1, ToSizeProperties
    <3>4. disk' \in [DOMAIN disk' -> Seq(Byte)]
      <4>1. CASE UNCHANGED disk
        BY <4>1 DEF TypeOK
      <4>2. ASSUME NEW w \in 0..n,
                   disk' = [disk EXCEPT ![name] = @ \o Chunk("server", w)]
            PROVE  disk' \in [DOMAIN disk' -> Seq(Byte)]
        <5>1. Chunk("server", w) \in Seq(Byte)
          BY <3>1, SplitSeq DEF Chunk
        <5>2. name \in DOMAIN disk =>
                disk[name] \o Chunk("server", w) \in Seq(Byte)
          BY <5>1, ConcatProperties DEF TypeOK
        <5> QED
          BY <4>2, <5>2 DEF TypeOK
      <4> QED
        BY <2>2, <3>1, <4>1, <4>2
    <3> QED
      BY <1>7, <3>2, <3>3, <3>4 DEF ServerReceive, WriteChunk, TypeOK,
                                    clientVars
  <2> QED
    BY <1>7, <2>1, <2>2 DEF ServerReceive, WriteChunk
<1>8. CASE ServerShutdown
  <2>1. WireTypeOK(Label)'
    BY <1>0, <1>8, ShutdownTypes, LabelTypes DEF ServerShutdown
  <2> QED
    BY <1>8, <2>1, WireStepTypeOK DEF ServerShutdown
<1>9. CASE ServerGoodbye
  <2>1. WireTypeOK(Label)'
    BY <1>0, <1>9, GoodbyeKeepsTypes, LabelTypes DEF ServerGoodbye
  <2> QED
    BY <1>9, <2>1, WireStepTypeOK DEF ServerGoodbye
<1> QED
  BY <1>1, <1>2, <1>3, <1>4, <1>5, <1>6, <1>7, <1>8, <1>9 DEF Server

LEMMA NextTypeOK == TypeOK /\ [Next]_vars => TypeOK'
<1> SUFFICES ASSUME TypeOK, [Next]_vars PROVE TypeOK'
  OBVIOUS
<1>1. CASE Client
  BY <1>1, ClientTypeOK
<1>2. CASE Server
  BY <1>2, ServerTypeOK
<1>3. CASE EditSource
  BY <1>3 DEF EditSource, TypeOK, WireTypeOK, wireVars, serverVars
<1>4. CASE ConnectionFault
  <2>1. WireTypeOK(Label)'
    BY <1>4, FaultTypes, LabelTypes DEF ConnectionFault, TypeOK
  <2> QED
    BY <1>4, <2>1, WireStepTypeOK DEF ConnectionFault
<1>5. CASE UNCHANGED vars
  BY <1>5 DEF vars, wireVars, clientVars, serverVars, TypeOK, WireTypeOK
<1> QED
  BY <1>1, <1>2, <1>3, <1>4, <1>5 DEF Next, Over

(***************************************************************************)
(* TypeOK holds whatever faults are injected: the state of a PLAIN_PUT     *)
(* session keeps its types, filesize and total stay within a size_t, and   *)
(* what read_filename leaves in the name buffer is always a name.          *)
(***************************************************************************)
THEOREM PutTypeOK == Spec => []TypeOK
BY InitTypeOK, NextTypeOK, PTL DEF Spec

-----------------------------------------------------------------------------
(***************************************************************************)
(* A process that has sent its FIN has ended.                              *)
(***************************************************************************)
LEMMA NextDown == TypeOK /\ DownMeansExited /\ [Next]_vars => DownMeansExited'
<1> SUFFICES ASSUME TypeOK, DownMeansExited, [Next]_vars
             PROVE  DownMeansExited'
  OBVIOUS
<1>0. WireTypeOK(Label) /\ {"client", "server"} \subseteq Side
  BY DEF TypeOK, Side
<1>1. CASE \/ ClientAwaitHello \/ ClientAwaitName \/ ClientAwaitOpen
           \/ ClientAwaitSize \/ ClientAwaitReady \/ ClientAwaitEnd
           \/ ServerFilename \/ ServerFilesize
  BY <1>0, <1>1, ExpectDown
  DEF ClientAwaitHello, ClientAwaitName, ClientAwaitOpen, ClientAwaitSize,
      ClientAwaitReady, ClientAwaitEnd, ClientAwaitOK, ServerFilename,
      ServerFilesize, ServerExpect, Exited
<1>2. CASE \/ ClientSendCode \/ ClientSendFilename \/ ClientSendName
           \/ ClientSendFilesize \/ ClientSendSize \/ ClientSendData
  BY <1>0, <1>2, SendDown, WriteDown
  DEF ClientSendCode, ClientSendFilename, ClientSendName, ClientSendFilesize,
      ClientSendSize, ClientSendData, ClientSend, Exited, ClientWrite
<1>3. CASE \/ ServerHello \/ ServerFilenameOK \/ ServerOpenOK
           \/ ServerFilesizeOK \/ ServerSizeOK \/ ServerReport
  BY <1>0, <1>3, SendDown, UnsentDown
  DEF ServerHello, ServerFilenameOK, ServerOpenOK, ServerFilesizeOK,
      ServerSizeOK, ServerReport, ServerSend, Exited
<1>4. CASE ClientNoSource \/ ClientDataSent
  BY <1>0, <1>4
  DEF ClientNoSource, ClientDataSent, Goto, WireTypeOK, DownMeansExited, Exited
<1>5. CASE ClientExit
  BY <1>0, <1>5
  DEF ClientExit, ExitOpen, Goto, WireTypeOK, DownMeansExited, Exited
<1>6. CASE ClientGoodbye \/ ServerGoodbye
  BY <1>0, <1>6, GoodbyeDown DEF ClientGoodbye, ServerGoodbye
<1>7. CASE ServerGetCode
  BY <1>0, <1>7
  DEF ServerGetCode, Gather, Take, Goto, Die, WireTypeOK, DownMeansExited,
      Exited
<1>8. CASE ServerReadName \/ ServerOpen \/ ServerReadSize
  BY <1>0, <1>8
  DEF ServerReadName, NameEnds, ServerOpen, ServerReadSize, Take, Goto, Die,
      WireTypeOK, DownMeansExited, Exited
<1>9. CASE ServerReceive
  BY <1>0, <1>9
  DEF ServerReceive, WriteChunk, Take, Goto, WireTypeOK, DownMeansExited, Exited
<1>10. CASE ServerShutdown
  BY <1>0, <1>10
  DEF ServerShutdown, Shutdown, Goto, WireTypeOK, DownMeansExited, Exited
<1>11. CASE ConnectionFault
  BY <1>0, <1>11, FaultDown DEF ConnectionFault
<1>12. CASE EditSource \/ UNCHANGED vars
  BY <1>12 DEF EditSource, vars, wireVars, DownMeansExited
<1> QED
  BY <1>1, <1>2, <1>3, <1>4, <1>5, <1>6, <1>7, <1>8, <1>9, <1>10, <1>11, <1>12
  DEF Next, Over, Client, Server

-----------------------------------------------------------------------------
(***************************************************************************)
(* A session that is over, or hopeless, stays so.                          *)
(***************************************************************************)
LEMMA ClientMoves ==
  ASSUME TypeOK, Client
  PROVE  /\ pc'["server"] = pc["server"]
         /\ UNCHANGED <<arg, src, serverVars>>
         /\ pc["client"] \notin Hopeful => pc'["client"] \notin Hopeful
<1>0. pc \in [Side -> Label] /\ Side = {"client", "server"}
  BY DEF TypeOK, WireTypeOK, Side
<1>1. UNCHANGED <<arg, src, serverVars>>
  BY DEF Client, ClientSendCode, ClientAwaitHello, ClientSendFilename,
     ClientAwaitName, ClientSendName, ClientAwaitOpen, ClientSendFilesize,
     ClientAwaitSize, ClientSendSize, ClientNoSource, ClientAwaitReady,
     ClientSendData, ClientDataSent, ClientAwaitEnd, ClientExit, ClientGoodbye,
     ClientSend, ClientAwaitOK, clientVars, ClientWrite
<1>2. CASE \/ ClientSendCode \/ ClientAwaitHello \/ ClientSendFilename
           \/ ClientAwaitName \/ ClientSendName \/ ClientAwaitOpen
           \/ ClientSendFilesize \/ ClientAwaitSize \/ ClientSendSize
           \/ ClientAwaitReady \/ ClientSendData \/ ClientAwaitEnd
           \/ ClientNoSource \/ ClientDataSent \/ ClientExit
  <2>1. /\ pc["client"] \in Hopeful \/ pc["client"] = "exitFailure"
        /\ pc["client"] = "exitFailure" => pc' = [pc EXCEPT !["client"] = "failed"]
    BY <1>2
    DEF ClientSendCode, ClientAwaitHello, ClientSendFilename, ClientAwaitName,
        ClientSendName, ClientAwaitOpen, ClientSendFilesize, ClientAwaitSize,
        ClientSendSize, ClientNoSource, ClientAwaitReady, ClientSendData,
        ClientDataSent, ClientAwaitEnd, ClientExit, ClientSend, ClientAwaitOK,
        Send, Expect, Gather, ExitOpen, Goto, Hopeful, ClientLabel,
        ClientWrite, Write, Unsent
  <2>2. pc'["server"] = pc["server"]
    BY <1>0, <1>2
    DEF ClientSendCode, ClientAwaitHello, ClientSendFilename, ClientAwaitName,
        ClientSendName, ClientAwaitOpen, ClientSendFilesize, ClientAwaitSize,
        ClientSendSize, ClientNoSource, ClientAwaitReady, ClientSendData,
        ClientDataSent, ClientAwaitEnd, ClientExit, ClientSend, ClientAwaitOK,
        Send, Expect, Gather, ExitOpen, Goto, Die, ClientWrite, Write, Unsent
  <2> QED
    BY <1>0, <1>1, <2>1, <2>2 DEF Hopeful, ClientLabel
<1>3. CASE ClientGoodbye
  BY <1>0, <1>1, <1>3
  DEF ClientGoodbye, Goodbye, Send, Shutdown, Goto, Die, Hopeful, ClientLabel,
      GoodbyeCode
<1> QED
  BY <1>2, <1>3 DEF Client

LEMMA ServerMoves ==
  ASSUME TypeOK, Server
  PROVE  pc'["client"] = pc["client"] /\ UNCHANGED clientVars
<1>0. pc \in [Side -> Label] /\ Side = {"client", "server"}
  BY DEF TypeOK, WireTypeOK, Side
<1> QED
  BY <1>0
  DEF Server, ServerGetCode, ServerHello, ServerFilename, ServerFilenameOK,
      ServerReadName, ServerOpen, ServerOpenOK, ServerFilesize,
      ServerFilesizeOK, ServerReadSize, ServerSizeOK, ServerReceive, WriteChunk,
      ServerReport, ServerShutdown, ServerGoodbye, ServerSend, ServerExpect,
      Goodbye, Send, Expect, Gather, Shutdown, Goto, Die, clientVars, Unsent

LEMMA DoneStable ==
  ASSUME Reliable, TypeOK, Done, [Next]_vars
  PROVE  Done'
<1>0. pc \in [Side -> Label] /\ Side = {"client", "server"}
  BY DEF TypeOK, WireTypeOK, Side
<1>1. CASE Client
  BY <1>1, ClientMoves DEF Done, Delivered, serverVars
<1>2. CASE Server
  <2>1. CASE ServerShutdown
    BY <1>0, <2>1 DEF ServerShutdown, Shutdown, Goto, Done, Delivered,
       clientVars, serverVars
  <2>2. CASE Server /\ ~ServerShutdown
    BY <1>0, <2>2
    DEF Server, ServerGetCode, ServerHello, ServerFilename, ServerFilenameOK,
        ServerReadName, ServerOpen, ServerOpenOK, ServerFilesize,
        ServerFilesizeOK, ServerReadSize, ServerSizeOK, ServerReceive,
        ServerReport, ServerGoodbye, ServerSend, ServerExpect, Goodbye, Send,
        Expect, Gather, Shutdown, Done, GoodbyeCode, Unsent
  <2> QED
    BY <1>2, <2>1, <2>2
<1>3. CASE ConnectionFault
  BY <1>0, <1>3
  DEF ConnectionFault, Reset, KillClient, KillServer, ExitOpen, Die, Goto, Done,
      Delivered, clientVars, serverVars
<1>4. CASE EditSource
  BY <1>4 DEF EditSource, Reliable
<1>5. CASE UNCHANGED vars
  BY <1>5 DEF vars, wireVars, clientVars, serverVars, Done, Delivered
<1> QED
  BY <1>1, <1>2, <1>3, <1>4, <1>5 DEF Next, Over

LEMMA HopelessStable ==
  ASSUME Reliable, TypeOK, pc["client"] \notin Hopeful, [Next]_vars
  PROVE  pc'["client"] \notin Hopeful
<1>0. pc \in [Side -> Label] /\ Side = {"client", "server"}
  BY DEF TypeOK, WireTypeOK, Side
<1>1. CASE Client
  BY <1>1, ClientMoves
<1>2. CASE Server
  BY <1>2, ServerMoves
<1>3. CASE ConnectionFault
  BY <1>0, <1>3
  DEF ConnectionFault, Reset, KillClient, KillServer, ExitOpen, Die, Goto,
      Hopeful, ClientLabel
<1>4. CASE EditSource \/ UNCHANGED vars
  BY <1>4 DEF EditSource, vars, wireVars
<1> QED
  BY <1>1, <1>2, <1>3, <1>4 DEF Next, Over

-----------------------------------------------------------------------------
(***************************************************************************)
(* The client's steps of the conversation.                                 *)
(***************************************************************************)
LEMMA TalkProperties ==
  ASSUME InTalk
  PROVE  /\ got["client"] = <<>>
         /\ pc["client"] \in ClientLabel \ {"exitSuccess", "exitFailure"}
         /\ chan["client"] \in {<<>>, OK} \cup Failures
         /\ pc["server"] \notin {"succeeded", "closing", "spinning"}
         /\ chan["client"] = <<>> \/ Len(chan["client"]) = CTRL_SIZE
<1>1. /\ got["client"] = <<>>
      /\ pc["client"] \in ClientLabel \ {"exitSuccess", "exitFailure"}
      /\ chan["client"] \in {<<>>, OK} \cup Failures
      /\ pc["server"] \notin {"succeeded", "closing", "spinning"}
  BY DEF InTalk, Greeting, Naming, Sizing, Sending, ServerLost, At, ClientLabel,
     GoodbyeCode
<1>2. chan["client"] # <<>> => Len(chan["client"]) = CTRL_SIZE
  BY <1>1, CommandTypes DEF Commands
<1> QED
  BY <1>1, <1>2

LEMMA ClientAwaitEffect ==
  ASSUME Reliable, TypeOK, InTalk, NEW from, NEW to, ClientAwaitOK(from, to)
  PROVE  /\ pc["client"] = from
         /\ pc'["server"] = pc["server"]
         /\ chan'["server"] = chan["server"]
         /\ chan'["client"] = <<>>
         /\ UNCHANGED <<got, clientVars, serverVars>>
         /\ \/ chan["client"] # <<>> /\ pc'["client"] = to
            \/ pc'["client"] \notin Hopeful
<1>1. "client" \in Side /\ Peer("client") = "server" /\ "fragment" \notin Faults
  BY DEF Side, Peer, Reliable
<1>2. Expect("client", from, OK, to, to) /\ UNCHANGED <<clientVars, serverVars>>
  BY DEF ClientAwaitOK
<1>3. {"spinning", "failed"} \cap Hopeful = {}
  BY DEF Hopeful, ClientLabel
<1> QED
  BY <1>1, <1>2, <1>3, TalkProperties, ExpectEffect DEF TypeOK

LEMMA ClientAwaitTalk ==
  ASSUME Reliable, TypeOK, InTalk,
         \/ ClientAwaitHello \/ ClientAwaitName \/ ClientAwaitOpen
         \/ ClientAwaitSize \/ ClientAwaitReady
  PROVE  Talk'
<1>0. UNCHANGED <<clientVars, serverVars, got>>
  BY ClientAwaitEffect
  DEF ClientAwaitHello, ClientAwaitName, ClientAwaitOpen, ClientAwaitSize,
      ClientAwaitReady
<1>1. CASE ServerLost
  BY <1>0, <1>1, ClientAwaitEffect
  DEF ClientAwaitHello, ClientAwaitName, ClientAwaitOpen, ClientAwaitSize,
      ClientAwaitReady, Talk, InTalk, ServerLost, ClientLabel
<1>2. CASE Greeting
  BY <1>0, <1>2, ClientAwaitEffect
  DEF ClientAwaitHello, ClientAwaitName, ClientAwaitOpen, ClientAwaitSize,
      ClientAwaitReady, Talk, InTalk, Greeting, At, clientVars, serverVars
<1>3. CASE Naming
  <2>1. CASE chan["client"] # <<>>
    <3>1. /\ got["server"] = <<>> /\ At("readName", "awaitName", <<>>, OK)
          /\ offset = 0 /\ total = 0
      BY <1>3, <2>1 DEF Naming, At
    <3>2. pc'["client"] = "sendName" \/ pc'["client"] \notin Hopeful
      BY <3>1, ClientAwaitEffect
      DEF ClientAwaitHello, ClientAwaitName, ClientAwaitOpen, ClientAwaitSize,
          ClientAwaitReady, At
    <3>3. chan'["server"] = <<>> /\ chan'["client"] = <<>> /\ pc'["server"] = "readName"
      BY <3>1, ClientAwaitEffect
      DEF ClientAwaitHello, ClientAwaitName, ClientAwaitOpen, ClientAwaitSize,
          ClientAwaitReady, At
    <3> QED
      BY <1>0, <3>1, <3>2, <3>3, TalkProperties
      DEF Talk, InTalk, Naming, At, clientVars, serverVars
  <2>2. CASE chan["client"] = <<>>
    BY <2>2, ClientAwaitEffect
    DEF ClientAwaitHello, ClientAwaitName, ClientAwaitOpen, ClientAwaitSize,
        ClientAwaitReady, Talk
  <2> QED
    BY <2>1, <2>2
<1>4. CASE Sizing
  BY <1>0, <1>4, ClientAwaitEffect
  DEF ClientAwaitHello, ClientAwaitName, ClientAwaitOpen, ClientAwaitSize,
      ClientAwaitReady, Talk, InTalk, Sizing, At, clientVars, serverVars
<1>5. CASE Sending
  <2>1. CASE chan["client"] # <<>>
    <3>1. /\ At("data", "awaitReady", <<>>, OK) /\ offset = 0
          /\ disk[arg] = <<>> /\ name = arg /\ arg \in DOMAIN disk
          /\ filesize = Len(src) /\ total = Len(disk[arg])
      BY <1>5, <2>1 DEF Sending, At
    <3>2. /\ pc'["client"] = "sendData" \/ pc'["client"] \notin Hopeful
          /\ chan'["server"] = <<>> /\ chan'["client"] = <<>>
          /\ pc'["server"] = "data"
      BY <3>1, ClientAwaitEffect
      DEF ClientAwaitHello, ClientAwaitName, ClientAwaitOpen, ClientAwaitSize,
          ClientAwaitReady, At
    <3>3. src \in Seq(Byte) /\ Len(src) \in Nat
      BY LenProperties, ContentsAssumption DEF TypeOK
    <3>4. /\ offset \in 0..Len(src)
          /\ disk[arg] \o <<>> = SubSeq(src, 1, offset)
      BY <3>1, <3>3, SubSeqEmpty, EmptySeq, ConcatEmptySeq
    <3>5. CASE pc'["client"] = "sendData"
      <4>1. Sending'
        BY <1>0, <3>1, <3>2, <3>4, <3>5 DEF Sending, At, clientVars, serverVars
      <4> QED
        BY <1>0, <4>1, TalkProperties DEF Talk, InTalk
    <3> QED
      BY <3>2, <3>5 DEF Talk
  <2>2. CASE chan["client"] = <<>>
    BY <2>2, ClientAwaitEffect
    DEF ClientAwaitHello, ClientAwaitName, ClientAwaitOpen, ClientAwaitSize,
        ClientAwaitReady, Talk
  <2> QED
    BY <2>1, <2>2
<1> QED
  BY <1>1, <1>2, <1>3, <1>4, <1>5 DEF InTalk

\* What a write() of the client does to the conversation.
ClientSent(from, bytes, to) ==
  /\ pc["client"] = from
  /\ pc'["server"] = pc["server"]
  /\ chan'["client"] = chan["client"]
  /\ got' = got
  /\ \/ pc'["client"] = to /\ chan'["server"] = chan["server"] \o bytes
     \/ pc'["client"] = to /\ ServerLost
     \/ pc'["client"] \notin Hopeful

LEMMA ClientSendEffect ==
  ASSUME TypeOK, DownMeansExited, InTalk, NEW from, NEW bytes \in Seq(Byte),
         NEW to, Send("client", from, bytes, to)
  PROVE  ClientSent(from, bytes, to)
<1>1. "client" \in Side /\ "server" \in Side /\ Peer("client") = "server"
  BY DEF Side, Peer
<1>2. down["server"] => ServerLost
  <2>1. down["server"] => pc["server"] = "failed"
    BY <1>1, TalkProperties DEF DownMeansExited, Exited
  <2> QED
    BY <2>1 DEF InTalk, Greeting, Naming, Sizing, Sending, At
<1>3. "failed" \notin Hopeful
  BY DEF Hopeful, ClientLabel
<1>4. WireTypeOK(Label)
  BY DEF TypeOK
<1>5. /\ pc["client"] = from
      /\ pc'[Peer("client")] = pc[Peer("client")]
      /\ chan'["client"] = chan["client"]
      /\ got' = got
      /\ \/ /\ pc'["client"] = to /\ ~down[Peer("client")]
            /\ chan'[Peer("client")] = chan[Peer("client")] \o bytes
         \/ /\ pc'["client"] = to /\ down[Peer("client")]
            /\ chan'[Peer("client")] = chan[Peer("client")]
         \/ /\ pc'["client"] = "failed"
            /\ chan'[Peer("client")] = chan[Peer("client")]
  BY <1>1, <1>4, SendEffect, Zenon
<1> QED
  BY <1>1, <1>2, <1>3, <1>5 DEF ClientSent

\* A write() of its own that fails unnoticed leaves the client at end of file,
\* unless the server has failed and said so.
LEMMA ClientWriteEffect ==
  ASSUME TypeOK, DownMeansExited, InTalk,
         NEW from \in {"sendCode", "sendName", "sendSize", "sendData"},
         NEW bytes \in Seq(Byte), NEW to, Write("client", from, bytes, to)
  PROVE  ClientSent(from, bytes, to)
<1>1. CASE Send("client", from, bytes, to)
  BY <1>1, ClientSendEffect
<1>2. ASSUME NEW next \in {to, "spinning"}, Unsent("client", from, next),
             chan["client"] = <<>> => next = "spinning"
      PROVE  ClientSent(from, bytes, to)
  <2>1. "client" \in Side /\ Peer("client") = "server" /\ WireTypeOK(Label)
    BY DEF Side, Peer, TypeOK
  <2>2. /\ pc["client"] = from /\ pc'["client"] = next
        /\ pc'["server"] = pc["server"] /\ chan' = chan /\ got' = got
    BY <1>2, <2>1, UnsentEffect
  <2>3. chan["client"] # <<>> => ServerLost
    BY <2>2 DEF InTalk, Greeting, Naming, Sizing, Sending, At
  <2>4. "spinning" \notin Hopeful
    BY DEF Hopeful, ClientLabel
  <2> QED
    BY <1>2, <2>2, <2>3, <2>4 DEF ClientSent
<1>3. (IF chan["client"] = <<>> THEN "spinning" ELSE to) \in {to, "spinning"}
  OBVIOUS
<1> QED
  BY <1>1, <1>2, <1>3 DEF Write

\* Commands and the file name: sent into an empty channel.
LEMMA ClientSendTalk ==
  ASSUME TypeOK, DownMeansExited, InTalk,
         \/ ClientSendCode \/ ClientSendFilename \/ ClientSendName
         \/ ClientSendFilesize
  PROVE  Talk'
<1>0. /\ PLAIN_PUT \in Seq(Byte) /\ FILENAME \in Seq(Byte)
      /\ FILESIZE \in Seq(Byte) /\ arg \in Seq(Byte)
      /\ <<>> \o PLAIN_PUT = PLAIN_PUT /\ <<>> \o FILENAME = FILENAME
      /\ <<>> \o FILESIZE = FILESIZE /\ <<>> \o arg = arg
  <2>1. /\ PLAIN_PUT \in Seq(Byte) /\ FILENAME \in Seq(Byte)
        /\ FILESIZE \in Seq(Byte) /\ arg \in Seq(Byte)
    BY CommandTypes, FilenameAssumption DEF TypeOK, Commands
  <2>2. \A s \in Seq(Byte) : <<>> \o s = s
    BY ConcatEmptySeq
  <2> QED
    BY <2>1, <2>2
<1>1. UNCHANGED <<clientVars, serverVars>>
  BY DEF ClientSendCode, ClientSendFilename, ClientSendName,
     ClientSendFilesize, ClientSend, ClientWrite
<1>2. \/ ClientSent("sendCode", PLAIN_PUT, "awaitHello")
      \/ ClientSent("sendFilename", FILENAME, "awaitName")
      \/ ClientSent("sendName", arg, "awaitOpen")
      \/ ClientSent("sendFilesize", FILESIZE, "awaitSize")
  BY <1>0, ClientSendEffect, ClientWriteEffect, Zenon
  DEF ClientSendCode, ClientSendFilename, ClientSendName, ClientSendFilesize,
      ClientSend, ClientWrite
<1>3. CASE pc'["client"] \notin Hopeful
  BY <1>3 DEF Talk
<1>4. CASE ServerLost /\ pc'["client"] \in Hopeful
  <2>1. ServerLost' /\ got' = got
    BY <1>2, <1>4 DEF ClientSent, ServerLost, ClientLabel
  <2> QED
    BY <2>1, TalkProperties DEF Talk, InTalk
<1>5. CASE /\ ~ServerLost /\ pc'["client"] \in Hopeful
           /\ ClientSent("sendCode", PLAIN_PUT, "awaitHello")
  <2>1. At("code", "sendCode", <<>>, <<>>) /\ Greeting
    BY <1>5 DEF ClientSent, InTalk, Greeting, Naming, Sizing, Sending, At
  <2>2. At("code", "awaitHello", PLAIN_PUT, <<>>)' /\ got' = got
    BY <1>0, <1>5, <2>1 DEF ClientSent, At
  <2>3. Greeting'
    BY <1>1, <2>1, <2>2 DEF Greeting, clientVars, serverVars
  <2> QED
    BY <2>2, <2>3, TalkProperties DEF Talk, InTalk
<1>6. CASE /\ ~ServerLost /\ pc'["client"] \in Hopeful
           /\ ClientSent("sendFilename", FILENAME, "awaitName")
  <2>1. At("filename", "sendFilename", <<>>, <<>>) /\ Greeting
    BY <1>6 DEF ClientSent, InTalk, Greeting, Naming, Sizing, Sending, At
  <2>2. At("filename", "awaitName", FILENAME, <<>>)' /\ got' = got
    BY <1>0, <1>6, <2>1 DEF ClientSent, At
  <2>3. Greeting'
    BY <1>1, <2>1, <2>2 DEF Greeting, clientVars, serverVars
  <2> QED
    BY <2>2, <2>3, TalkProperties DEF Talk, InTalk
<1>7. CASE /\ ~ServerLost /\ pc'["client"] \in Hopeful
           /\ ClientSent("sendName", arg, "awaitOpen")
  <2>1. /\ At("readName", "sendName", <<>>, <<>>) /\ got["server"] = <<>>
        /\ offset = 0 /\ total = 0
    BY <1>7 DEF ClientSent, InTalk, Greeting, Naming, Sizing, Sending, At
  <2>2. /\ At("readName", "awaitOpen", arg, <<>>)' /\ got' = got
        /\ arg' = arg
    BY <1>0, <1>1, <1>7, <2>1 DEF ClientSent, At, clientVars
  <2>3. Naming'
    BY <1>0, <1>1, <2>1, <2>2 DEF Naming, At, clientVars, serverVars
  <2> QED
    BY <2>2, <2>3, TalkProperties DEF Talk, InTalk
<1>8. CASE /\ ~ServerLost /\ pc'["client"] \in Hopeful
           /\ ClientSent("sendFilesize", FILESIZE, "awaitSize")
  <2>1. At("filesize", "sendFilesize", <<>>, <<>>) /\ Sizing
    BY <1>8 DEF ClientSent, InTalk, Greeting, Naming, Sizing, Sending, At
  <2>2. At("filesize", "awaitSize", FILESIZE, <<>>)' /\ got' = got
    BY <1>0, <1>8, <2>1 DEF ClientSent, At
  <2>3. Sizing'
    BY <1>1, <2>1, <2>2 DEF Sizing, clientVars, serverVars
  <2> QED
    BY <2>2, <2>3, TalkProperties DEF Talk, InTalk
<1> QED
  BY <1>2, <1>3, <1>4, <1>5, <1>6, <1>7, <1>8

LEMMA ClientSendSizeTalk ==
  ASSUME Reliable, TypeOK, DownMeansExited, InTalk, ClientSendSize
  PROVE  Talk'
<1>1. /\ Len(src) \in 0..INT_MAX /\ ToInt(Len(src)) = Len(src)
      /\ Decimal(Len(src)) \in Seq(Byte)
      /\ <<>> \o Decimal(Len(src)) = Decimal(Len(src))
  <2>1. Len(src) \in 0..INT_MAX
    BY LenProperties, ContentsAssumption, IntAssumption DEF TypeOK, Reliable
  <2>2. Decimal(Len(src)) \in Seq(Byte)
    BY <2>1, DecimalAssumption, IntAssumption
  <2> QED
    BY <2>1, <2>2, ToSizeProperties, ConcatEmptySeq
<1>2. ClientSent("sendSize", Decimal(Len(src)), "awaitReady")
  BY <1>1, ClientWriteEffect, Zenon DEF ClientSendSize, ClientWrite
<1>3. UNCHANGED <<clientVars, serverVars>>
  BY DEF ClientSendSize, ClientSend, ClientWrite
<1>4. CASE pc'["client"] \notin Hopeful
  BY <1>4 DEF Talk
<1>5. CASE ServerLost /\ pc'["client"] \in Hopeful
  <2>1. ServerLost' /\ got' = got
    BY <1>2, <1>5 DEF ClientSent, ServerLost, ClientLabel
  <2> QED
    BY <2>1, TalkProperties DEF Talk, InTalk
<1>6. CASE ~ServerLost /\ pc'["client"] \in Hopeful
  <2>1. At("readSize", "sendSize", <<>>, <<>>) /\ Sizing
    BY <1>2, <1>6 DEF ClientSent, InTalk, Greeting, Naming, Sizing, Sending, At
  <2>2. /\ At("readSize", "awaitReady", Decimal(Len(src)), <<>>)'
        /\ got' = got /\ src' = src
    BY <1>1, <1>2, <1>3, <1>6, <2>1 DEF ClientSent, At, clientVars
  <2>3. Sizing'
    BY <1>3, <2>1, <2>2 DEF Sizing, clientVars, serverVars
  <2> QED
    BY <2>2, <2>3, TalkProperties DEF Talk, InTalk
<1> QED
  BY <1>4, <1>5, <1>6

LEMMA ClientSendDataTalk ==
  ASSUME Reliable, TypeOK, DownMeansExited, InTalk, ClientSendData
  PROVE  Talk'
<1> DEFINE n == Smaller(BUFSIZE, Len(src) - offset)
           bytes == SubSeq(src, offset + 1, offset + n)
<1>1. /\ Len(src) \in Nat /\ src \in Seq(Byte) /\ offset \in Nat
      /\ n \in Nat /\ offset + n <= Len(src)
  <2>1. Len(src) \in Nat /\ src \in Seq(Byte) /\ offset \in Nat
    BY LenProperties, ContentsAssumption DEF TypeOK
  <2> QED
    BY <2>1, BufsizeAssumption DEF ClientSendData, Smaller
<1>2. bytes \in Seq(Byte)
  <2>1. \A i \in (offset + 1)..(offset + n) : src[i] \in Byte
    BY <1>1, ElementOfSeq
  <2> QED
    BY <1>1, <2>1, SubSeqProperties
<1>3. SubSeq(src, 1, offset) \o bytes = SubSeq(src, 1, offset + n)
  <2>1. /\ 1 \in 1..(Len(src) + 1) /\ offset \in (1 - 1)..Len(src)
        /\ offset + n \in offset..Len(src)
    BY <1>1
  <2> QED
    BY <1>1, <2>1, ConcatAdjacentSubSeq
<1>4. /\ offset' = offset + n /\ UNCHANGED <<arg, src, serverVars>>
      /\ Write("client", "sendData", bytes, "sendData")
  BY DEF ClientSendData
<1>5. ClientSent("sendData", bytes, "sendData")
  BY <1>2, <1>4, ClientWriteEffect, Zenon
<1>6. CASE pc'["client"] \notin Hopeful
  BY <1>6 DEF Talk
<1>7. CASE ServerLost /\ pc'["client"] \in Hopeful
  <2>1. ServerLost' /\ got' = got
    BY <1>5, <1>7 DEF ClientSent, ServerLost, ClientLabel
  <2> QED
    BY <2>1, TalkProperties DEF Talk, InTalk
<1>8. CASE ~ServerLost /\ pc'["client"] \in Hopeful
  <2>1. Sending /\ At("data", "sendData", chan["server"], <<>>)
    BY <1>5, <1>8 DEF ClientSent, InTalk, Greeting, Naming, Sizing, Sending, At
  <2>2. disk[arg] \o chan["server"] = SubSeq(src, 1, offset)
    BY <2>1 DEF Sending, At
  <2>3. disk[arg] \in Seq(Byte) /\ chan["server"] \in Seq(Byte)
    BY <2>1 DEF Sending, TypeOK, WireTypeOK, Side
  <2>4. disk[arg] \o (chan["server"] \o bytes) = SubSeq(src, 1, offset + n)
    <3> HIDE DEF bytes
    <3>1. (disk[arg] \o chan["server"]) \o bytes = SubSeq(src, 1, offset + n)
      BY <1>3, <2>2
    <3>2. (disk[arg] \o chan["server"]) \o bytes
            = disk[arg] \o (chan["server"] \o bytes)
      <4>1. \A s, t, u \in Seq(Byte) : (s \o t) \o u = s \o (t \o u)
        BY ConcatAssociative
      <4> QED
        BY <1>2, <2>3, <4>1
    <3> QED
      BY <3>1, <3>2
  <2>5. /\ pc'["client"] = "sendData" /\ pc'["server"] = "data"
        /\ chan'["server"] = chan["server"] \o bytes
        /\ chan'["client"] = <<>> /\ got' = got
    BY <1>5, <1>8, <2>1 DEF ClientSent, At
  <2>6. offset' \in 0..Len(src)
    BY <1>1, <1>4
  <2>7. Sending'
    <3>1. disk[arg] \o chan'["server"] = SubSeq(src, 1, offset')
      BY <1>4, <2>4, <2>5
    <3>2. At("data", "sendData", chan["server"], <<>>)'
      BY <2>5 DEF At
    <3> QED
      BY <1>4, <2>1, <2>6, <3>1, <3>2 DEF Sending, serverVars
  <2> QED
    BY <2>5, <2>7, TalkProperties DEF Talk, InTalk
<1> QED
  BY <1>6, <1>7, <1>8

LEMMA ClientTalk ==
  ASSUME Reliable, TypeOK, DownMeansExited, InTalk, Client
  PROVE  Talk'
<1>0. /\ pc \in [Side -> Label] /\ "client" \in Side /\ "server" \in Side
      /\ Peer("client") = "server" /\ "fragment" \notin Faults
  BY DEF TypeOK, WireTypeOK, Side, Peer, Reliable
<1>1. CASE ClientNoSource
  BY <1>0, <1>1 DEF ClientNoSource, Goto, Talk, Hopeful, ClientLabel
<1>2. CASE ClientDataSent
  <2>1. /\ pc["client"] = "sendData" /\ pc' = [pc EXCEPT !["client"] = "awaitEnd"]
        /\ UNCHANGED <<chan, got, clientVars, serverVars>> /\ offset >= Len(src)
    BY <1>2 DEF ClientDataSent, Goto
  <2>2. CASE ServerLost
    BY <1>0, <2>1, <2>2, TalkProperties DEF ServerLost, Talk, InTalk,
                                            ClientLabel
  <2>3. CASE ~ServerLost
    <3>1. Sending /\ At("data", "sendData", chan["server"], <<>>)
      BY <2>1, <2>3 DEF InTalk, Greeting, Naming, Sizing, Sending, At
    <3>2. offset = Len(src)
      <4>1. Len(src) \in Nat
        BY LenProperties, ContentsAssumption DEF TypeOK
      <4> QED
        BY <2>1, <3>1, <4>1 DEF Sending, At
    <3>3. At("data", "awaitEnd", chan["server"], <<>>)'
      BY <1>0, <2>1, <3>1 DEF At
    <3>4. Sending'
      BY <2>1, <3>1, <3>2, <3>3 DEF Sending, At, clientVars, serverVars
    <3> QED
      BY <2>1, <3>4, TalkProperties DEF Talk, InTalk
  <2> QED
    BY <2>2, <2>3
<1>3. CASE ClientAwaitEnd
  <2>1. /\ pc["client"] = "awaitEnd"
        /\ chan["client"] # <<>> => pc'["client"] =
             IF chan["client"] = END_FILE_TRANSMISSION
             THEN "exitSuccess" ELSE "exitFailure"
        /\ chan["client"] = <<>> => pc'["client"] \in {"spinning", "failed"}
    BY <1>0, <1>3, TalkProperties, ExpectEffect DEF ClientAwaitEnd, TypeOK
  <2>2. chan["client"] # END_FILE_TRANSMISSION
    BY TalkProperties
    DEF END_FILE_TRANSMISSION, OK, Failures, PROTOCOL_ERROR, SERVER_ERROR,
        FILENAME_ERROR, CLIENT_ERROR
  <2> QED
    BY <2>1, <2>2 DEF Talk, Hopeful, ClientLabel
<1>4. CASE ClientExit
  BY <1>4, TalkProperties DEF ClientExit
<1>5. CASE ClientGoodbye
  BY <1>5, TalkProperties
  DEF ClientGoodbye, Goodbye, Send, Shutdown, GoodbyeCode, ClientLabel
<1> QED
  BY <1>1, <1>2, <1>3, <1>4, <1>5, ClientAwaitTalk, ClientSendTalk,
     ClientSendSizeTalk, ClientSendDataTalk DEF Client

-----------------------------------------------------------------------------
(***************************************************************************)
(* The server's steps of the conversation.                                 *)
(***************************************************************************)
LEMMA NoEOF ==
  ASSUME TypeOK, DownMeansExited, InTalk
  PROVE  ~down["client"] /\ ~AtEOF("server")
BY TalkProperties DEF DownMeansExited, Exited, Side, ClientLabel, AtEOF, Peer

\* Wherever it is, a server child that ends leaves no success to report.
LEMMA ServerFails ==
  ASSUME TypeOK, InTalk, UNCHANGED clientVars,
         pc'["client"] = pc["client"], pc'["server"] = "failed",
         chan'["client"] = chan["client"], got'["client"] = got["client"]
  PROVE  Talk'
BY TalkProperties DEF Talk, InTalk, ServerLost

\* What a write() of the server does to the conversation.
ServerSent(from, bytes, to) ==
  /\ pc["server"] = from
  /\ pc'["client"] = pc["client"]
  /\ chan'["server"] = chan["server"]
  /\ got' = got
  /\ \/ pc'["server"] = to /\ chan'["client"] = chan["client"] \o bytes
     \/ pc'["server"] = "failed" /\ chan'["client"] = chan["client"]

LEMMA ServerSendEffect ==
  ASSUME TypeOK, DownMeansExited, InTalk, NEW from, NEW bytes \in Seq(Byte),
         NEW to, Send("server", from, bytes, to)
  PROVE  ServerSent(from, bytes, to)
<1>1. "server" \in Side /\ Peer("server") = "client"
  BY DEF Side, Peer
<1>2. WireTypeOK(Label)
  BY DEF TypeOK
<1>3. /\ pc["server"] = from
      /\ pc'[Peer("server")] = pc[Peer("server")]
      /\ chan'["server"] = chan["server"]
      /\ got' = got
      /\ \/ /\ pc'["server"] = to /\ ~down[Peer("server")]
            /\ chan'[Peer("server")] = chan[Peer("server")] \o bytes
         \/ /\ pc'["server"] = to /\ down[Peer("server")]
            /\ chan'[Peer("server")] = chan[Peer("server")]
         \/ /\ pc'["server"] = "failed"
            /\ chan'[Peer("server")] = chan[Peer("server")]
  BY <1>1, <1>2, SendEffect, Zenon
<1> QED
  BY <1>1, <1>3, NoEOF DEF ServerSent

\* The server's replies OK.
LEMMA ServerSendTalk ==
  ASSUME TypeOK, DownMeansExited, InTalk,
         \/ ServerHello \/ ServerFilenameOK \/ ServerOpenOK
         \/ ServerFilesizeOK \/ ServerSizeOK
  PROVE  Talk'
<1>0. OK \in Seq(Byte) /\ <<>> \o OK = OK
  <2>1. OK \in Seq(Byte)
    BY CommandTypes DEF Commands
  <2> QED
    BY <2>1, ConcatEmptySeq
<1>1. UNCHANGED <<clientVars, serverVars>>
  BY DEF ServerHello, ServerFilenameOK, ServerOpenOK, ServerFilesizeOK,
     ServerSizeOK, ServerSend
<1>2. \/ ServerSent("hello", OK, "filename")
      \/ ServerSent("filenameOK", OK, "readName")
      \/ ServerSent("openOK", OK, "filesize")
      \/ ServerSent("filesizeOK", OK, "readSize")
      \/ ServerSent("sizeOK", OK, "data")
  BY <1>0, ServerSendEffect, Zenon
  DEF ServerHello, ServerFilenameOK, ServerOpenOK, ServerFilesizeOK,
      ServerSizeOK, ServerSend
<1>3. CASE pc'["server"] = "failed"
  BY <1>1, <1>2, <1>3, ServerFails DEF ServerSent
<1>4. CASE /\ pc'["server"] # "failed"
           /\ ServerSent("hello", OK, "filename")
  <2>1. At("hello", "awaitHello", <<>>, <<>>) /\ Greeting
    BY <1>4 DEF ServerSent, InTalk, Greeting, Naming, Sizing, Sending,
       ServerLost, At, GoodbyeCode
  <2>2. At("filename", "awaitHello", <<>>, OK)' /\ got' = got
    BY <1>0, <1>4, <2>1 DEF ServerSent, At
  <2>3. Greeting'
    BY <1>1, <2>1, <2>2 DEF Greeting, clientVars, serverVars
  <2> QED
    BY <2>2, <2>3, TalkProperties DEF Talk, InTalk
<1>5. CASE /\ pc'["server"] # "failed"
           /\ ServerSent("filenameOK", OK, "readName")
  <2>1. At("filenameOK", "awaitName", <<>>, <<>>) /\ Greeting
    BY <1>5 DEF ServerSent, InTalk, Greeting, Naming, Sizing, Sending,
       ServerLost, At, GoodbyeCode
  <2>2. At("readName", "awaitName", <<>>, OK)' /\ got' = got
    BY <1>0, <1>5, <2>1 DEF ServerSent, At
  <2>3. Naming'
    BY <1>1, <2>1, <2>2 DEF Greeting, Naming, clientVars, serverVars
  <2> QED
    BY <2>2, <2>3, TalkProperties DEF Talk, InTalk
<1>6. CASE /\ pc'["server"] # "failed"
           /\ \/ ServerSent("openOK", OK, "filesize")
              \/ ServerSent("filesizeOK", OK, "readSize")
  <2>1. /\ \/ At("openOK", "awaitOpen", <<>>, <<>>)
           \/ At("filesizeOK", "awaitSize", <<>>, <<>>)
        /\ Sizing
    BY <1>6 DEF ServerSent, InTalk, Greeting, Naming, Sizing, Sending,
       ServerLost, At, GoodbyeCode
  <2>2. /\ \/ At("filesize", "awaitOpen", <<>>, OK)'
           \/ At("readSize", "awaitSize", <<>>, OK)'
        /\ got' = got
    BY <1>0, <1>6, <2>1 DEF ServerSent, At
  <2>3. Sizing'
    BY <1>1, <2>1, <2>2 DEF Sizing, clientVars, serverVars
  <2> QED
    BY <2>2, <2>3, TalkProperties DEF Talk, InTalk
<1>7. CASE /\ pc'["server"] # "failed"
           /\ ServerSent("sizeOK", OK, "data")
  <2>1. /\ At("sizeOK", "awaitReady", <<>>, <<>>) /\ filesize = Len(src)
        /\ Sizing
    BY <1>7 DEF ServerSent, InTalk, Greeting, Naming, Sizing, Sending,
       ServerLost, At, GoodbyeCode
  <2>2. At("data", "awaitReady", <<>>, OK)' /\ got' = got
    BY <1>0, <1>7, <2>1 DEF ServerSent, At
  <2>3. Len(disk[arg]) = 0
    BY <2>1 DEF Sizing
  <2>4. Sending'
    BY <1>1, <2>1, <2>2, <2>3 DEF Sizing, Sending, clientVars, serverVars
  <2> QED
    BY <2>2, <2>4, TalkProperties DEF Talk, InTalk
<1> QED
  BY <1>2, <1>3, <1>4, <1>5, <1>6, <1>7

\* The reads that look for the protocol code and for a command.
LEMMA ServerExpectTalk ==
  ASSUME Reliable, TypeOK, DownMeansExited, InTalk,
         ServerGetCode \/ ServerFilename \/ ServerFilesize
  PROVE  Talk'
<1>0. /\ WireTypeOK(Label) /\ "server" \in Side /\ Peer("server") = "client"
      /\ "fragment" \notin Faults /\ pc \in [Side -> Label]
      /\ Side = {"client", "server"} /\ chan \in [Side -> Seq(Byte)]
  BY DEF TypeOK, WireTypeOK, Side, Peer, Reliable
<1>1. UNCHANGED <<clientVars, serverVars>>
  BY DEF ServerGetCode, ServerFilename, ServerFilesize, ServerExpect
<1>2. CASE ServerGetCode
  <2>1. /\ pc["server"] = "code" /\ got["server"] = <<>>
        /\ offset = 0 /\ total = 0
        /\ \/ At("code", "sendCode", <<>>, <<>>)
           \/ At("code", "awaitHello", PLAIN_PUT, <<>>)
    BY <1>2 DEF ServerGetCode, Gather, InTalk, Greeting, Naming, Sizing,
       Sending, ServerLost, At, GoodbyeCode
  <2>2. /\ PROTO_NAME_LENGTH \in Nat /\ PROTO_NAME_LENGTH <= BUFSIZE
        /\ chan["server"] = <<>> \/ Len(chan["server"]) = PROTO_NAME_LENGTH
    BY <2>1, BufsizeAssumption, CommandTypes DEF At, PROTO_NAME_LENGTH
  <2>3. CASE Broken("server") /\ Die("server")
    BY <1>0, <1>1, <2>3, ServerFails DEF Die, Goto
  <2>4. ASSUME NEW n \in ReadSizes("server", BUFSIZE),
               Gathers("server", n, PROTO_NAME_LENGTH),
               LET all == got["server"] \o Chunk("server", n)
               IN  ~(Len(all) < PROTO_NAME_LENGTH) =>
                     Goto("server", IF SubSeq(all, 1, PROTO_NAME_LENGTH) = PLAIN_PUT
                                    THEN "hello" ELSE "protocolError")
        PROVE  Talk'
    <3>1. /\ chan["server"] # <<>>
          /\ Len(got["server"] \o Chunk("server", n)) = PROTO_NAME_LENGTH
          /\ SubSeq(got["server"] \o Chunk("server", n), 1, PROTO_NAME_LENGTH)
               = chan["server"]
          /\ got' = got
          /\ chan' = [chan EXCEPT !["server"] = <<>>]
      BY <1>0, <2>1, <2>2, <2>4, GathersWhole
    <3>2. At("code", "awaitHello", PLAIN_PUT, <<>>)
      BY <2>1, <3>1 DEF At
    <3>3. ~(PROTO_NAME_LENGTH < PROTO_NAME_LENGTH)
      BY <2>2
    <3>4. Goto("server", "hello")
      BY <2>4, <3>1, <3>2, <3>3 DEF At
    <3>5. At("hello", "awaitHello", <<>>, <<>>)'
      BY <1>0, <3>1, <3>2, <3>4 DEF At, Goto
    <3>6. Greeting'
      BY <1>1, <2>1, <3>1, <3>5 DEF Greeting, clientVars, serverVars
    <3> QED
      BY <3>1, <3>6, TalkProperties DEF Talk, InTalk
  <2> QED
    BY <1>2, <2>3, <2>4, NoEOF DEF ServerGetCode, Gather, Gathers
<1>3. CASE ServerFilename
  <2>1. Expect("server", "filename", FILENAME, "filenameOK", "protocolError")
    BY <1>3 DEF ServerFilename, ServerExpect
  <2>2. /\ Greeting /\ got["server"] = <<>>
        /\ \/ At("filename", "awaitHello", <<>>, OK)
           \/ At("filename", "sendFilename", <<>>, <<>>)
           \/ At("filename", "awaitName", FILENAME, <<>>)
    BY <2>1 DEF Expect, Gather, InTalk, Greeting, Naming, Sizing, Sending,
       ServerLost, At, GoodbyeCode
  <2>3. chan["server"] = <<>> \/ Len(chan["server"]) = CTRL_SIZE
    BY <2>2, CommandTypes DEF At, Commands
  <2>4. /\ pc'["client"] = pc["client"] /\ chan'["client"] = chan["client"]
        /\ got' = got /\ chan'["server"] = <<>>
        /\ \/ /\ chan["server"] # <<>>
              /\ pc'["server"] = IF chan["server"] = FILENAME
                                 THEN "filenameOK" ELSE "protocolError"
           \/ pc'["server"] = "failed"
    BY <1>0, <2>1, <2>2, <2>3, ExpectEffect, NoEOF
  <2>5. CASE pc'["server"] = "failed"
    BY <1>1, <2>4, <2>5, ServerFails
  <2>6. CASE pc'["server"] # "failed"
    <3>1. At("filenameOK", "awaitName", <<>>, <<>>)'
      BY <2>2, <2>4, <2>6 DEF At
    <3>2. Greeting'
      BY <1>1, <2>2, <2>4, <3>1 DEF Greeting, clientVars, serverVars
    <3> QED
      BY <2>4, <3>2, TalkProperties DEF Talk, InTalk
  <2> QED
    BY <2>5, <2>6
<1>4. CASE ServerFilesize
  <2>1. Expect("server", "filesize", FILESIZE, "filesizeOK", "protocolError")
    BY <1>4 DEF ServerFilesize, ServerExpect
  <2>2. /\ Sizing /\ got["server"] = <<>>
        /\ \/ At("filesize", "awaitOpen", <<>>, OK)
           \/ At("filesize", "sendFilesize", <<>>, <<>>)
           \/ At("filesize", "awaitSize", FILESIZE, <<>>)
    BY <2>1 DEF Expect, Gather, InTalk, Greeting, Naming, Sizing, Sending,
       ServerLost, At, GoodbyeCode
  <2>3. chan["server"] = <<>> \/ Len(chan["server"]) = CTRL_SIZE
    BY <2>2, CommandTypes DEF At, Commands
  <2>4. /\ pc'["client"] = pc["client"] /\ chan'["client"] = chan["client"]
        /\ got' = got /\ chan'["server"] = <<>>
        /\ \/ /\ chan["server"] # <<>>
              /\ pc'["server"] = IF chan["server"] = FILESIZE
                                 THEN "filesizeOK" ELSE "protocolError"
           \/ pc'["server"] = "failed"
    BY <1>0, <2>1, <2>2, <2>3, ExpectEffect, NoEOF
  <2>5. CASE pc'["server"] = "failed"
    BY <1>1, <2>4, <2>5, ServerFails
  <2>6. CASE pc'["server"] # "failed"
    <3>1. At("filesizeOK", "awaitSize", <<>>, <<>>)'
      BY <2>2, <2>4, <2>6 DEF At
    <3>2. Sizing'
      BY <1>1, <2>2, <2>4, <3>1 DEF Sizing, clientVars, serverVars
    <3> QED
      BY <2>4, <3>2, TalkProperties DEF Talk, InTalk
  <2> QED
    BY <2>5, <2>6
<1> QED
  BY <1>2, <1>3, <1>4

\* read_filename: the name arrives whole, whatever reads it takes.
LEMMA ServerReadNameTalk ==
  ASSUME Reliable, TypeOK, DownMeansExited, InTalk, ServerReadName
  PROVE  Talk'
<1>0. /\ WireTypeOK(Label) /\ "server" \in Side /\ Peer("server") = "client"
      /\ "fragment" \notin Faults /\ pc \in [Side -> Label]
      /\ Side = {"client", "server"} /\ chan \in [Side -> Seq(Byte)]
      /\ got \in [Side -> Seq(Byte)]
  BY DEF TypeOK, WireTypeOK, Side, Peer, Reliable
<1>1. /\ pc["server"] = "readName"
      /\ UNCHANGED <<clientVars, disk, opened, filesize, total>>
  BY DEF ServerReadName, NameEnds
<1>2. /\ Naming
      /\ \/ chan["server"] = <<>>
         \/ /\ At("readName", "awaitOpen", chan["server"], <<>>)
            /\ got["server"] \o chan["server"] = arg
  BY <1>1 DEF InTalk, Greeting, Naming, Sizing, Sending, ServerLost, At,
     GoodbyeCode
<1>3. CASE Broken("server") /\ Die("server")
  BY <1>0, <1>1, <1>3, ServerFails DEF Die, Goto
<1>4. ASSUME NEW n \in ReadSizes("server", BUFSIZE), Take("server", n),
             LET all == got["server"] \o Chunk("server", n)
             IN  IF Len(all) >= MAX_FILENAME_LENGTH
                 THEN /\ Goto("server", "filenameError")
                      /\ UNCHANGED <<got, name>>
                 ELSE IF n < BUFSIZE
                 THEN /\ Goto("server", "open")
                      /\ got' = [got EXCEPT !["server"] = <<>>]
                      /\ name' = CleanFilename(all)
                 ELSE /\ got' = [got EXCEPT !["server"] = all]
                      /\ UNCHANGED <<pc, name>>
      PROVE  Talk'
  <2> DEFINE all == got["server"] \o Chunk("server", n)
             rest == SubSeq(chan["server"], n + 1, Len(chan["server"]))
  <2>1. chan["server"] # <<>>
    BY <1>4 DEF ReadSizes
  <2>2. /\ At("readName", "awaitOpen", chan["server"], <<>>)
        /\ got["server"] \o chan["server"] = arg
    BY <1>2, <2>1
  <2>3. /\ n \in 0..Len(chan["server"]) /\ Chunk("server", n) \in Seq(Byte)
        /\ rest \in Seq(Byte) /\ Chunk("server", n) \o rest = chan["server"]
        /\ Len(rest) = Len(chan["server"]) - n
    BY <1>0, ReadSplits, BufsizeAssumption
  <2>4. all \in Seq(Byte) /\ all \o rest = arg
    <3> HIDE DEF rest
    <3>1. got["server"] \in Seq(Byte)
      BY <1>0
    <3>2. \A s, t, u \in Seq(Byte) : (s \o t) \o u = s \o (t \o u)
      BY ConcatAssociative
    <3>3. all \o rest = got["server"] \o chan["server"]
      <4>1. (got["server"] \o Chunk("server", n)) \o rest
              = got["server"] \o (Chunk("server", n) \o rest)
        BY <2>3, <3>1, <3>2, Zenon
      <4> QED
        BY <2>3, <4>1, Zenon
    <3>4. all \in Seq(Byte)
      BY <2>3, <3>1, ConcatProperties
    <3> QED
      BY <2>2, <3>3, <3>4
  <2>5. /\ chan' = [chan EXCEPT !["server"] = rest]
        /\ chan'["server"] = rest /\ chan'["client"] = <<>>
    BY <1>0, <1>4, <2>2 DEF Take, At
  <2>6. CASE Goto("server", "filenameError") /\ UNCHANGED <<got, name>>
    <3>1. ServerLost' /\ got'["client"] = <<>>
      BY <1>0, <2>2, <2>5, <2>6, TalkProperties
      DEF ServerLost, At, Goto, ClientLabel, GoodbyeCode
    <3> QED
      BY <3>1 DEF Talk, InTalk
  <2>7. CASE /\ n < BUFSIZE /\ Goto("server", "open")
             /\ got' = [got EXCEPT !["server"] = <<>>]
             /\ name' = CleanFilename(all)
    <3>1. n = Len(chan["server"])
      <4>1. Len(chan["server"]) \in Nat
        BY <1>0, LenProperties
      <4> QED
        BY <1>0, <1>4, <2>7, <4>1, BufsizeAssumption DEF ReadSizes, Smaller
    <3>2. rest = <<>> /\ all = arg
      <4>1. rest = <<>>
        <5>1. Len(chan["server"]) \in Nat
          BY <1>0, LenProperties
        <5> QED
          BY <3>1, <5>1, SubSeqEmpty
      <4> QED
        BY <2>4, <4>1, ConcatEmptySeq
    <3>3. CleanFilename(all) = all
      <4>1. \A i \in 1..Len(all) : ~IsControl(all[i])
        BY <3>2 DEF Reliable, TypeOK
      <4> QED
        BY <2>4, <4>1, CleanFilenameProperties
    <3>4. /\ At("open", "awaitOpen", <<>>, <<>>)' /\ name' = arg' /\ arg' = arg
          /\ got'["server"] = <<>> /\ got'["client"] = <<>>
      BY <1>0, <1>1, <2>2, <2>5, <2>7, <3>2, <3>3, TalkProperties
      DEF At, Goto, clientVars
    <3>5. Naming'
      BY <1>1, <1>2, <3>4 DEF Naming, clientVars
    <3> QED
      BY <3>4, <3>5 DEF Talk, InTalk
  <2>8. CASE got' = [got EXCEPT !["server"] = all] /\ UNCHANGED <<pc, name>>
    <3>1. /\ got'["server"] = all /\ got'["client"] = <<>>
          /\ got'["server"] \o chan'["server"] = arg'
      BY <1>0, <1>1, <2>4, <2>5, <2>8, TalkProperties DEF clientVars
    <3>2. At("readName", "awaitOpen", chan["server"], <<>>)'
      BY <2>2, <2>5, <2>8 DEF At
    <3>3. Naming'
      BY <1>1, <1>2, <3>1, <3>2 DEF Naming, clientVars
    <3> QED
      BY <3>1, <3>3 DEF Talk, InTalk
  <2> QED
    BY <1>4, <2>6, <2>7, <2>8
<1> QED
  BY <1>3, <1>4, NoEOF, Zenon DEF ServerReadName, NameEnds

LEMMA ServerOpenTalk ==
  ASSUME Reliable, TypeOK, DownMeansExited, InTalk, ServerOpen
  PROVE  Talk'
<1>0. pc \in [Side -> Label] /\ Side = {"client", "server"}
  BY DEF TypeOK, WireTypeOK, Side
<1>1. /\ pc["server"] = "open" /\ UNCHANGED <<clientVars, chan, got, name, total>>
  BY DEF ServerOpen
<1>2. /\ At("open", "awaitOpen", <<>>, <<>>) /\ got["server"] = <<>>
      /\ name = arg /\ offset = 0 /\ total = 0
  BY <1>1 DEF InTalk, Greeting, Naming, Sizing, Sending, ServerLost, At,
     GoodbyeCode
<1>3. CASE Goto("server", "serverError")
  <2>1. ServerLost'
    BY <1>0, <1>1, <1>2, <1>3 DEF Goto, At, ServerLost, ClientLabel, GoodbyeCode
  <2> QED
    BY <1>1, <2>1, TalkProperties DEF Talk, InTalk
<1>4. CASE /\ Goto("server", "openOK")
           /\ disk' = [f \in DOMAIN disk \cup {name} |->
                         IF f = name THEN <<>> ELSE disk[f]]
  <2>1. arg' = arg /\ arg \in DOMAIN disk' /\ disk'[arg] = <<>>
    BY <1>1, <1>2, <1>4 DEF clientVars
  <2>2. At("openOK", "awaitOpen", <<>>, <<>>)'
    BY <1>0, <1>1, <1>2, <1>4 DEF At, Goto
  <2>3. Sizing'
    BY <1>1, <1>2, <2>1, <2>2 DEF Sizing, clientVars
  <2> QED
    BY <1>1, <2>3, TalkProperties DEF Talk, InTalk
<1> QED
  BY <1>3, <1>4 DEF ServerOpen

\* The size arrives whole and atoi() reads back what printf() wrote.
LEMMA ServerReadSizeTalk ==
  ASSUME Reliable, TypeOK, DownMeansExited, InTalk, ServerReadSize
  PROVE  Talk'
<1>0. /\ WireTypeOK(Label) /\ "server" \in Side /\ Peer("server") = "client"
      /\ "fragment" \notin Faults /\ pc \in [Side -> Label]
      /\ Side = {"client", "server"} /\ chan \in [Side -> Seq(Byte)]
  BY DEF TypeOK, WireTypeOK, Side, Peer, Reliable
<1>1. /\ pc["server"] = "readSize"
      /\ UNCHANGED <<got, clientVars, name, disk, opened, total>>
  BY DEF ServerReadSize
<1>2. /\ Sizing
      /\ chan["server"] = <<>> \/ At("readSize", "awaitReady", Decimal(Len(src)), <<>>)
  BY <1>1 DEF InTalk, Greeting, Naming, Sizing, Sending, ServerLost, At,
     GoodbyeCode
<1>3. CASE Goto("server", "failed") /\ UNCHANGED chan
  BY <1>0, <1>1, <1>3, ServerFails DEF Goto
<1>4. ASSUME NEW n \in ReadSizes("server", BUFSIZE - 1), Take("server", n),
             filesize' = ToSize(Atoi(Chunk("server", n))),
             Goto("server", "sizeOK")
      PROVE  Talk'
  <2>1. chan["server"] # <<>>
    BY <1>4 DEF ReadSizes
  <2>2. At("readSize", "awaitReady", Decimal(Len(src)), <<>>)
    BY <1>2, <2>1
  <2>3. Len(src) \in 0..INT_MAX
    BY LenProperties, ContentsAssumption, IntAssumption DEF TypeOK, Reliable
  <2>4. Len(Decimal(Len(src))) < BUFSIZE /\ Atoi(Decimal(Len(src))) = Len(src)
    BY <2>3, DecimalAssumption
  <2>5. Len(chan["server"]) <= BUFSIZE - 1 /\ BUFSIZE - 1 \in Nat
    <3>1. Len(chan["server"]) \in Nat
      BY <1>0, LenProperties
    <3> QED
      BY <2>2, <2>4, <3>1, BufsizeAssumption DEF At, PROTO_NAME_LENGTH
  <2>6. /\ Chunk("server", n) = chan["server"]
        /\ SubSeq(chan["server"], n + 1, Len(chan["server"])) = <<>>
    BY <1>0, <1>4, <2>5, PromptRead
  <2>7. filesize' = Len(src)
    BY <1>4, <2>2, <2>3, <2>4, <2>6, ToSizeProperties DEF At
  <2>8. chan' = [chan EXCEPT !["server"] = <<>>]
    BY <1>4, <2>6 DEF Take
  <2>9. At("sizeOK", "awaitReady", <<>>, <<>>)'
    BY <1>0, <1>4, <2>2, <2>8 DEF At, Goto
  <2>10. Sizing'
    BY <1>1, <1>2, <2>7, <2>9 DEF Sizing, clientVars
  <2> QED
    BY <1>1, <2>10, TalkProperties DEF Talk, InTalk
<1> QED
  BY <1>3, <1>4, NoEOF DEF ServerReadSize

\* The receive loop: what has been written and what is still on its way are
\* together what the client has sent.
LEMMA ServerReceiveTalk ==
  ASSUME Reliable, TypeOK, DownMeansExited, InTalk, ServerReceive
  PROVE  Talk'
<1>0. /\ WireTypeOK(Label) /\ "server" \in Side
      /\ "shortWrite" \notin Faults /\ pc \in [Side -> Label]
      /\ Side = {"client", "server"} /\ chan \in [Side -> Seq(Byte)]
  BY DEF TypeOK, WireTypeOK, Side, Reliable
<1>1. /\ pc["server"] = "data"
      /\ UNCHANGED <<got, clientVars, name, opened, filesize>>
  BY DEF ServerReceive, WriteChunk
<1>2. Sending
  BY <1>1 DEF InTalk, Greeting, Naming, Sizing, ServerLost, At, GoodbyeCode
<1>3. CASE Goto("server", "failed") /\ UNCHANGED chan
  BY <1>0, <1>1, <1>3, ServerFails DEF Goto
<1>4. ASSUME NEW n \in ReadSizes("server", BUFSIZE), Take("server", n),
             total' = (total + n) % WORD,
             \/ /\ disk' = [disk EXCEPT ![name] = @ \o Chunk("server", n)]
                /\ UNCHANGED pc
             \/ Goto("server", "serverError")
      PROVE  Talk'
  <2> DEFINE rest == SubSeq(chan["server"], n + 1, Len(chan["server"]))
  <2>1. chan["server"] # <<>>
    BY <1>4 DEF ReadSizes
  <2>2. /\ \/ At("data", "sendData", chan["server"], <<>>)
           \/ At("data", "awaitEnd", chan["server"], <<>>) /\ offset = Len(src)
        /\ offset \in 0..Len(src)
        /\ disk[arg] \o chan["server"] = SubSeq(src, 1, offset)
    BY <1>2, <2>1 DEF Sending, At
  <2>3. /\ n \in 0..Len(chan["server"]) /\ Chunk("server", n) \in Seq(Byte)
        /\ Len(Chunk("server", n)) = n
        /\ rest \in Seq(Byte) /\ Chunk("server", n) \o rest = chan["server"]
    BY <1>0, ReadSplits, BufsizeAssumption
  <2>4. chan'["server"] = rest /\ chan'["client"] = <<>>
    BY <1>0, <1>4, <2>2 DEF Take, At
  <2>5. CASE Goto("server", "serverError")
    <3>1. ServerLost'
      BY <1>0, <2>2, <2>4, <2>5 DEF Goto, At, ServerLost, ClientLabel,
                                    GoodbyeCode
    <3> QED
      BY <1>1, <3>1, TalkProperties DEF Talk, InTalk
  <2>6. CASE /\ disk' = [disk EXCEPT ![name] = @ \o Chunk("server", n)]
             /\ UNCHANGED pc
    <3>1. disk[arg] \in Seq(Byte) /\ arg \in DOMAIN disk /\ name = arg
      BY <1>2 DEF Sending, TypeOK
    <3>2. /\ disk'[arg] = disk[arg] \o Chunk("server", n)
          /\ arg \in DOMAIN disk'
      BY <2>6, <3>1
    <3>3. disk'[arg] \in Seq(Byte) /\ Len(disk'[arg]) = Len(disk[arg]) + n
      <4>1. \A s, t \in Seq(Byte) : s \o t \in Seq(Byte) /\ Len(s \o t) = Len(s) + Len(t)
        BY ConcatProperties
      <4> QED
        BY <2>3, <3>1, <3>2, <4>1
    <3>4. disk'[arg] \o rest = SubSeq(src, 1, offset)
      <4> HIDE DEF rest
      <4>1. \A s, t, u \in Seq(Byte) : (s \o t) \o u = s \o (t \o u)
        BY ConcatAssociative
      <4>2. (disk[arg] \o Chunk("server", n)) \o rest
              = disk[arg] \o (Chunk("server", n) \o rest)
        BY <2>3, <3>1, <4>1, Zenon
      <4> QED
        BY <2>2, <2>3, <3>2, <4>2, Zenon
    <3>5. total' = Len(disk'[arg])
      <4>1. src \in Seq(Byte) /\ Len(src) \in 0..INT_MAX
        BY LenProperties, ContentsAssumption, IntAssumption DEF TypeOK, Reliable
      <4>2. Len(disk[arg]) + Len(chan["server"]) = offset
        <5>1. Len(SubSeq(src, 1, offset)) = offset
          BY <2>2, <4>1, SplitSeq
        <5>2. chan["server"] \in Seq(Byte)
          BY <1>0
        <5>3. Len(disk[arg] \o chan["server"])
                = Len(disk[arg]) + Len(chan["server"])
          BY <3>1, <5>2, ConcatProperties
        <5> QED
          BY <2>2, <5>1, <5>3
      <4>3. /\ Len(disk[arg]) \in Nat /\ Len(chan["server"]) \in Nat
            /\ total = Len(disk[arg])
        <5>1. \A s \in Seq(Byte) : Len(s) \in Nat
          BY LenProperties
        <5> QED
          BY <1>0, <1>2, <3>1, <5>1 DEF Sending
      <4>4. total + n \in 0..INT_MAX
        <5>1. offset \in 0..Len(src) /\ n \in 0..Len(chan["server"])
          BY <2>2, <2>3
        <5> QED
          <6>1. \A a, b, k, o, l \in Nat :
                  a + b = o /\ k <= b /\ o <= l /\ l <= INT_MAX =>
                    a + k \in 0..INT_MAX
            BY IntAssumption
          <6>2. /\ offset \in Nat /\ offset <= Len(src) /\ Len(src) \in Nat
                /\ Len(src) <= INT_MAX /\ n \in Nat /\ n <= Len(chan["server"])
            BY <4>1, <4>3, <5>1, IntAssumption
          <6> QED
            BY <4>2, <4>3, <6>1, <6>2
      <4>5. (total + n) % WORD = total + n
        BY <4>4, ToSizeProperties, IntAssumption DEF ToSize
      <4> QED
        BY <1>4, <3>3, <4>3, <4>5
    <3>6. /\ arg' = arg /\ src' = src /\ offset' = offset
          /\ pc' = pc /\ name' = name /\ filesize' = filesize
      BY <1>1, <2>6 DEF clientVars
    <3>7. /\ \/ At("data", "sendData", chan["server"], <<>>)'
             \/ At("data", "awaitEnd", chan["server"], <<>>)' /\ offset = Len(src)
      BY <2>2, <2>4, <3>6 DEF At
    <3>8. Sending'
      BY <1>2, <2>2, <2>4, <3>2, <3>4, <3>5, <3>6, <3>7 DEF Sending
    <3> QED
      BY <1>1, <3>8, TalkProperties DEF Talk, InTalk
  <2> QED
    BY <1>4, <2>5, <2>6
<1> QED
  BY <1>0, <1>3, <1>4, NoEOF DEF ServerReceive, WriteChunk

\* The loop ends with the whole file written.
LEMMA ServerReportTalk ==
  ASSUME Reliable, TypeOK, DownMeansExited, InTalk, ServerReport
  PROVE  Talk'
<1>1. /\ pc["server"] = "data" /\ total >= filesize
      /\ UNCHANGED <<clientVars, serverVars>>
  BY DEF ServerReport, ServerSend, Send, Unsent
<1>2. Sending
  BY <1>1 DEF InTalk, Greeting, Naming, Sizing, ServerLost, At, GoodbyeCode
<1>3. src \in Seq(Byte) /\ Len(src) \in Nat
  BY LenProperties, ContentsAssumption DEF TypeOK
<1>4. disk[arg] \in Seq(Byte) /\ chan["server"] \in Seq(Byte)
  BY <1>2 DEF Sending, TypeOK, WireTypeOK, Side
<1>5. Len(disk[arg]) \in Nat /\ Len(disk[arg]) >= Len(src)
  BY <1>1, <1>2, <1>4, LenProperties DEF Sending
<1>6. disk[arg] = src
  <2>1. CASE disk[arg] = <<>>
    <3>1. Len(src) = 0
      BY <1>3, <1>5, <2>1
    <3> QED
      BY <1>3, <2>1, <3>1, EmptySeq
  <2>2. CASE disk[arg] # <<>>
    <3>1. /\ offset \in 0..Len(src)
          /\ disk[arg] \o chan["server"] = SubSeq(src, 1, offset)
      BY <1>2, <2>2 DEF Sending
    <3>2. Len(SubSeq(src, 1, offset)) = offset
      BY <1>3, <3>1, SplitSeq
    <3>3. Len(disk[arg]) + Len(chan["server"]) = offset /\ Len(chan["server"]) \in Nat
      <4>1. Len(disk[arg] \o chan["server"])
              = Len(disk[arg]) + Len(chan["server"])
        BY <1>4, ConcatProperties
      <4>2. \A s \in Seq(Byte) : Len(s) \in Nat
        BY LenProperties
      <4> QED
        BY <1>4, <3>1, <3>2, <4>1, <4>2
    <3>4. offset = Len(src) /\ Len(chan["server"]) = 0
      <4>1. offset \in 0..Len(src)
        BY <3>1
      <4> QED
        <5>1. offset \in Nat /\ offset <= Len(src)
          BY <1>3, <4>1
        <5>2. \A a, b, c, o \in Nat :
                a >= c /\ a + b = o /\ o <= c => o = c /\ b = 0
          OBVIOUS
        <5> QED
          BY <1>3, <1>5, <3>3, <5>1, <5>2
    <3>5. chan["server"] = <<>>
      BY <1>4, <3>4, EmptySeq
    <3>6. disk[arg] \o <<>> = disk[arg]
      BY <1>4, ConcatEmptySeq
    <3> QED
      BY <1>3, <3>1, <3>4, <3>5, <3>6, SubSeqFull
  <2> QED
    BY <2>1, <2>2
<1>7. pc'["server"] \in {"closing", "failed"}
  <2>1. /\ \/ Send("server", "data", Verdict, "closing")
           \/ Unsent("server", "data", "closing")
        /\ pc \in [Side -> Label] /\ "server" \in Side
    BY DEF ServerReport, ServerSend, TypeOK, WireTypeOK, Side
  <2> QED
    BY <2>1 DEF Send, Unsent, Goto, Die
<1> QED
  BY <1>1, <1>2, <1>6, <1>7 DEF Talk, Done, Delivered, Sending, clientVars,
                                serverVars

LEMMA ServerTalk ==
  ASSUME Reliable, TypeOK, DownMeansExited, InTalk, Server
  PROVE  Talk'
<1>1. CASE ServerShutdown
  BY <1>1, TalkProperties DEF ServerShutdown, Shutdown
<1>2. CASE ServerGoodbye
  <2>1. UNCHANGED <<clientVars, serverVars>>
    BY <1>2 DEF ServerGoodbye
  <2>2. CASE Shutdown("server", "leaving", "failed")
    BY <2>1, <2>2, ServerFails DEF Shutdown, Goto, TypeOK, WireTypeOK, Side
  <2>3. ASSUME NEW reason \in DOMAIN GoodbyeCode,
               Send("server", reason, GoodbyeCode[reason], "leaving")
        PROVE  Talk'
    <3>1. /\ GoodbyeCode[reason] \in Failures
          /\ GoodbyeCode[reason] \in Seq(Byte)
          /\ <<>> \o GoodbyeCode[reason] = GoodbyeCode[reason]
      <4>1. GoodbyeCode[reason] \in Seq(Byte)
        BY GoodbyeTypes, CommandTypes DEF Commands
      <4> QED
        BY <4>1, GoodbyeTypes, ConcatEmptySeq
    <3>2. ServerSent(reason, GoodbyeCode[reason], "leaving")
      BY <2>3, <3>1, ServerSendEffect, Zenon
    <3>3. ServerLost /\ chan["client"] = <<>>
      BY <3>2 DEF ServerSent, InTalk, Greeting, Naming, Sizing, Sending,
         ServerLost, At, GoodbyeCode
    <3>4. ServerLost' /\ got' = got
      BY <3>1, <3>2, <3>3 DEF ServerSent, ServerLost
    <3> QED
      BY <3>4, TalkProperties DEF Talk, InTalk
  <2> QED
    BY <1>2, <2>2, <2>3 DEF ServerGoodbye, Goodbye
<1> QED
  BY <1>1, <1>2, ServerSendTalk, ServerExpectTalk, ServerReadNameTalk,
     ServerOpenTalk, ServerReadSizeTalk, ServerReceiveTalk, ServerReportTalk
  DEF Server

-----------------------------------------------------------------------------
(***************************************************************************)
(* The inductive invariant and what follows from it.                       *)
(***************************************************************************)
LEMMA InitIInv == Init => IInv
<1> SUFFICES ASSUME Init PROVE IInv
  OBVIOUS
<1>1. TypeOK
  BY InitTypeOK
<1>2. DownMeansExited
  BY DEF Init, InitWire, DownMeansExited
<1>3. Greeting /\ got["client"] = <<>>
  BY DEF Init, InitWire, Greeting, At, Side
<1> QED
  BY <1>1, <1>2, <1>3 DEF IInv, Talk, InTalk

LEMMA NextIInv == Reliable /\ IInv /\ [Next]_vars => IInv'
<1> SUFFICES ASSUME Reliable, TypeOK, DownMeansExited, Talk, [Next]_vars
             PROVE  IInv'
  BY DEF IInv
<1>1. TypeOK' /\ DownMeansExited'
  BY NextTypeOK, NextDown
<1>2. CASE Done
  BY <1>1, <1>2, DoneStable DEF IInv, Talk
<1>3. CASE pc["client"] \notin Hopeful
  BY <1>1, <1>3, HopelessStable DEF IInv, Talk
<1>4. CASE InTalk
  <2>1. CASE Client
    BY <1>1, <1>4, <2>1, ClientTalk DEF IInv
  <2>2. CASE Server
    BY <1>1, <1>4, <2>2, ServerTalk DEF IInv
  <2>3. CASE EditSource
    BY <2>3 DEF EditSource, Reliable
  <2>4. CASE ConnectionFault
    <3>0. pc \in [Side -> Label] /\ Side = {"client", "server"}
      BY DEF TypeOK, WireTypeOK, Side
    <3>1. CASE Reset /\ UNCHANGED <<clientVars, serverVars>>
      BY <1>1, <1>4, <3>1
      DEF IInv, Reset, Talk, InTalk, Greeting, Naming, Sizing, Sending,
          ServerLost, At, clientVars, serverVars
    <3>2. CASE KillClient
      BY <1>1, <3>0, <3>2
      DEF IInv, KillClient, ExitOpen, Goto, Talk, Hopeful, ClientLabel
    <3>3. CASE KillServer /\ UNCHANGED <<clientVars, serverVars>>
      BY <1>1, <1>4, <3>0, <3>3, ServerFails DEF IInv, KillServer, Die, Goto
    <3> QED
      BY <1>1, <2>4, <3>1, <3>2, <3>3 DEF ConnectionFault, IInv
  <2>5. CASE UNCHANGED vars
    BY <1>1, <1>4, <2>5
    DEF vars, wireVars, clientVars, serverVars, Talk, InTalk, Greeting, Naming,
        Sizing, Sending, ServerLost, At, IInv
  <2> QED
    BY <2>1, <2>2, <2>3, <2>4, <2>5 DEF Next, Over
<1> QED
  BY <1>2, <1>3, <1>4 DEF Talk

LEMMA IInvMeansDelivered == IInv => SuccessMeansDelivered
<1> SUFFICES ASSUME IInv, pc["client"] = "succeeded" PROVE Delivered
  BY DEF SuccessMeansDelivered, Delivered
<1>1. CASE InTalk
  BY <1>1, TalkProperties DEF ClientLabel
<1>2. CASE pc["client"] \notin Hopeful
  BY <1>2 DEF Hopeful
<1>3. CASE Done
  BY <1>3 DEF Done
<1> QED
  BY <1>1, <1>2, <1>3 DEF IInv, Talk

(***************************************************************************)
(* IInv is an invariant of a session in a Reliable environment, whatever   *)
(* connections break, processes die, files fail to open and writes fail.   *)
(***************************************************************************)
THEOREM PutIInv == Reliable => (Spec => []IInv)
<1> SUFFICES ASSUME Reliable PROVE Spec => []IInv
  OBVIOUS
<1>1. IInv /\ [Next]_vars => IInv'
  BY NextIInv
<1> QED
  BY <1>1, InitIInv, PTL DEF Spec

(***************************************************************************)
(* A client that exits with EXIT_SUCCESS has its file on the server, byte  *)
(* for byte, for every buffer size, every name and every contents of up to *)
(* INT_MAX bytes.                                                          *)
(***************************************************************************)
THEOREM PutSuccessMeansDelivered == Reliable => (Spec => []SuccessMeansDelivered)
BY PutIInv, IInvMeansDelivered, PTL

-----------------------------------------------------------------------------
(***************************************************************************)
(* What the server child counts is what it writes.                         *)
(***************************************************************************)
LEMMA ServerCalls ==
  ASSUME TypeOK,
         \/ ServerGetCode \/ ServerHello \/ ServerFilename \/ ServerFilenameOK
         \/ ServerOpenOK \/ ServerFilesize \/ ServerFilesizeOK \/ ServerSizeOK
         \/ ServerShutdown \/ ServerGoodbye
  PROVE  /\ UNCHANGED <<clientVars, serverVars>>
         /\ \/ /\ pc["server"] \in BeforeOpen
               /\ pc'["server"] \in BeforeOpen \ {"open"}
            \/ /\ pc["server"] \in BeforeData
               /\ pc'["server"] \in BeforeData
            \/ pc["server"] = "sizeOK" /\ pc'["server"] = "data"
            \/ pc["server"] = "closing" /\ pc'["server"] = "succeeded"
            \/ /\ pc["server"] \notin {"data", "closing", "succeeded"}
               /\ pc'["server"] \in {"leaving", "failed", "spinning", "protocolError"}
<1>0. pc \in [Side -> Label] /\ "server" \in Side
  BY DEF TypeOK, WireTypeOK, Side
<1>1. UNCHANGED <<clientVars, serverVars>>
  BY DEF ServerGetCode, ServerHello, ServerFilename, ServerFilenameOK,
     ServerOpenOK, ServerFilesize, ServerFilesizeOK, ServerSizeOK,
     ServerShutdown, ServerGoodbye, ServerSend, ServerExpect
<1>2. CASE \/ ServerHello \/ ServerFilenameOK \/ ServerOpenOK
           \/ ServerFilesizeOK \/ ServerSizeOK
  BY <1>0, <1>1, <1>2
  DEF ServerHello, ServerFilenameOK, ServerOpenOK, ServerFilesizeOK,
      ServerSizeOK, ServerSend, Send, Goto, Die, BeforeOpen, BeforeData
<1>3. CASE ServerGetCode \/ ServerFilename \/ ServerFilesize
  BY <1>0, <1>1, <1>3
  DEF ServerGetCode, ServerFilename, ServerFilesize, ServerExpect, Expect,
      Gather, Goto, Die, BeforeOpen, BeforeData
<1>4. CASE ServerShutdown
  BY <1>0, <1>1, <1>4 DEF ServerShutdown, Shutdown, Goto
<1>5. CASE ServerGoodbye
  BY <1>0, <1>1, <1>5
  DEF ServerGoodbye, Goodbye, Send, Shutdown, Goto, Die, GoodbyeCode
<1> QED
  BY <1>2, <1>3, <1>4, <1>5

LEMMA InitFileOpen == Init => FileOpen /\ Counted
BY DEF Init, InitWire, FileOpen, Counted, BeforeOpen, BeforeData, FromData, Side

LEMMA NextFileOpen ==
  ASSUME TypeOK, FileOpen, [Next]_vars
  PROVE  FileOpen'
<1>0. pc \in [Side -> Label] /\ Side = {"client", "server"}
  BY DEF TypeOK, WireTypeOK, Side
<1>1. CASE Client
  BY <1>1, ClientMoves DEF FileOpen, serverVars
<1>2. CASE \/ ServerGetCode \/ ServerHello \/ ServerFilename \/ ServerFilenameOK
           \/ ServerOpenOK \/ ServerFilesize \/ ServerFilesizeOK \/ ServerSizeOK
           \/ ServerShutdown \/ ServerGoodbye
  BY <1>2, ServerCalls DEF FileOpen, BeforeOpen, BeforeData, FromData,
                           serverVars
<1>3. CASE ServerReadName
  <2>1. /\ UNCHANGED <<disk, opened, filesize, total>>
        /\ pc["server"] = "readName"
        /\ pc'["server"] \in {"readName", "open", "filenameError", "failed"}
    BY <1>0, <1>3 DEF ServerReadName, Goto, Die
  <2> QED
    BY <2>1 DEF FileOpen, BeforeOpen, BeforeData, FromData
<1>4. CASE ServerOpen
  BY <1>0, <1>4 DEF ServerOpen, Goto, FileOpen, BeforeOpen, BeforeData, FromData
<1>5. CASE ServerReadSize
  BY <1>0, <1>5 DEF ServerReadSize, Goto, FileOpen, BeforeOpen, BeforeData,
                    FromData
<1>6. CASE ServerReceive
  <2>1. /\ UNCHANGED <<name, opened>> /\ pc["server"] = "data"
        /\ pc'["server"] \in {"data", "spinning", "failed", "serverError"}
        /\ DOMAIN disk' = DOMAIN disk
    BY <1>0, <1>6 DEF ServerReceive, WriteChunk, Goto
  <2> QED
    BY <2>1 DEF FileOpen, BeforeOpen, BeforeData, FromData
<1>7. CASE ServerReport
  BY <1>0, <1>7
  DEF ServerReport, ServerSend, Send, Goto, Die, serverVars, FileOpen,
      BeforeOpen, BeforeData, FromData, Unsent
<1>8. CASE ConnectionFault
  BY <1>0, <1>8
  DEF ConnectionFault, Reset, KillClient, KillServer, ExitOpen, Die, Goto,
      serverVars, FileOpen, BeforeOpen, BeforeData, FromData
<1>9. CASE EditSource \/ UNCHANGED vars
  BY <1>9 DEF EditSource, vars, wireVars, serverVars, FileOpen
<1> QED
  BY <1>1, <1>2, <1>3, <1>4, <1>5, <1>6, <1>7, <1>8, <1>9 DEF Next, Over, Server

\* A number is determined by its quotient and its remainder.
LEMMA ModUnique ==
  ASSUME NEW w \in Nat \ {0}, NEW q \in Nat, NEW m \in 0..(w - 1)
  PROVE  ((q * w) + m) % w = m
<1> DEFINE x == (q * w) + m
           k == x \div w
           r == x % w
<1>1. x \in Nat /\ k \in Nat /\ r \in 0..(w - 1) /\ x = (k * w) + r
  OBVIOUS
<1>2. (q * w) + m = (k * w) + r
  BY <1>1
<1> HIDE DEF x, k, r
<1>3. ASSUME NEW c \in Nat, NEW d \in Nat, c > d
      PROVE  c * w >= (d * w) + w
  <2>1. c - d >= 1 /\ c - d \in Nat
    BY <1>3
  <2>2. (c - d) * w >= w
    BY <2>1
  <2> QED
    BY <2>2
<1>4. ~(q > k) /\ ~(k > q)
  <2>1. q * w \in Nat /\ k * w \in Nat
    BY <1>1
  <2> QED
    BY <1>1, <1>2, <1>3, <2>1
<1>5. q = k
  BY <1>1, <1>4
<1>6. m = r
  BY <1>1, <1>2, <1>5
<1> QED
  BY <1>6 DEF r, x

\* Counting modulo w, one step at a time.
LEMMA ModSum ==
  ASSUME NEW a \in Nat, NEW n \in Nat, NEW w \in Nat \ {0}
  PROVE  (a + n) % w = ((a % w) + n) % w
<1> DEFINE b == (a % w) + n
<1>1. /\ a = ((a \div w) * w) + (a % w) /\ a \div w \in Nat /\ a % w \in Nat
      /\ b = ((b \div w) * w) + (b % w) /\ b \div w \in Nat /\ b % w \in 0..(w - 1)
  OBVIOUS
<1>2. a + n = (((a \div w) + (b \div w)) * w) + (b % w)
  BY <1>1
<1> DEFINE q == (a \div w) + (b \div w)
           m == b % w
<1>3. q \in Nat /\ m \in 0..(w - 1) /\ a + n = (q * w) + m
  BY <1>1, <1>2
<1>4. m = ((a % w) + n) % w
  OBVIOUS
<1> HIDE DEF q, m
<1>5. ((q * w) + m) % w = m
  BY <1>3, ModUnique
<1> QED
  BY <1>3, <1>4, <1>5

LEMMA ModZero == ASSUME NEW w \in Nat \ {0} PROVE 0 % w = 0
OBVIOUS

\* The receive loop: what is written is counted, modulo the width of size_t.
LEMMA ReceiveCounted ==
  ASSUME "shortWrite" \notin Faults, TypeOK, FileOpen, Counted, ServerReceive
  PROVE  Counted'
<1>0. /\ pc \in [Side -> Label] /\ "server" \in Side
      /\ chan \in [Side -> Seq(Byte)]
      /\ disk \in [DOMAIN disk -> Seq(Byte)]
  BY DEF TypeOK, WireTypeOK, Side
<1>1. /\ pc["server"] = "data" /\ opened /\ name \in DOMAIN disk
      /\ UNCHANGED <<name, opened>>
      /\ disk[name] \in Seq(Byte) /\ Len(disk[name]) \in Nat
      /\ total = Len(disk[name]) % WORD
  BY <1>0, LenProperties DEF FileOpen, Counted, FromData, ServerReceive
<1>2. CASE UNCHANGED <<disk, total>> /\ pc'["server"] \in {"spinning", "failed"}
  BY <1>1, <1>2 DEF Counted, BeforeOpen, BeforeData, FromData
<1>3. ASSUME NEW n \in ReadSizes("server", BUFSIZE),
             total' = (total + n) % WORD, WriteChunk(n)
      PROVE  Counted'
  <2>1. n \in Nat /\ Chunk("server", n) \in Seq(Byte) /\ Len(Chunk("server", n)) = n
    BY <1>0, ReadSplits, BufsizeAssumption
  <2>2. CASE pc'["server"] = "serverError" /\ UNCHANGED disk
    BY <1>1, <2>2 DEF Counted, BeforeOpen, BeforeData, FromData
  <2>3. CASE UNCHANGED pc /\ disk' = [disk EXCEPT ![name] = @ \o Chunk("server", n)]
    <3>1. /\ name' \in DOMAIN disk'
          /\ disk'[name'] = disk[name] \o Chunk("server", n)
      BY <1>1, <2>3
    <3>2. Len(disk[name] \o Chunk("server", n)) = Len(disk[name]) + n
      BY <1>1, <2>1, ConcatProperties
    <3>3. Len(disk'[name']) % WORD = total'
      <4>1. WORD \in Nat \ {0}
        BY ToSizeProperties
      <4>2. (Len(disk[name]) + n) % WORD = ((Len(disk[name]) % WORD) + n) % WORD
        BY <1>1, <2>1, <4>1, ModSum
      <4> QED
        BY <1>1, <1>3, <3>1, <3>2, <4>2
    <3> QED
      BY <1>1, <2>3, <3>1, <3>3 DEF Counted, BeforeOpen, BeforeData, FromData
  <2> QED
    BY <1>0, <1>3, <2>2, <2>3 DEF WriteChunk, Goto
<1> QED
  BY <1>0, <1>2, <1>3 DEF ServerReceive, Goto

LEMMA NextCounted ==
  ASSUME "shortWrite" \notin Faults, TypeOK, FileOpen, Counted, [Next]_vars
  PROVE  Counted'
<1>0. pc \in [Side -> Label] /\ Side = {"client", "server"}
  BY DEF TypeOK, WireTypeOK, Side
<1>1. CASE Client
  BY <1>1, ClientMoves DEF Counted, serverVars
<1>2. CASE \/ ServerGetCode \/ ServerHello \/ ServerFilename \/ ServerFilenameOK
           \/ ServerOpenOK \/ ServerFilesize \/ ServerFilesizeOK \/ ServerSizeOK
           \/ ServerShutdown \/ ServerGoodbye
  <2>1. CASE pc["server"] = "sizeOK" /\ pc'["server"] = "data"
    <3>1. 0 % WORD = 0 /\ Len(<<>>) = 0
      BY ToSizeProperties, ModZero, EmptySeq
    <3> QED
      BY <1>2, <2>1, <3>1, ServerCalls
      DEF Counted, BeforeOpen, BeforeData, FromData, serverVars
  <2> QED
    BY <1>2, <2>1, ServerCalls DEF Counted, BeforeOpen, BeforeData, FromData,
                                   serverVars
<1>3. CASE ServerReadName
  <2>1. /\ UNCHANGED <<disk, opened, filesize, total>>
        /\ pc["server"] = "readName"
        /\ pc'["server"] \in {"readName", "open", "filenameError", "failed"}
    BY <1>0, <1>3 DEF ServerReadName, Goto, Die
  <2> QED
    BY <2>1 DEF Counted, BeforeOpen, BeforeData, FromData
<1>4. CASE ServerOpen
  BY <1>0, <1>4 DEF ServerOpen, Goto, Counted, BeforeOpen, BeforeData, FromData
<1>5. CASE ServerReadSize
  BY <1>0, <1>5 DEF ServerReadSize, Goto, Counted, BeforeOpen, BeforeData,
                    FromData
<1>6. CASE ServerReceive
  BY <1>6, ReceiveCounted
<1>7. CASE ServerReport
  BY <1>0, <1>7
  DEF ServerReport, ServerSend, Send, Goto, Die, serverVars, Counted,
      BeforeOpen, BeforeData, FromData, Unsent
<1>8. CASE ConnectionFault
  BY <1>0, <1>8
  DEF ConnectionFault, Reset, KillClient, KillServer, ExitOpen, Die, Goto,
      serverVars, Counted, BeforeOpen, BeforeData, FromData
<1>9. CASE EditSource \/ UNCHANGED vars
  BY <1>9 DEF EditSource, vars, wireVars, serverVars, Counted
<1> QED
  BY <1>1, <1>2, <1>3, <1>4, <1>5, <1>6, <1>7, <1>8, <1>9 DEF Next, Over, Server

LEMMA PutFileOpen == Spec => []FileOpen
<1>1. TypeOK /\ FileOpen /\ [Next]_vars => FileOpen'
  BY NextFileOpen
<1> QED
  BY <1>1, InitFileOpen, PutTypeOK, PTL DEF Spec

LEMMA PutCounted == "shortWrite" \notin Faults => (Spec => []Counted)
<1> SUFFICES ASSUME "shortWrite" \notin Faults PROVE Spec => []Counted
  OBVIOUS
<1>1. TypeOK /\ FileOpen /\ Counted /\ [Next]_vars => Counted'
  BY NextCounted
<1> QED
  BY <1>1, InitFileOpen, PutFileOpen, PutTypeOK, PTL DEF Spec

(***************************************************************************)
(* However the reads cut what was sent, whatever fails and whoever else    *)
(* writes the client's file: when the server child has sent its verdict,   *)
(* the number it compared is the number of bytes in the file, modulo the   *)
(* width of size_t, as long as write() writes all it is given.             *)
(***************************************************************************)
THEOREM PutVerdictCountsFile ==
  "shortWrite" \notin Faults => (Spec => []VerdictCountsFile)
<1>1. FileOpen /\ Counted => VerdictCountsFile
  BY DEF FileOpen, Counted, VerdictCountsFile, FromData
<1> QED
  BY <1>1, PutFileOpen, PutCounted, PTL

-----------------------------------------------------------------------------
(***************************************************************************)
(* No three bytes of the replies read as END_FILE_TRANSMISSION before the  *)
(* server child sends it.                                                  *)
(***************************************************************************)
LEMMA OneThenZeroConcat ==
  ASSUME NEW s \in Seq(Byte), NEW t \in Seq(Byte),
         OneThenZero(s), OneThenZero(t)
  PROVE  OneThenZero(s \o t)
<1> SUFFICES ASSUME NEW i \in 1..Len(s \o t), (s \o t)[i] = 1
             PROVE  i < Len(s \o t) /\ (s \o t)[i + 1] = 0
  BY DEF OneThenZero
<1>1. /\ Len(s) \in Nat /\ Len(t) \in Nat /\ Len(s \o t) = Len(s) + Len(t)
      /\ \A j \in 1..(Len(s) + Len(t)) :
           (s \o t)[j] = IF j <= Len(s) THEN s[j] ELSE t[j - Len(s)]
  BY LenProperties, ConcatProperties
<1>2. CASE i <= Len(s)
  <2>1. s[i] = 1 /\ i \in 1..Len(s)
    BY <1>1, <1>2
  <2>2. i < Len(s) /\ s[i + 1] = 0
    BY <2>1 DEF OneThenZero
  <2> QED
    BY <1>1, <2>1, <2>2
<1>3. CASE ~(i <= Len(s))
  <2>1. t[i - Len(s)] = 1 /\ i - Len(s) \in 1..Len(t)
    BY <1>1, <1>3
  <2>2. i - Len(s) < Len(t) /\ t[i - Len(s) + 1] = 0
    BY <2>1 DEF OneThenZero
  <2> QED
    BY <1>1, <1>3, <2>1, <2>2
<1> QED
  BY <1>2, <1>3

LEMMA OneThenZeroRest ==
  ASSUME NEW s \in Seq(Byte), NEW t \in Seq(Byte), OneThenZero(s \o t)
  PROVE  OneThenZero(t)
<1> SUFFICES ASSUME NEW i \in 1..Len(t), t[i] = 1
             PROVE  i < Len(t) /\ t[i + 1] = 0
  BY DEF OneThenZero
<1>1. /\ Len(s) \in Nat /\ Len(t) \in Nat /\ Len(s \o t) = Len(s) + Len(t)
      /\ \A j \in 1..(Len(s) + Len(t)) :
           (s \o t)[j] = IF j <= Len(s) THEN s[j] ELSE t[j - Len(s)]
  BY LenProperties, ConcatProperties
<1>2. i + Len(s) \in 1..Len(s \o t) /\ (s \o t)[i + Len(s)] = 1
  BY <1>1
<1>3. i + Len(s) < Len(s \o t) /\ (s \o t)[i + Len(s) + 1] = 0
  BY <1>2 DEF OneThenZero
<1> QED
  BY <1>1, <1>3

\* The replies but END_FILE_TRANSMISSION.
LEMMA RepliesHaveNoEnd ==
  \A reply \in Failures \cup {OK, FILE_CUT_TO_DECLARED_SIZE} : OneThenZero(reply)
<1>1. \A b, c \in Byte :
        b # 1 /\ c # 1 => OneThenZero(<<b, c, 0>>) /\ OneThenZero(<<1, 0, 0>>)
  BY DEF OneThenZero
<1>2. \A reply \in Failures \cup {OK, FILE_CUT_TO_DECLARED_SIZE} :
        reply = <<1, 0, 0>> \/ \E b, c \in {2, 3, 5, 7, 8, 9} : reply = <<b, c, 0>>
  BY DEF Failures, OK, FILE_CUT_TO_DECLARED_SIZE, PROTOCOL_ERROR, SERVER_ERROR,
         FILENAME_ERROR, CLIENT_ERROR
<1>3. {2, 3, 5, 7, 8, 9} \subseteq Byte /\ 1 \notin {2, 3, 5, 7, 8, 9}
  BY DEF Byte
<1> QED
  BY <1>1, <1>2, <1>3

\* A read that begins with END_FILE_TRANSMISSION.
LEMMA EndIsNotOneThenZero ==
  ASSUME NEW s \in Seq(Byte), NEW t \in Seq(Byte), Len(s) >= CTRL_SIZE,
         SubSeq(s, 1, CTRL_SIZE) = END_FILE_TRANSMISSION
  PROVE  ~OneThenZero(s \o t)
<1>1. /\ Len(s) \in Nat /\ Len(t) \in Nat /\ Len(s \o t) = Len(s) + Len(t)
      /\ Len(s) >= 3
      /\ (s \o t)[1] = s[1] /\ (s \o t)[2] = s[2]
  <2>1. Len(s) \in Nat /\ Len(t) \in Nat /\ Len(s) >= 3
    BY LenProperties DEF CTRL_SIZE
  <2> QED
    BY <2>1, ConcatProperties
<1>2. s[1] = 1 /\ s[2] = 3
  <2>1. \A i \in 1..Len(s) : s[i] \in Byte
    BY ElementOfSeq
  <2>2. /\ SubSeq(s, 1, 3)[1] = s[1] /\ SubSeq(s, 1, 3)[2] = s[2]
    BY <1>1, <2>1, SubSeqProperties
  <2>3. SubSeq(s, 1, 3) = <<1, 3, 0>>
    BY DEF CTRL_SIZE, END_FILE_TRANSMISSION
  <2>4. <<1, 3, 0>>[1] = 1 /\ <<1, 3, 0>>[2] = 3
    OBVIOUS
  <2> QED
    BY <2>2, <2>3, <2>4
<1> SUFFICES ASSUME OneThenZero(s \o t) PROVE FALSE
  OBVIOUS
<1>3. 1 \in 1..Len(s \o t) /\ (s \o t)[1] = 1
  BY <1>1, <1>2
<1> QED
  BY <1>1, <1>2, <1>3 DEF OneThenZero

\* A reply the client reads, in one read() or in several.
LEMMA ClientReads ==
  ASSUME TypeOK, OneThenZero(got["client"] \o chan["client"]),
         NEW from, NEW command, NEW hit, NEW miss,
         Expect("client", from, command, hit, miss)
  PROVE  /\ OneThenZero(got'["client"] \o chan'["client"])
         /\ \/ pc'["client"] \in {from, miss, "spinning", "failed"}
            \/ pc'["client"] = hit /\ command # END_FILE_TRANSMISSION
<1>0. /\ pc \in [Side -> Label] /\ "client" \in Side
      /\ got \in [Side -> Seq(Byte)] /\ chan \in [Side -> Seq(Byte)]
      /\ pc["client"] = from
  BY DEF TypeOK, WireTypeOK, Side, Expect, Gather
<1>1. CASE UNCHANGED <<chan, got>> /\ pc'["client"] \in {"spinning", "failed"}
  BY <1>1
<1>2. ASSUME NEW n \in ReadSizes("client", BUFSIZE), Take("client", n),
             LET all == got["client"] \o Chunk("client", n)
             IN  IF Len(all) < CTRL_SIZE
                 THEN got' = [got EXCEPT !["client"] = all] /\ UNCHANGED pc
                 ELSE /\ got' = [got EXCEPT !["client"] = <<>>]
                      /\ Goto("client", IF SubSeq(all, 1, CTRL_SIZE) = command
                                        THEN hit ELSE miss)
      PROVE  /\ OneThenZero(got'["client"] \o chan'["client"])
             /\ \/ pc'["client"] \in {from, miss, "spinning", "failed"}
                \/ pc'["client"] = hit /\ command # END_FILE_TRANSMISSION
  <2> DEFINE chunk == Chunk("client", n)
             rest == SubSeq(chan["client"], n + 1, Len(chan["client"]))
             all == got["client"] \o chunk
  <2>1. /\ chunk \in Seq(Byte) /\ rest \in Seq(Byte)
        /\ chunk \o rest = chan["client"]
    BY <1>0, ReadSplits, BufsizeAssumption
  <2>2. chan'["client"] = rest
    BY <1>0, <1>2 DEF Take
  <2>3. /\ got["client"] \in Seq(Byte) /\ all \in Seq(Byte) /\ Len(all) \in Nat
        /\ all \o rest = got["client"] \o chan["client"]
    <3>1. got["client"] \in Seq(Byte)
      BY <1>0
    <3>2. all \o rest = got["client"] \o (chunk \o rest)
      BY <2>1, <3>1, ByteConcat
    <3> QED
      BY <2>1, <3>1, <3>2, ConcatProperties, LenProperties
  <2>4. /\ Len(all) < CTRL_SIZE => got'["client"] = all /\ UNCHANGED pc
        /\ ~(Len(all) < CTRL_SIZE) =>
              /\ got'["client"] = <<>>
              /\ Goto("client", IF SubSeq(all, 1, CTRL_SIZE) = command
                                THEN hit ELSE miss)
    BY <1>0, <1>2
  <2> HIDE DEF chunk, rest, all
  <2>5. OneThenZero(all \o rest) /\ OneThenZero(rest)
    BY <2>1, <2>3, OneThenZeroRest
  <2>6. CASE Len(all) < CTRL_SIZE
    BY <1>0, <2>2, <2>4, <2>5, <2>6
  <2>7. CASE ~(Len(all) < CTRL_SIZE)
    <3>1. <<>> \o rest = rest
      BY <2>1, ConcatEmptySeq
    <3>2. OneThenZero(got'["client"] \o chan'["client"])
      BY <2>2, <2>4, <2>5, <2>7, <3>1
    <3>3. SubSeq(all, 1, CTRL_SIZE) # END_FILE_TRANSMISSION
      <4>1. Len(all) >= CTRL_SIZE
        BY <2>3, <2>7 DEF CTRL_SIZE
      <4> QED
        BY <2>1, <2>3, <2>5, <4>1, EndIsNotOneThenZero
    <3> QED
      BY <1>0, <2>4, <2>7, <3>2, <3>3 DEF Goto
  <2> QED
    BY <2>6, <2>7
<1> QED
  BY <1>0, <1>1, <1>2, Zenon DEF Expect, Gather, Goto, Die

\* A reply that is sent whole, or not at all.
LEMMA ServerRepliesNoEnd ==
  ASSUME TypeOK, NoEndYet, NEW from, NEW bytes \in Seq(Byte), OneThenZero(bytes),
         NEW to, Send("server", from, bytes, to)
  PROVE  NoEndYet'
<1>0. /\ pc \in [Side -> Label] /\ Side = {"client", "server"}
      /\ got \in [Side -> Seq(Byte)] /\ chan \in [Side -> Seq(Byte)]
      /\ Peer("server") = "client"
  BY DEF TypeOK, WireTypeOK, Side, Peer
<1>1. /\ pc'["client"] = pc["client"] /\ got' = got
      /\ chan'["client"] \in {chan["client"], chan["client"] \o bytes}
  BY <1>0 DEF Send, Goto, Die
<1>2. CASE chan'["client"] = chan["client"]
  BY <1>1, <1>2 DEF NoEndYet
<1>3. CASE chan'["client"] = chan["client"] \o bytes
  <2>1. /\ got["client"] \in Seq(Byte) /\ chan["client"] \in Seq(Byte)
        /\ got["client"] \o chan["client"] \in Seq(Byte)
    BY <1>0, ConcatProperties
  <2>2. (got["client"] \o chan["client"]) \o bytes = got["client"] \o (chan["client"] \o bytes)
    BY <2>1, ByteConcat
  <2>3. OneThenZero((got["client"] \o chan["client"]) \o bytes)
    BY <2>1, OneThenZeroConcat DEF NoEndYet
  <2> QED
    BY <1>1, <1>3, <2>2, <2>3 DEF NoEndYet
<1> QED
  BY <1>1, <1>2, <1>3

LEMMA ClientNoEnd ==
  ASSUME TypeOK, NoEndYet, Client
  PROVE  NoEndYet'
<1>0. /\ pc \in [Side -> Label] /\ Side = {"client", "server"}
      /\ got \in [Side -> Seq(Byte)] /\ chan \in [Side -> Seq(Byte)]
      /\ Peer("client") = "server"
  BY DEF TypeOK, WireTypeOK, Side, Peer
<1>1. CASE \/ ClientAwaitHello \/ ClientAwaitName \/ ClientAwaitOpen
           \/ ClientAwaitSize \/ ClientAwaitReady
  <2>1. ASSUME NEW from, NEW to, from \in ClientLabel \ {"exitSuccess"},
               to \in ClientLabel \ {"exitSuccess"},
               Expect("client", from, OK, to, to)
        PROVE  NoEndYet'
    BY <2>1, ClientReads DEF NoEndYet, ClientLabel
  <2> QED
    BY <1>1, <2>1
    DEF ClientAwaitHello, ClientAwaitName, ClientAwaitOpen, ClientAwaitSize,
        ClientAwaitReady, ClientAwaitOK, ClientLabel
<1>2. CASE ClientAwaitEnd
  BY <1>2, ClientReads DEF ClientAwaitEnd, NoEndYet
<1>3. CASE \/ ClientSendCode \/ ClientSendFilename \/ ClientSendName
           \/ ClientSendFilesize \/ ClientSendSize \/ ClientSendData
           \/ ClientNoSource \/ ClientDataSent \/ ClientGoodbye
  <2>1. got' = got /\ chan'["client"] = chan["client"]
    BY <1>0, <1>3
    DEF ClientSendCode, ClientSendFilename, ClientSendName,
        ClientSendFilesize, ClientSendSize, ClientSendData, ClientNoSource,
        ClientDataSent, ClientGoodbye, ClientSend, Goodbye, Shutdown, Send,
        Goto, Die, ClientWrite, Write, Unsent
  <2>2. pc'["client"] \notin {"exitSuccess", "succeeded"}
    BY <1>0, <1>3
    DEF ClientSendCode, ClientSendFilename, ClientSendName,
        ClientSendFilesize, ClientSendSize, ClientSendData, ClientNoSource,
        ClientDataSent, ClientGoodbye, ClientSend, Goodbye, Shutdown, Send,
        Goto, Die, ClientWrite, Write, Unsent
  <2> QED
    BY <2>1, <2>2 DEF NoEndYet
<1>4. CASE ClientExit
  BY <1>0, <1>4 DEF ClientExit, ExitOpen, Goto, NoEndYet
<1> QED
  BY <1>1, <1>2, <1>3, <1>4 DEF Client

LEMMA ServerNoEnd ==
  ASSUME TypeOK, FileOpen, NoEndYet, Server
  PROVE  Unforged'
<1>0. /\ pc \in [Side -> Label] /\ Side = {"client", "server"}
      /\ got \in [Side -> Seq(Byte)] /\ chan \in [Side -> Seq(Byte)]
  BY DEF TypeOK, WireTypeOK, Side
<1>1. CASE \/ ServerHello \/ ServerFilenameOK \/ ServerOpenOK
           \/ ServerFilesizeOK \/ ServerSizeOK
  <2>1. OK \in Seq(Byte) /\ OneThenZero(OK)
    BY CommandTypes, RepliesHaveNoEnd DEF Commands
  <2>2. NoEndYet'
    BY <1>1, <2>1, ServerRepliesNoEnd
    DEF ServerHello, ServerFilenameOK, ServerOpenOK, ServerFilesizeOK,
        ServerSizeOK, ServerSend
  <2> QED
    BY <2>2 DEF Unforged
<1>2. CASE ServerReport
  <2>1. CASE Verdict = END_FILE_TRANSMISSION /\ pc'["server"] = "closing"
    <3>1. UNCHANGED serverVars /\ pc["server"] = "data"
      BY <1>2 DEF ServerReport, ServerSend, Send, Unsent
    <3>2. opened' /\ Verdict' = Verdict
      BY <3>1 DEF FileOpen, FromData, serverVars, Verdict
    <3> QED
      BY <2>1, <3>2 DEF Unforged, EndSent
  <2>2. CASE pc'["server"] # "closing" \/ Unsent("server", "data", "closing")
    <3>1. got' = got /\ chan' = chan /\ pc'["client"] = pc["client"]
      BY <1>0, <1>2, <2>2 DEF ServerReport, ServerSend, Send, Goto, Die, Unsent
    <3> QED
      BY <3>1 DEF NoEndYet, Unforged
  <2>3. CASE /\ Verdict # END_FILE_TRANSMISSION
             /\ ~Unsent("server", "data", "closing")
    <3>1. Verdict = FILE_CUT_TO_DECLARED_SIZE
      BY <2>3 DEF Verdict
    <3>2. Verdict \in Seq(Byte) /\ OneThenZero(Verdict)
      BY <3>1, CommandTypes, RepliesHaveNoEnd DEF Commands
    <3>3. Send("server", "data", Verdict, "closing")
      BY <1>2, <2>3 DEF ServerReport, ServerSend
    <3> HIDE DEF Verdict
    <3>4. NoEndYet'
      BY <3>2, <3>3, ServerRepliesNoEnd
    <3> QED
      BY <3>4 DEF Unforged
  <2> QED
    BY <2>1, <2>2, <2>3
<1>3. CASE ServerGoodbye
  <2>1. ASSUME NEW reason \in DOMAIN GoodbyeCode,
               Send("server", reason, GoodbyeCode[reason], "leaving")
        PROVE  NoEndYet'
    <3>1. /\ GoodbyeCode[reason] \in Seq(Byte)
          /\ OneThenZero(GoodbyeCode[reason])
      BY CommandTypes, GoodbyeTypes, RepliesHaveNoEnd DEF Commands
    <3> QED
      BY <2>1, <3>1, ServerRepliesNoEnd
  <2>2. CASE Shutdown("server", "leaving", "failed")
    <3>1. got' = got /\ chan' = chan /\ pc'["client"] = pc["client"]
      BY <1>0, <2>2 DEF Shutdown, Goto
    <3> QED
      BY <3>1 DEF NoEndYet, Unforged
  <2> QED
    BY <1>3, <2>1, <2>2 DEF ServerGoodbye, Goodbye, Unforged
<1>4. CASE \/ ServerGetCode \/ ServerFilename \/ ServerFilesize
           \/ ServerReadName \/ ServerOpen \/ ServerReadSize \/ ServerReceive
           \/ ServerShutdown
  <2>1. got'["client"] = got["client"] /\ chan'["client"] = chan["client"]
    BY <1>0, <1>4
    DEF ServerGetCode, ServerFilename, ServerFilesize, ServerReadName,
        ServerOpen, ServerReadSize, ServerReceive, ServerShutdown,
        ServerExpect, Expect, Gather, Shutdown, Take, Goto, Die
  <2>2. pc'["client"] = pc["client"]
    BY <1>4, ServerMoves DEF Server
  <2> QED
    BY <2>1, <2>2 DEF NoEndYet, Unforged
<1> QED
  BY <1>1, <1>2, <1>3, <1>4 DEF Server

\* The verdict stands.
LEMMA EndSentStable ==
  ASSUME TypeOK, EndSent, [Next]_vars
  PROVE  EndSent'
<1>0. pc \in [Side -> Label] /\ Side = {"client", "server"}
  BY DEF TypeOK, WireTypeOK, Side
<1>1. CASE Client
  <2>1. pc'["server"] = pc["server"] /\ opened' = opened /\ Verdict' = Verdict
    BY <1>1, ClientMoves DEF serverVars, Verdict
  <2> QED
    BY <2>1 DEF EndSent
<1>2. CASE Server
  <2>1. pc["server"] \in {"closing", "succeeded", "failed"}
    BY DEF EndSent
  <2>2. ServerShutdown
    BY <1>2, <2>1
    DEF Server, ServerGetCode, ServerHello, ServerFilename, ServerFilenameOK,
        ServerReadName, ServerOpen, ServerOpenOK, ServerFilesize,
        ServerFilesizeOK, ServerReadSize, ServerSizeOK, ServerReceive,
        ServerReport, ServerGoodbye, ServerSend, ServerExpect, Goodbye, Send,
        Expect, Gather, Shutdown, GoodbyeCode, Unsent
  <2>3. pc'["server"] = "succeeded" /\ opened' = opened /\ Verdict' = Verdict
    BY <1>0, <2>2 DEF ServerShutdown, Shutdown, Goto, serverVars, Verdict
  <2> QED
    BY <2>3 DEF EndSent
<1>3. CASE ConnectionFault
  <2>1. opened' = opened /\ Verdict' = Verdict
    BY <1>3 DEF ConnectionFault, serverVars, Verdict
  <2>2. \/ pc'["server"] = pc["server"]
        \/ "killServer" \in Faults /\ pc'["server"] = "failed"
    BY <1>0, <1>3
    DEF ConnectionFault, Reset, KillClient, KillServer, ExitOpen, Die, Goto
  <2> QED
    BY <2>1, <2>2 DEF EndSent
<1>4. CASE EditSource \/ UNCHANGED vars
  BY <1>4 DEF EditSource, vars, wireVars, serverVars, EndSent, Verdict
<1> QED
  BY <1>1, <1>2, <1>3, <1>4 DEF Next, Over

LEMMA NextUnforged ==
  ASSUME TypeOK, FileOpen, Unforged, [Next]_vars
  PROVE  Unforged'
<1>1. CASE EndSent
  BY <1>1, EndSentStable DEF Unforged
<1>2. CASE NoEndYet /\ Client
  BY <1>2, ClientNoEnd DEF Unforged
<1>3. CASE NoEndYet /\ Server
  BY <1>3, ServerNoEnd
<1>4. CASE NoEndYet /\ ConnectionFault
  <2>1. pc \in [Side -> Label] /\ Side = {"client", "server"}
    BY DEF TypeOK, WireTypeOK, Side
  <2> QED
    BY <1>4, <2>1
    DEF ConnectionFault, Reset, KillClient, KillServer, ExitOpen, Die, Goto,
        NoEndYet, Unforged
<1>5. CASE NoEndYet /\ (EditSource \/ UNCHANGED vars)
  BY <1>5 DEF EditSource, vars, wireVars, NoEndYet, Unforged
<1> QED
  BY <1>1, <1>2, <1>3, <1>4, <1>5 DEF Unforged, Next, Over

LEMMA PutUnforged == Spec => []Unforged
<1>1. Init => Unforged
  <2> SUFFICES ASSUME Init PROVE NoEndYet
    BY DEF Unforged
  <2>1. /\ pc["client"] = "sendCode"
        /\ got["client"] = <<>> /\ chan["client"] = <<>>
    BY DEF Init, InitWire, Side
  <2>2. got["client"] \o chan["client"] = <<>> /\ Len(<<>>) = 0
    BY <2>1, EmptySeq, ConcatEmptySeq
  <2> QED
    BY <2>1, <2>2 DEF NoEndYet, OneThenZero
<1>2. TypeOK /\ FileOpen /\ Unforged /\ [Next]_vars => Unforged'
  BY NextUnforged
<1> QED
  BY <1>1, <1>2, PutTypeOK, PutFileOpen, PTL DEF Spec

(***************************************************************************)
(* No mix of replies, cut or merged on the way, reads as the final         *)
(* END_FILE_TRANSMISSION: a client that reports success has been told so   *)
(* by a server child that found the file no longer than declared.  Only a  *)
(* server child killed after that report is not where the theorem says.    *)
(***************************************************************************)
THEOREM PutNoForgedSuccess ==
  "killServer" \notin Faults => (Spec => []NoForgedSuccess)
<1> SUFFICES ASSUME "killServer" \notin Faults PROVE Spec => []NoForgedSuccess
  OBVIOUS
<1>1. Unforged => NoForgedSuccess
  BY DEF Unforged, EndSent, NoEndYet, NoForgedSuccess
<1> QED
  BY <1>1, PutUnforged, PTL

-----------------------------------------------------------------------------
(***************************************************************************)
(* What the server child still has to read, in a Reliable environment.     *)
(***************************************************************************)
LEMMA TalkLeftover ==
  ASSUME Reliable, IInv, pc["client"] \in Hopeful
  PROVE  Leftover /\ (pc["server"] = "data" => GoesOn)
<1>1. /\ pc \in [Side -> Label] /\ Side = {"client", "server"}
      /\ chan \in [Side -> Seq(Byte)] /\ got \in [Side -> Seq(Byte)]
      /\ src \in Seq(Byte) /\ Len(src) \in 0..INT_MAX
      /\ arg \in Seq(Byte)
  BY ContentsAssumption, FilenameAssumption, IntAssumption, LenProperties
  DEF IInv, TypeOK, WireTypeOK, Side, Reliable
<1>2. CASE Done
  BY <1>2 DEF Done, Leftover, Left, Ended, Stopped, Exited
<1>3. CASE InTalk /\ ServerLost
  BY <1>3 DEF ServerLost, Leftover, Left, Ended, Stopped, Exited, GoodbyeCode,
              ClientLabel
<1>4. CASE InTalk /\ Greeting
  BY <1>4 DEF Greeting, At, Leftover, Left, GoodbyeCode
<1>5. CASE InTalk /\ Naming
  <2>1. <<>> \o <<>> = <<>>
    BY EmptySeq, ConcatEmptySeq
  <2> QED
    BY <1>5, <2>1 DEF Naming, At, Leftover, Left, GoodbyeCode
<1>6. CASE InTalk /\ Sizing
  <2>1. Len(Decimal(Len(src))) < BUFSIZE /\ Len(<<>>) < BUFSIZE
    BY <1>1, DecimalAssumption, BufsizeAssumption, EmptySeq DEF
                                                                PROTO_NAME_LENGTH
  <2> QED
    BY <1>6, <2>1 DEF Sizing, At, Leftover, Left, GoodbyeCode
<1>7. CASE InTalk /\ Sending
  <2>1. Leftover
    BY <1>7 DEF Sending, At, Leftover, Left, GoodbyeCode
  <2>2. ASSUME chan["server"] = <<>>, disk[arg] = <<>>
        PROVE  GoesOn
    <3>1. disk[arg] \o chan["server"] = <<>> /\ Len(<<>>) = 0 /\ <<>> \in Seq(Byte)
      BY <2>2, EmptySeq, ConcatEmptySeq
    <3>2. SubSeq(src, 1, 0) = <<>>
      BY <1>1, SubSeqEmpty
    <3> QED
      BY <1>1, <3>1, <3>2 DEF GoesOn
  <2>3. ASSUME disk[arg] \o chan["server"] = SubSeq(src, 1, offset),
               offset \in 0..Len(src)
        PROVE  GoesOn
    <3>1. Len(SubSeq(src, 1, offset)) = offset
      BY <1>1, <2>3, SplitSeq
    <3> QED
      BY <1>1, <2>3, <3>1 DEF GoesOn
  <2>4. \/ chan["server"] = <<>> /\ disk[arg] = <<>>
        \/ /\ disk[arg] \o chan["server"] = SubSeq(src, 1, offset)
           /\ offset \in 0..Len(src)
    BY <1>7 DEF Sending, At
  <2> QED
    BY <2>1, <2>2, <2>3, <2>4
<1> QED
  BY <1>2, <1>3, <1>4, <1>5, <1>6, <1>7 DEF IInv, Talk, InTalk

\* What a step of a client that is not going on does to the server's end.
LEMMA HopelessClient ==
  ASSUME TypeOK, Client \/ KillClient, pc'["client"] \notin Hopeful
  PROVE  /\ got'["server"] = got["server"]
         /\ \/ /\ chan'["server"] = chan["server"]
               /\ pc'["client"] \in DOMAIN GoodbyeCode =>
                    pc["client"] = "sendSize" /\ pc'["client"] = "clientError"
            \/ /\ pc["client"] \in DOMAIN GoodbyeCode
               /\ pc'["client"] \in {"leaving", "failed"}
               /\ \E e \in Failures : chan'["server"] = chan["server"] \o e
<1>0. /\ pc \in [Side -> Label] /\ Side = {"client", "server"}
      /\ chan \in [Side -> Seq(Byte)] /\ got \in [Side -> Seq(Byte)]
      /\ Peer("client") = "server"
  BY DEF TypeOK, WireTypeOK, Side, Peer
<1> DEFINE Silent == /\ got'["server"] = got["server"]
                     /\ chan'["server"] = chan["server"]
                     /\ pc'["client"] \notin DOMAIN GoodbyeCode
<1>1. ASSUME NEW from, NEW bytes, NEW to \in Hopeful, Send("client", from, bytes, to)
      PROVE  Silent
  BY <1>0, <1>1 DEF Send, Goto, Die, GoodbyeCode
<1>8. ASSUME NEW from, NEW bytes, NEW to \in Hopeful, Write("client", from, bytes, to)
      PROVE  Silent
  <2>1. CASE Send("client", from, bytes, to)
    BY <1>1, <2>1
  <2>2. ASSUME NEW next \in {to, "spinning"}, Unsent("client", from, next)
        PROVE  Silent
    BY <1>0, <2>2 DEF Unsent, Goto, GoodbyeCode, Hopeful, ClientLabel
  <2>3. (IF chan["client"] = <<>> THEN "spinning" ELSE to) \in {to, "spinning"}
    OBVIOUS
  <2> HIDE DEF Silent
  <2> QED
    BY <1>8, <2>1, <2>2, <2>3 DEF Write
<1>2. CASE \/ ClientSendCode \/ ClientSendFilename \/ ClientSendName
           \/ ClientSendFilesize \/ ClientSendSize \/ ClientSendData
  BY <1>1, <1>2, <1>8
  DEF ClientSendCode, ClientSendFilename, ClientSendName, ClientSendFilesize,
      ClientSendSize, ClientSendData, ClientSend, Hopeful, ClientLabel,
      ClientWrite
<1>3. CASE \/ ClientAwaitHello \/ ClientAwaitName \/ ClientAwaitOpen
           \/ ClientAwaitSize \/ ClientAwaitReady \/ ClientAwaitEnd
  <2>1. ASSUME NEW from \in ClientLabel, NEW command, NEW hit \in ClientLabel,
               NEW miss \in ClientLabel, Expect("client", from, command, hit, miss)
        PROVE  Silent
    BY <1>0, <2>1
    DEF Expect, Gather, Take, Goto, Die, GoodbyeCode, Hopeful, ClientLabel
  <2> QED
    BY <1>3, <2>1
    DEF ClientAwaitHello, ClientAwaitName, ClientAwaitOpen, ClientAwaitSize,
        ClientAwaitReady, ClientAwaitEnd, ClientAwaitOK, ClientLabel
<1>4. CASE ClientExit \/ ClientDataSent \/ KillClient
  BY <1>0, <1>4
  DEF ClientExit, ClientDataSent, KillClient, ExitOpen, Goto, GoodbyeCode
<1>5. CASE ClientNoSource
  BY <1>0, <1>5 DEF ClientNoSource, Goto, GoodbyeCode
<1>6. CASE ClientGoodbye
  <2>1. CASE Shutdown("client", "leaving", "failed")
    BY <1>0, <2>1 DEF Shutdown, Goto, GoodbyeCode
  <2>2. ASSUME NEW reason \in DOMAIN GoodbyeCode,
               Send("client", reason, GoodbyeCode[reason], "leaving")
        PROVE  /\ got'["server"] = got["server"]
               /\ pc["client"] \in DOMAIN GoodbyeCode
               /\ pc'["client"] \in {"leaving", "failed"}
               /\ \/ chan'["server"] = chan["server"]
                  \/ chan'["server"] = chan["server"] \o GoodbyeCode[reason]
    BY <1>0, <2>2 DEF Send, Goto, Die
  <2>3. {"leaving", "failed"} \cap DOMAIN GoodbyeCode = {}
    BY DEF GoodbyeCode
  <2> QED
    BY <1>6, <2>1, <2>2, <2>3, GoodbyeTypes DEF ClientGoodbye, Goodbye
<1> QED
  BY <1>2, <1>3, <1>4, <1>5, <1>6 DEF Client

LEMMA GivesUp ==
  ASSUME IInv, Leftover, Client \/ KillClient, pc'["client"] \notin Hopeful,
         pc'["server"] = pc["server"], arg' = arg
  PROVE  /\ Leftover'
         /\ pc["server"] = "data" => chan'["server"] = chan["server"]
<1>1. CASE /\ got'["server"] = got["server"] /\ chan'["server"] = chan["server"]
           /\ pc'["client"] \in DOMAIN GoodbyeCode =>
                pc["client"] = "sendSize" /\ pc'["client"] = "clientError"
  <2>1. pc["client"] = "sendSize" =>
          pc["server"] \in Ended \/ (pc["server"] = "readSize" /\ chan["server"] = <<>>)
    BY DEF IInv, Talk, Hopeful, ClientLabel, Done, InTalk, Greeting, Naming,
           Sizing, Sending, ServerLost, At, Ended, Stopped, Exited
  <2> QED
    BY <1>1, <2>1 DEF Leftover, Left
<1>2. CASE /\ got'["server"] = got["server"]
           /\ pc["client"] \in DOMAIN GoodbyeCode
           /\ pc'["client"] \in {"leaving", "failed"}
           /\ \E e \in Failures : chan'["server"] = chan["server"] \o e
  <2>1. pc'["client"] \notin DOMAIN GoodbyeCode
    BY <1>2 DEF GoodbyeCode
  <2>2. CASE pc["server"] \in Ended
    BY <2>1, <2>2 DEF Leftover, Left, Ended, Stopped, Exited, GoodbyeCode
  <2>3. CASE pc["server"] = "readSize" /\ chan["server"] = <<>>
    <3>1. PICK e \in Failures : chan'["server"] = chan["server"] \o e
      BY <1>2
    <3>2. chan'["server"] = e /\ Len(e) < BUFSIZE
      <4>1. e \in Seq(Byte) /\ Len(e) = 3
        BY CommandTypes DEF Commands, CTRL_SIZE
      <4>2. <<>> \o e = e
        BY <4>1, ConcatEmptySeq
      <4> QED
        BY <2>3, <3>1, <4>1, <4>2, BufsizeAssumption DEF PROTO_NAME_LENGTH
    <3> QED
      BY <2>1, <2>3, <3>2 DEF Leftover, Left
  <2> QED
    BY <1>2, <2>2, <2>3 DEF Leftover
<1> QED
  BY <1>1, <1>2, HopelessClient DEF IInv

\* A gathering loop that finds what it asks for, and no more, drops nothing.
LEMMA WholeGather ==
  ASSUME TypeOK, "fragment" \notin Faults, NEW x \in Side, NEW size \in Nat,
         size <= BUFSIZE, got[x] = <<>>, chan[x] = <<>> \/ Len(chan[x]) = size,
         NEW from, NEW wanted, NEW hit, NEW miss,
         Gather(x, from, size, wanted, hit, miss)
  PROVE  /\ got' = got /\ dropped' = dropped
         /\ chan' = [chan EXCEPT ![x] = <<>>]
         /\ \/ pc' = [pc EXCEPT ![x] = IF chan[x] = wanted THEN hit ELSE miss]
            \/ pc' = [pc EXCEPT ![x] = "spinning"]
            \/ pc' = [pc EXCEPT ![x] = "failed"]
<1>0. /\ WireTypeOK(Label)
      /\ chan \in [Side -> Seq(Byte)] /\ got \in [Side -> Seq(Byte)]
      /\ dropped \in [Side -> Nat]
  BY DEF TypeOK, WireTypeOK
<1>1. CASE /\ chan[x] = <<>> /\ UNCHANGED <<chan, got, dropped>>
           /\ pc' \in {[pc EXCEPT ![x] = "spinning"], [pc EXCEPT ![x] = "failed"]}
  BY <1>0, <1>1
<1>2. ASSUME NEW n \in ReadSizes(x, BUFSIZE), Take(x, n),
             LET all == got[x] \o Chunk(x, n)
             IN  IF Len(all) < size
                 THEN got' = [got EXCEPT ![x] = all] /\ UNCHANGED <<pc, dropped>>
                 ELSE /\ got' = [got EXCEPT ![x] = <<>>]
                      /\ dropped' = [dropped EXCEPT ![x] = @ + Len(all) - size]
                      /\ Goto(x, IF SubSeq(all, 1, size) = wanted THEN hit ELSE miss)
      PROVE  /\ got' = got /\ dropped' = dropped
             /\ chan' = [chan EXCEPT ![x] = <<>>]
             /\ pc' = [pc EXCEPT ![x] = IF chan[x] = wanted THEN hit ELSE miss]
  <2> DEFINE all == got[x] \o Chunk(x, n)
  <2>1. Gathers(x, n, size)
    BY <1>2 DEF Gathers
  <2>2. /\ chan[x] # <<>> /\ Len(all) = size
        /\ SubSeq(all, 1, size) = chan[x]
        /\ got' = got /\ chan' = [chan EXCEPT ![x] = <<>>]
    BY <1>0, <2>1, GathersWhole
  <2>3. /\ dropped' = [dropped EXCEPT ![x] = @ + Len(all) - size]
        /\ Goto(x, IF SubSeq(all, 1, size) = wanted THEN hit ELSE miss)
    <3>1. ~(Len(all) < size)
      BY <2>2
    <3> QED
      BY <1>2, <3>1
  <2>4. Len(all) - size = 0
    BY <2>2
  <2> HIDE DEF all
  <2>5. dropped' = dropped
    BY <1>0, <2>3, <2>4
  <2> QED
    BY <2>2, <2>3, <2>5 DEF Goto
<1> QED
  BY <1>1, <1>2, Zenon DEF Gather, AtEOF, Broken, Goto, Die

\* A reply of the server leaves what it has to read alone.
LEMMA ServerSendLeaves ==
  ASSUME TypeOK, NEW from, NEW bytes, NEW to, Send("server", from, bytes, to)
  PROVE  /\ pc["server"] = from /\ pc'["server"] \in {to, "failed"}
         /\ got' = got /\ chan'["server"] = chan["server"] /\ dropped' = dropped
<1>0. /\ pc \in [Side -> Label] /\ "server" \in Side /\ Peer("server") = "client"
      /\ chan \in [Side -> Seq(Byte)]
  BY DEF TypeOK, WireTypeOK, Side, Peer
<1> QED
  BY <1>0 DEF Send, Goto, Die

LEMMA ServerUnsentLeaves ==
  ASSUME TypeOK, NEW from, NEW to, Unsent("server", from, to)
  PROVE  /\ pc["server"] = from /\ pc'["server"] = to
         /\ UNCHANGED <<chan, got, dropped>>
<1>0. pc \in [Side -> Label] /\ "server" \in Side
  BY DEF TypeOK, WireTypeOK, Side
<1> QED
  BY <1>0 DEF Unsent, Goto

\* A step that leaves the server where it has nothing more to use.
LEMMA EndedLeftover ==
  ASSUME pc'["server"] \in Ended
  PROVE  Leftover' /\ pc'["server"] # "data"
BY DEF Ended, Stopped, Exited, GoodbyeCode, Leftover, Left

LEMMA ServerSendLeftover ==
  ASSUME TypeOK, FileOpen, Counted, Orderly,
         \/ ServerHello \/ ServerFilenameOK \/ ServerOpenOK \/ ServerFilesizeOK
         \/ ServerSizeOK \/ ServerReport \/ ServerGoodbye \/ ServerShutdown
  PROVE  Leftover' /\ (pc'["server"] = "data" => GoesOn')
<1>0. /\ pc \in [Side -> Label] /\ Side = {"client", "server"}
      /\ src \in Seq(Byte) /\ Len(src) \in Nat
  BY ContentsAssumption, LenProperties DEF TypeOK, WireTypeOK, Side
<1>1. pc'["client"] = pc["client"] /\ UNCHANGED <<clientVars, serverVars>>
  BY ServerMoves
  DEF Server, ServerHello, ServerFilenameOK, ServerOpenOK, ServerFilesizeOK,
      ServerSizeOK, ServerReport, ServerGoodbye, ServerShutdown, ServerSend
<1>2. ASSUME pc'["server"] = "failed"
      PROVE  Leftover' /\ (pc'["server"] = "data" => GoesOn')
  BY <1>2, EndedLeftover DEF Ended, Stopped, Exited
<1>3. /\ <<>> \o <<>> = <<>> /\ Len(<<>>) = 0 /\ BUFSIZE > 0
  BY EmptySeq, ConcatEmptySeq, BufsizeAssumption DEF PROTO_NAME_LENGTH
<1>4. CASE ServerHello \/ ServerFilenameOK \/ ServerOpenOK \/ ServerFilesizeOK
  <2>1. /\ got' = got /\ chan'["server"] = chan["server"]
        /\ \/ pc["server"] = "hello" /\ pc'["server"] \in {"filename", "failed"}
           \/ pc["server"] = "filenameOK" /\ pc'["server"] \in {"readName", "failed"}
           \/ pc["server"] = "openOK" /\ pc'["server"] \in {"filesize", "failed"}
           \/ pc["server"] = "filesizeOK" /\ pc'["server"] \in {"readSize", "failed"}
    BY <1>4, ServerSendLeaves
    DEF ServerHello, ServerFilenameOK, ServerOpenOK, ServerFilesizeOK,
        ServerSend
  <2>2. /\ got["server"] = <<>> /\ chan["server"] = <<>>
        /\ pc["client"] \notin DOMAIN GoodbyeCode
    BY <2>1 DEF Orderly, Leftover, Left, Ended, Stopped, Exited, GoodbyeCode
  <2> QED
    BY <1>1, <1>2, <1>3, <2>1, <2>2 DEF Leftover, Left
<1>5. CASE ServerSizeOK
  <2>1. /\ chan'["server"] = chan["server"] /\ pc["server"] = "sizeOK"
        /\ pc'["server"] \in {"data", "failed"}
    BY <1>5, ServerSendLeaves DEF ServerSizeOK, ServerSend
  <2>2. /\ chan["server"] = <<>> /\ pc["client"] \notin DOMAIN GoodbyeCode
        /\ name = arg /\ disk[name] = <<>>
    BY <2>1 DEF Orderly, Leftover, Ended, Stopped, Exited, GoodbyeCode,
                FileOpen, Counted, BeforeData
  <2>3. ASSUME pc'["server"] = "data" PROVE Leftover' /\ GoesOn'
    <3>1. Leftover'
      BY <1>1, <2>2, <2>3 DEF Leftover, Left
    <3>2. disk'[arg'] \o chan'["server"] = <<>> /\ src' = src
      BY <1>1, <1>3, <2>1, <2>2 DEF clientVars, serverVars
    <3>3. SubSeq(src, 1, 0) = <<>>
      BY <1>0, SubSeqEmpty
    <3> QED
      BY <1>0, <1>3, <3>1, <3>2, <3>3 DEF GoesOn
  <2> QED
    BY <1>2, <2>1, <2>3
<1>6. CASE ServerReport
  <2>1. pc'["server"] \in {"closing", "failed"}
    BY <1>6, ServerSendLeaves, ServerUnsentLeaves DEF ServerReport, ServerSend
  <2> QED
    BY <2>1, EndedLeftover DEF Ended, Stopped, Exited
<1>7. CASE ServerGoodbye \/ ServerShutdown
  <2>1. pc'["server"] \in {"leaving", "failed", "succeeded"}
    BY <1>0, <1>7
    DEF ServerGoodbye, ServerShutdown, Goodbye, Shutdown, Send, Goto, Die
  <2> QED
    BY <2>1, EndedLeftover DEF Ended, Stopped, Exited
<1> QED
  BY <1>4, <1>5, <1>6, <1>7

\* The three loops of the server that gather a command: what they find is what
\* they ask for.
LEMMA ServerGathers ==
  ASSUME Reliable, TypeOK, Leftover, ServerGetCode \/ ServerFilename \/ ServerFilesize
  PROVE  /\ got' = got /\ dropped' = dropped
         /\ chan' = [chan EXCEPT !["server"] = <<>>]
         /\ pc'["client"] = pc["client"]
         /\ got["server"] = <<>>
         /\ \/ pc["server"] = "code" /\ pc'["server"] \in {"hello", "protocolError", "spinning", "failed"}
            \/ pc["server"] = "filename" /\ pc'["server"] \in {"filenameOK", "protocolError", "spinning", "failed"}
            \/ pc["server"] = "filesize" /\ pc'["server"] \in {"filesizeOK", "protocolError", "spinning", "failed"}
<1>0. /\ pc \in [Side -> Label] /\ Side = {"client", "server"}
      /\ "fragment" \notin Faults
      /\ PROTO_NAME_LENGTH \in Nat /\ PROTO_NAME_LENGTH <= BUFSIZE
      /\ CTRL_SIZE \in Nat /\ CTRL_SIZE <= BUFSIZE
      /\ Len(PLAIN_PUT) = PROTO_NAME_LENGTH
      /\ Len(FILENAME) = CTRL_SIZE /\ Len(FILESIZE) = CTRL_SIZE
  BY CommandTypes, BufsizeAssumption
  DEF TypeOK, WireTypeOK, Side, Reliable, PROTO_NAME_LENGTH, CTRL_SIZE, Commands
<1>1. CASE ServerGetCode
  <2>1. Gather("server", "code", PROTO_NAME_LENGTH, PLAIN_PUT, "hello", "protocolError")
    BY <1>1 DEF ServerGetCode
  <2>2. pc["server"] = "code" /\ got["server"] = <<>> /\ chan["server"] \in {<<>>, PLAIN_PUT}
    BY <2>1 DEF Gather, Leftover, Left
  <2> QED
    BY <1>0, <2>1, <2>2, WholeGather
<1>2. CASE ServerFilename
  <2>1. Gather("server", "filename", CTRL_SIZE, FILENAME, "filenameOK", "protocolError")
    BY <1>2 DEF ServerFilename, ServerExpect, Expect
  <2>2. pc["server"] = "filename" /\ got["server"] = <<>> /\ chan["server"] \in {<<>>, FILENAME}
    BY <2>1 DEF Gather, Leftover, Left
  <2> QED
    BY <1>0, <2>1, <2>2, WholeGather
<1>3. CASE ServerFilesize
  <2>1. Gather("server", "filesize", CTRL_SIZE, FILESIZE, "filesizeOK", "protocolError")
    BY <1>3 DEF ServerFilesize, ServerExpect, Expect
  <2>2. pc["server"] = "filesize" /\ got["server"] = <<>> /\ chan["server"] \in {<<>>, FILESIZE}
    BY <2>1 DEF Gather, Leftover, Left
  <2> QED
    BY <1>0, <2>1, <2>2, WholeGather
<1> QED
  BY <1>1, <1>2, <1>3

\* One read() of the name: it goes on with the same name, or ends with all of it.
LEMMA ReadNameLeftover ==
  ASSUME Reliable, TypeOK, Leftover, ServerReadName
  PROVE  /\ Leftover' /\ pc'["server"] # "data"
         /\ pc'["server"] = "open" => name' \in {<<>>, arg'}
<1>0. /\ pc \in [Side -> Label] /\ Side = {"client", "server"}
      /\ chan \in [Side -> Seq(Byte)] /\ got \in [Side -> Seq(Byte)]
      /\ pc["server"] = "readName" /\ "fragment" \notin Faults
      /\ got["server"] \o chan["server"] \in {<<>>, arg}
      /\ got["server"] \in Seq(Byte) /\ chan["server"] \in Seq(Byte)
      /\ pc["client"] \notin DOMAIN GoodbyeCode
      /\ BUFSIZE \in Nat
  BY BufsizeAssumption
  DEF TypeOK, WireTypeOK, Side, Reliable, ServerReadName, Leftover, Ended,
      Stopped, Exited, GoodbyeCode
<1>1. arg' = arg /\ pc'["client"] = pc["client"]
  BY <1>0 DEF ServerReadName, clientVars, Goto, Die
<1>2. CleanFilename(<<>>) = <<>> /\ CleanFilename(arg) = arg
  <2>1. arg \in Filenames /\ arg \in Seq(Byte)
    BY FilenameAssumption DEF TypeOK
  <2>2. \A i \in 1..Len(arg) : ~IsControl(arg[i])
    BY <2>1 DEF Reliable
  <2>3. <<>> \in Seq(Byte) /\ \A i \in 1..Len(<<>>) : ~IsControl(<<>>[i])
    BY EmptySeq
  <2> QED
    BY <2>1, <2>2, <2>3, CleanFilenameProperties
<1>3. CASE pc'["server"] \in {"failed", "filenameError"}
  BY <1>3, EndedLeftover DEF Ended, Stopped, Exited, GoodbyeCode
<1>4. ASSUME NEW s \in {<<>>, arg}, chan'["server"] = <<>>, got'["server"] = <<>>,
             name' = CleanFilename(s), pc'["server"] = "open"
      PROVE  Leftover' /\ pc'["server"] # "data" /\ name' \in {<<>>, arg'}
  BY <1>0, <1>1, <1>2, <1>4 DEF Leftover, Left
<1>5. CASE AtEOF("server") /\ pc'["server"] = "open"
  <2>1. chan["server"] = <<>> /\ UNCHANGED chan
    BY <1>0, <1>5 DEF AtEOF, ServerReadName, ReadSizes, Take, Goto, Die
  <2>2. got'["server"] = <<>> /\ name' = CleanFilename(got["server"])
    BY <1>0, <1>5, <2>1 DEF ServerReadName, ReadSizes, Goto, Die
  <2>3. got["server"] \in {<<>>, arg}
    <3>1. got["server"] \o <<>> = got["server"]
      BY <1>0, ConcatEmptySeq
    <3> QED
      BY <1>0, <2>1, <3>1
  <2> QED
    BY <1>4, <1>5, <2>1, <2>2, <2>3
<1>6. ASSUME NEW n \in ReadSizes("server", BUFSIZE), Take("server", n),
             LET all == got["server"] \o Chunk("server", n)
             IN  IF NameEnds(n)
                 THEN /\ Goto("server", "open")
                      /\ got' = [got EXCEPT !["server"] = <<>>]
                      /\ name' = CleanFilename(all)
                 ELSE /\ got' = [got EXCEPT !["server"] = all]
                      /\ UNCHANGED <<pc, name>>
      PROVE  /\ Leftover' /\ pc'["server"] # "data"
             /\ pc'["server"] = "open" => name' \in {<<>>, arg'}
  <2> DEFINE chunk == Chunk("server", n)
             rest == SubSeq(chan["server"], n + 1, Len(chan["server"]))
             all == got["server"] \o chunk
  <2>1. /\ chunk \in Seq(Byte) /\ rest \in Seq(Byte)
        /\ chunk \o rest = chan["server"]
    BY <1>0, <1>6, ReadSplits
  <2>5. chan'["server"] = rest
    BY <1>0, <1>6 DEF Take
  <2>2. all \o rest = got["server"] \o chan["server"] /\ all \in Seq(Byte)
    <3>1. all \o rest = got["server"] \o (chunk \o rest)
      BY <1>0, <2>1, ByteConcat
    <3>2. all \in Seq(Byte)
      BY <1>0, <2>1, ConcatProperties
    <3> QED
      BY <2>1, <3>1, <3>2
  <2>3. CASE NameEnds(n)
    <3>1. rest = <<>>
      <4>1. n < BUFSIZE /\ chan["server"] # <<>> /\ n = Smaller(Len(chan["server"]), BUFSIZE)
        BY <1>0, <2>3 DEF NameEnds, ReadSizes
      <4>2. Len(chan["server"]) \in Nat
        BY <1>0, LenProperties
      <4>3. Len(chan["server"]) <= BUFSIZE
        BY <1>0, <4>1, <4>2 DEF Smaller
      <4> QED
        BY <1>0, <4>3, PromptRead
    <3>2. /\ all = got["server"] \o chan["server"] /\ pc'["server"] = "open"
          /\ got'["server"] = <<>> /\ name' = CleanFilename(all)
      <4>1. all \o <<>> = all
        BY <2>2, ConcatEmptySeq
      <4>2. /\ Goto("server", "open") /\ got' = [got EXCEPT !["server"] = <<>>]
            /\ name' = CleanFilename(all)
        BY <1>6, <2>3
      <4> QED
        BY <1>0, <2>2, <3>1, <4>1, <4>2 DEF Goto
    <3> QED
      BY <1>0, <1>4, <2>5, <3>1, <3>2
  <2>4. CASE ~NameEnds(n)
    <3>1. got'["server"] = all /\ pc' = pc
      BY <1>0, <1>6, <2>4
    <3>2. got'["server"] \o chan'["server"] \in {<<>>, arg'}
      BY <1>0, <1>1, <2>5, <2>2, <3>1
    <3> QED
      BY <1>0, <1>1, <3>1, <3>2 DEF Leftover, Left
  <2> QED
    BY <2>3, <2>4
<1>7. \/ pc'["server"] \in {"failed", "filenameError"}
      \/ AtEOF("server") /\ pc'["server"] = "open"
      \/ \E n \in ReadSizes("server", BUFSIZE) :
           /\ Take("server", n)
           /\ LET all == got["server"] \o Chunk("server", n)
              IN  IF NameEnds(n)
                  THEN /\ Goto("server", "open")
                       /\ got' = [got EXCEPT !["server"] = <<>>]
                       /\ name' = CleanFilename(all)
                  ELSE /\ got' = [got EXCEPT !["server"] = all]
                       /\ UNCHANGED <<pc, name>>
  BY <1>0 DEF ServerReadName, Goto, Die
<1> QED
  BY <1>3, <1>5, <1>6, <1>7

LEMMA ReadSizeLeftover ==
  ASSUME Reliable, TypeOK, DownMeansExited, Leftover, ServerReadSize
  PROVE  Leftover' /\ pc'["server"] # "data"
<1>0. /\ pc \in [Side -> Label] /\ Side = {"client", "server"}
      /\ chan \in [Side -> Seq(Byte)] /\ "fragment" \notin Faults
      /\ pc["server"] = "readSize" /\ BUFSIZE - 1 \in Nat /\ BUFSIZE \in Nat
      /\ Len(chan["server"]) < BUFSIZE /\ Len(chan["server"]) \in Nat
  BY LenProperties, BufsizeAssumption
  DEF TypeOK, WireTypeOK, Side, Reliable, ServerReadSize, Leftover,
      PROTO_NAME_LENGTH
<1>1. pc'["client"] = pc["client"]
  BY <1>0 DEF ServerReadSize, Goto
<1>2. CASE pc'["server"] = "failed"
  BY <1>2, EndedLeftover DEF Ended, Stopped, Exited
<1>3. ASSUME NEW n \in ReadSizes("server", BUFSIZE - 1), Take("server", n),
             Goto("server", "sizeOK")
      PROVE  Leftover' /\ pc'["server"] # "data"
  <2>1. /\ chan["server"] # <<>>
        /\ SubSeq(chan["server"], n + 1, Len(chan["server"])) = <<>>
    <3>1. Len(chan["server"]) <= BUFSIZE - 1
      BY <1>0
    <3> QED
      BY <1>0, <1>3, <3>1, PromptRead
  <2>2. chan'["server"] = <<>> /\ pc'["server"] = "sizeOK"
    BY <1>0, <1>3, <2>1 DEF Take, Goto
  <2>3. pc["client"] \notin DOMAIN GoodbyeCode
    BY <1>0, <2>1 DEF Leftover, Ended, Stopped, Exited, GoodbyeCode
  <2> QED
    BY <1>1, <2>2, <2>3 DEF Leftover, Left
<1>4. CASE AtEOF("server") /\ Goto("server", "sizeOK") /\ UNCHANGED chan
  <2>1. chan'["server"] = <<>> /\ pc'["server"] = "sizeOK"
    BY <1>0, <1>4 DEF AtEOF, Goto
  <2>2. pc["client"] \notin DOMAIN GoodbyeCode
    BY <1>0, <1>4 DEF AtEOF, Peer, DownMeansExited, Exited, GoodbyeCode
  <2> QED
    BY <1>1, <2>1, <2>2 DEF Leftover, Left
<1> QED
  BY <1>0, <1>2, <1>3, <1>4 DEF ServerReadSize, Goto

\* What one turn of the receive loop leaves in the file.
Received(n) ==
  /\ chan["server"] # <<>>
  /\ n \in 1..Len(chan["server"])
  /\ disk' = [disk EXCEPT ![name] = @ \o Chunk("server", n)]
  /\ chan'["server"] = SubSeq(chan["server"], n + 1, Len(chan["server"]))
  /\ pc' = pc

LEMMA ReceiveSteps ==
  ASSUME Reliable, TypeOK, ServerReceive
  PROVE  /\ UNCHANGED <<arg, src, name, opened>> /\ pc["server"] = "data"
         /\ pc'["client"] = pc["client"]
         /\ \/ \E n \in 1..Len(chan["server"]) : Received(n)
            \/ disk' = disk /\ pc'["server"] \in {"serverError", "spinning", "failed"}
<1>0. /\ pc \in [Side -> Label] /\ Side = {"client", "server"}
      /\ chan \in [Side -> Seq(Byte)] /\ "shortWrite" \notin Faults
      /\ chan["server"] \in Seq(Byte) /\ Len(chan["server"]) \in Nat
      /\ BUFSIZE \in Nat /\ BUFSIZE >= 1
  BY LenProperties, BufsizeAssumption
  DEF TypeOK, WireTypeOK, Side, Reliable, PROTO_NAME_LENGTH
<1>1. ASSUME NEW n \in ReadSizes("server", BUFSIZE), Take("server", n), WriteChunk(n)
      PROVE  \/ \E k \in 1..Len(chan["server"]) : Received(k)
             \/ disk' = disk /\ pc'["server"] = "serverError"
  <2>1. chan["server"] # <<>> /\ Len(chan["server"]) # 0
    BY <1>0, EmptySeq DEF ReadSizes
  <2>2. n \in 1..Len(chan["server"])
    BY <1>0, <2>1 DEF ReadSizes, Smaller
  <2>3. chan'["server"] = SubSeq(chan["server"], n + 1, Len(chan["server"]))
    BY <1>0, <1>1 DEF Take
  <2> QED
    BY <1>0, <1>1, <2>1, <2>2, <2>3 DEF WriteChunk, Received, Goto
<1> QED
  BY <1>0, <1>1 DEF ServerReceive, WriteChunk, Goto, clientVars

\* The file takes the next of the bytes it is to take.
LEMMA ReceivedGoesOn ==
  ASSUME TypeOK, GoesOn, NEW n, Received(n), name = arg, arg \in DOMAIN disk,
         UNCHANGED <<arg, src, name>>
  PROVE  /\ GoesOn'
         /\ disk'[arg] = SubSeq(src, 1, Len(disk[arg]) + n)
         /\ Len(disk[arg]) + n \in (Len(disk[arg]) + 1)..Len(src)
<1> DEFINE file == disk[arg]
           rest == SubSeq(chan["server"], n + 1, Len(chan["server"]))
           chunk == Chunk("server", n)
           all == file \o chan["server"]
<1>1. /\ chan["server"] \in Seq(Byte) /\ Len(chan["server"]) \in Nat
      /\ file \in Seq(Byte) /\ Len(file) \in Nat
      /\ src \in Seq(Byte) /\ Len(src) \in Nat
      /\ n \in 1..Len(chan["server"])
  BY ContentsAssumption, LenProperties DEF TypeOK, WireTypeOK, Side, Received
<1>2. /\ chunk \in Seq(Byte) /\ Len(chunk) = n /\ rest \in Seq(Byte)
      /\ chunk \o rest = chan["server"]
  <2>1. n \in 0..Len(chan["server"])
    BY <1>1
  <2> QED
    BY <1>1, <2>1, SplitSeq DEF Chunk
<1>3. disk'[arg] = file \o chunk /\ chan'["server"] = rest
  BY DEF Received
<1>4. (file \o chunk) \o rest = all
  <2>1. (file \o chunk) \o rest = file \o (chunk \o rest)
    BY <1>1, <1>2, ByteConcat
  <2> QED
    BY <1>2, <2>1
<1>5. /\ Len(all) = Len(file) + Len(chan["server"])
      /\ Len(all) <= Len(src) /\ all = SubSeq(src, 1, Len(all))
  BY <1>1, ConcatProperties DEF GoesOn
<1> HIDE DEF file, rest, chunk, all
<1>6. GoesOn'
  <2>1. disk'[arg'] \o chan'["server"] = all /\ src' = src
    BY <1>3, <1>4
  <2> QED
    BY <1>5, <2>1 DEF GoesOn
<1>7. file \o chunk = SubSeq(all, 1, Len(file) + n)
  <2>1. /\ file \o chunk \in Seq(Byte) /\ Len(file \o chunk) = Len(file) + n
        /\ (file \o chunk) \o rest = all
    BY <1>1, <1>2, <1>4, ConcatProperties
  <2> QED
    BY <1>2, <2>1, SubSeqOfConcat1
<1>8. SubSeq(all, 1, Len(file) + n) = SubSeq(src, 1, Len(file) + n)
  <2>1. Len(file) + n \in 0..Len(all)
    BY <1>1, <1>5
  <2> QED
    BY <1>1, <1>5, <2>1
<1> QED
  BY <1>1, <1>3, <1>5, <1>6, <1>7, <1>8 DEF file

LEMMA ServerOrderly ==
  ASSUME Reliable, IInv, FileOpen, Counted, Orderly, Server
  PROVE  Orderly'
<1>0. /\ pc \in [Side -> Label] /\ Side = {"client", "server"}
      /\ TypeOK /\ DownMeansExited /\ Leftover
      /\ pc'["client"] = pc["client"] /\ UNCHANGED <<arg, src>>
  BY ServerMoves DEF IInv, Orderly, TypeOK, WireTypeOK, Side, clientVars
<1> DEFINE Rest == Leftover' /\ (pc'["server"] = "data" => GoesOn')
<1>1. CASE \/ ServerHello \/ ServerFilenameOK \/ ServerOpenOK \/ ServerFilesizeOK
           \/ ServerSizeOK \/ ServerReport \/ ServerGoodbye \/ ServerShutdown
  <2>1. Rest
    BY <1>0, <1>1, ServerSendLeftover
  <2>2. UNCHANGED serverVars /\ pc'["server"] # "open"
    BY <1>0, <1>1
    DEF ServerHello, ServerFilenameOK, ServerOpenOK, ServerFilesizeOK,
        ServerSizeOK, ServerReport, ServerGoodbye, ServerShutdown, ServerSend,
        Goodbye, Shutdown, Send, Goto, Die, Unsent
  <2> QED
    BY <1>0, <2>1, <2>2 DEF Orderly, serverVars
<1>2. CASE ServerGetCode \/ ServerFilename \/ ServerFilesize
  <2>1. UNCHANGED serverVars
    BY <1>2 DEF ServerGetCode, ServerFilename, ServerFilesize, ServerExpect
  <2>2. /\ got'["server"] = <<>> /\ chan'["server"] = <<>>
        /\ \/ pc["server"] = "code" /\ pc'["server"] \in {"hello", "protocolError", "spinning", "failed"}
           \/ pc["server"] = "filename" /\ pc'["server"] \in {"filenameOK", "protocolError", "spinning", "failed"}
           \/ pc["server"] = "filesize" /\ pc'["server"] \in {"filesizeOK", "protocolError", "spinning", "failed"}
    BY <1>0, <1>2, ServerGathers DEF TypeOK, WireTypeOK
  <2>3. CASE pc'["server"] \in {"protocolError", "spinning", "failed"}
    BY <1>0, <2>1, <2>3, EndedLeftover
    DEF Ended, Stopped, Exited, GoodbyeCode, Orderly, serverVars
  <2>4. CASE pc'["server"] \in {"hello", "filenameOK", "filesizeOK"}
    <3>1. pc["client"] \notin DOMAIN GoodbyeCode
      BY <1>0, <2>2, <2>4 DEF Leftover, Ended, Stopped, Exited, GoodbyeCode
    <3>2. Leftover'
      BY <1>0, <2>2, <2>4, <3>1 DEF Leftover, Left
    <3> QED
      BY <1>0, <2>1, <2>4, <3>2 DEF Orderly, serverVars
  <2> QED
    BY <2>2, <2>3, <2>4
<1>3. CASE ServerReadName
  <2>1. /\ Leftover' /\ pc'["server"] # "data"
        /\ pc'["server"] = "open" => name' \in {<<>>, arg'}
    BY <1>0, <1>3, ReadNameLeftover
  <2>2. opened' = opened /\ ~opened
    BY <1>3 DEF ServerReadName, FileOpen, BeforeOpen
  <2> QED
    BY <2>1, <2>2 DEF Orderly
<1>4. CASE ServerOpen
  <2>1. /\ pc["server"] = "open" /\ pc'["server"] \in {"openOK", "serverError"}
        /\ name' = name /\ got' = got /\ chan' = chan
        /\ opened' => name # <<>>
    BY <1>0, <1>4 DEF ServerOpen, Goto, FileOpen, BeforeOpen
  <2>2. /\ got["server"] = <<>> /\ chan["server"] = <<>>
        /\ pc["client"] \notin DOMAIN GoodbyeCode
    BY <1>0, <2>1 DEF Leftover, Left, Ended, Stopped, Exited, GoodbyeCode
  <2>3. Leftover'
    BY <1>0, <2>1, <2>2 DEF Leftover, Left
  <2> QED
    BY <1>0, <2>1, <2>3 DEF Orderly
<1>5. CASE ServerReadSize
  <2>1. Leftover' /\ pc'["server"] # "data"
    BY <1>0, <1>5, ReadSizeLeftover
  <2>2. UNCHANGED <<name, opened>> /\ pc'["server"] # "open"
    BY <1>0, <1>5 DEF ServerReadSize, Goto
  <2> QED
    BY <1>0, <2>1, <2>2 DEF Orderly
<1>6. CASE ServerReceive
  <2>1. /\ UNCHANGED <<arg, src, name, opened>> /\ pc["server"] = "data"
        /\ \/ \E n \in 1..Len(chan["server"]) : Received(n)
           \/ disk' = disk /\ pc'["server"] \in {"serverError", "spinning", "failed"}
    BY <1>0, <1>6, ReceiveSteps
  <2>2. name = arg /\ arg \in DOMAIN disk /\ GoesOn
        /\ pc["client"] \notin DOMAIN GoodbyeCode
    BY <1>0, <2>1 DEF Orderly, FileOpen, FromData, Leftover, Ended, Stopped,
                      Exited, GoodbyeCode
  <2>3. ASSUME NEW n \in 1..Len(chan["server"]), Received(n)
        PROVE  Orderly'
    <3>1. GoesOn'
      BY <1>0, <2>1, <2>2, <2>3, ReceivedGoesOn
    <3>2. pc' = pc
      BY <2>3 DEF Received
    <3>3. Leftover'
      BY <1>0, <2>1, <2>2, <3>2 DEF Leftover, Left
    <3> QED
      BY <2>1, <3>1, <3>2, <3>3 DEF Orderly
  <2>4. CASE pc'["server"] \in {"serverError", "spinning", "failed"}
    BY <2>1, <2>4, EndedLeftover
    DEF Ended, Stopped, Exited, GoodbyeCode, Orderly
  <2> QED
    BY <2>1, <2>3, <2>4
<1> QED
  BY <1>1, <1>2, <1>3, <1>4, <1>5, <1>6 DEF Server

LEMMA InitOrderly == Init => Orderly
<1> SUFFICES ASSUME Init PROVE Orderly
  OBVIOUS
<1> QED
  BY DEF Init, InitWire, Orderly, Leftover, Left, Side, GoodbyeCode

\* As long as the client can go on, IInv says what is left.
Promised ==
  pc["client"] \in Hopeful => Leftover /\ (pc["server"] = "data" => GoesOn)

\* The steps that the session takes keep the bytes in order.
LEMMA NextOrderly ==
  ASSUME Reliable, IInv, Promised', FileOpen, Counted, Orderly, [Next]_vars
  PROVE  Orderly'
<1>0. /\ pc \in [Side -> Label] /\ Side = {"client", "server"}
      /\ TypeOK
  BY DEF IInv, TypeOK, WireTypeOK, Side
<1>1. CASE Server
  BY <1>1, ServerOrderly
<1>2. CASE Client \/ (KillClient /\ UNCHANGED <<clientVars, serverVars>>)
  <2>1. /\ pc'["server"] = pc["server"] /\ UNCHANGED <<arg, src, serverVars>>
    <3>1. CASE Client
      BY <1>0, <3>1, ClientMoves
    <3>2. CASE KillClient /\ UNCHANGED <<clientVars, serverVars>>
      BY <1>0, <3>2 DEF KillClient, ExitOpen, Goto, clientVars
    <3> QED
      BY <1>2, <3>1, <3>2
  <2>2. Leftover' /\ (pc'["server"] = "data" => GoesOn')
    <3>1. CASE pc'["client"] \in Hopeful
      BY <3>1 DEF Promised
    <3>2. CASE pc'["client"] \notin Hopeful
      <4>1. Leftover' /\ (pc["server"] = "data" => chan'["server"] = chan["server"])
        BY <1>2, <2>1, <3>2, GivesUp DEF Orderly
      <4> QED
        BY <2>1, <4>1 DEF Orderly, GoesOn, serverVars
    <3> QED
      BY <3>1, <3>2
  <2> QED
    BY <2>1, <2>2 DEF Orderly, serverVars
<1>3. CASE KillServer /\ UNCHANGED <<clientVars, serverVars>>
  <2>1. pc'["server"] = "failed"
    BY <1>0, <1>3 DEF KillServer, Die, Goto
  <2> QED
    BY <1>3, <2>1, EndedLeftover
    DEF Ended, Stopped, Exited, Orderly, clientVars, serverVars
<1>4. CASE Reset /\ UNCHANGED <<clientVars, serverVars>>
  BY <1>4 DEF Reset, Orderly, Leftover, Left, GoesOn, clientVars, serverVars
<1>5. CASE UNCHANGED vars
  BY <1>5 DEF vars, wireVars, clientVars, serverVars, Orderly, Leftover, Left,
              GoesOn
<1>6. CASE EditSource
  BY <1>6 DEF EditSource, Reliable
<1> QED
  BY <1>1, <1>2, <1>3, <1>4, <1>5, <1>6 DEF Next, ConnectionFault, Over

LEMMA PutOrderly == Reliable => (Spec => []Orderly)
<1> SUFFICES ASSUME Reliable PROVE Spec => []Orderly
  OBVIOUS
<1>1. IInv /\ Promised' /\ FileOpen /\ Counted /\ Orderly /\ [Next]_vars => Orderly'
  BY NextOrderly
<1>2. Spec => []Counted
  BY PutCounted DEF Reliable
<1>3. Spec => []IInv
  BY PutIInv
<1>4. IInv => Promised
  BY TalkLeftover DEF Promised
<1> QED
  BY <1>1, <1>2, <1>3, <1>4, InitOrderly, PutFileOpen, PTL DEF Spec

\* Only an open of the name, or a write() to it, changes the server's files.
LEMMA NextNamedFile ==
  ASSUME Reliable, IInv, FileOpen, Orderly, [Next]_vars
  PROVE  [/\ DOMAIN disk' \subseteq DOMAIN disk \cup {arg}
          /\ \A f \in DOMAIN disk \ {arg} : disk'[f] = disk[f]]_disk
<1>1. TypeOK
  BY DEF IInv
<1>2. CASE ServerOpen
  <2>1. disk' = disk \/ name = arg
    BY <1>2 DEF ServerOpen, Orderly
  <2> QED
    BY <1>2, <2>1 DEF ServerOpen
<1>3. CASE ServerReceive
  <2>1. name = arg /\ disk \in [DOMAIN disk -> Seq(Byte)]
    BY <1>1, <1>3 DEF ServerReceive, Orderly, FileOpen, FromData, TypeOK
  <2>2. disk' = disk \/ \E x : disk' = [disk EXCEPT ![name] = x]
    BY <1>3 DEF ServerReceive, WriteChunk
  <2> QED
    BY <2>1, <2>2
<1>4. CASE Server /\ ~ServerOpen /\ ~ServerReceive
  BY <1>4
  DEF Server, ServerGetCode, ServerHello, ServerFilename, ServerFilenameOK,
      ServerReadName, ServerOpenOK, ServerFilesize, ServerFilesizeOK,
      ServerReadSize, ServerSizeOK, ServerReport, ServerShutdown, ServerGoodbye,
      ServerSend, ServerExpect, serverVars
<1>5. CASE Client
  BY <1>1, <1>5, ClientMoves DEF serverVars
<1>6. CASE EditSource \/ ConnectionFault \/ UNCHANGED vars
  BY <1>6 DEF EditSource, ConnectionFault, vars, serverVars
<1> QED
  BY <1>2, <1>3, <1>4, <1>5, <1>6 DEF Next, Over

(***************************************************************************)
(* Whatever is cut off and whoever gives up, no file of the server but the *)
(* one the client named is created, truncated or written: a session that   *)
(* ends while the name is on its way opens no part of it (Reliable: a read *)
(* returns all there is, so that the name comes whole or not at all).      *)
(***************************************************************************)
THEOREM PutOnlyNamedFileTouched == Reliable => (Spec => OnlyNamedFileTouched)
<1> SUFFICES ASSUME Reliable PROVE Spec => OnlyNamedFileTouched
  OBVIOUS
<1>1. IInv /\ FileOpen /\ Orderly /\ [Next]_vars =>
        [/\ DOMAIN disk' \subseteq DOMAIN disk \cup {arg}
         /\ \A f \in DOMAIN disk \ {arg} : disk'[f] = disk[f]]_disk
  BY NextNamedFile
<1>2. (Spec => []IInv) /\ (Spec => []Orderly)
  BY PutIInv, PutOrderly
<1> QED
  BY <1>1, <1>2, PutFileOpen, PTL DEF Spec, OnlyNamedFileTouched

-----------------------------------------------------------------------------
(***************************************************************************)
(* The session implements the abstract transfer, step by step.             *)
(***************************************************************************)
Stored == IF opened THEN disk[name] ELSE Untouched

\* What the inductive invariants say of a state, taken together.
Sound == IInv /\ FileOpen /\ Counted /\ Unforged /\ Orderly

LEMMA InitAbstract == Init => Abstract!Init
BY DEF Init, InitWire, Abstract!Init, Report, Side

\* A step that the abstract transfer does not see.
LEMMA Stutters ==
  ASSUME src' = src, Stored' = Stored, Report' = Report
  PROVE  UNCHANGED Abstract!vars
BY DEF Abstract!vars, Stored

\* The client's steps change what its user is told, at most.
LEMMA ClientAbstract ==
  ASSUME Reliable, Sound, Client \/ (KillClient /\ UNCHANGED <<clientVars, serverVars>>)
  PROVE  [Abstract!Next]_(Abstract!vars)
<1>0. /\ pc \in [Side -> Label] /\ Side = {"client", "server"} /\ TypeOK
  BY DEF Sound, IInv, TypeOK, WireTypeOK, Side
<1>1. UNCHANGED <<arg, src, serverVars>>
  BY <1>0, ClientMoves DEF clientVars
<1>2. src' = src /\ Stored' = Stored
  BY <1>1 DEF serverVars, Stored
<1>3. /\ pc["client"] \notin Stopped
      /\ pc'["client"] = "succeeded" => pc["client"] = "exitSuccess"
  <2>1. CASE KillClient
    BY <1>0, <2>1 DEF KillClient, ExitOpen, Goto
  <2>2. CASE Client
    BY <1>0, <2>2
    DEF Client, ClientSendCode, ClientAwaitHello, ClientSendFilename,
        ClientAwaitName, ClientSendName, ClientAwaitOpen, ClientSendFilesize,
        ClientAwaitSize, ClientSendSize, ClientNoSource, ClientAwaitReady,
        ClientSendData, ClientDataSent, ClientAwaitEnd, ClientExit,
        ClientGoodbye, ClientSend, ClientAwaitOK, Goodbye, Shutdown, Send,
        Expect, Gather, ExitOpen, Goto, Die, GoodbyeCode, Stopped, Exited,
        ClientWrite, Write, Unsent
  <2> QED
    BY <2>1, <2>2
<1>4. Report = "none"
  BY <1>3 DEF Report, Stopped, Exited
<1>5. CASE pc'["client"] = "succeeded"
  <2>1. pc["client"] = "exitSuccess"
    BY <1>3, <1>5
  <2>2. Done /\ opened /\ name = arg
    BY <2>1, TalkProperties
    DEF Sound, IInv, Talk, Hopeful, ClientLabel, Unforged, NoEndYet, EndSent,
        Orderly
  <2>3. Stored = src
    BY <2>2 DEF Done, Delivered, Stored
  <2>4. Report' = "success"
    BY <1>5 DEF Report
  <2> QED
    BY <1>2, <1>4, <2>3, <2>4 DEF Abstract!Next, Abstract!Succeed, Stored
<1>6. CASE pc'["client"] \in {"failed", "spinning"}
  <2>1. Report' = "failure"
    BY <1>6 DEF Report
  <2> QED
    BY <1>2, <1>4, <2>1 DEF Abstract!Next, Abstract!Fail, Stored
<1>7. CASE pc'["client"] \notin Stopped
  <2>1. Report' = "none"
    BY <1>7 DEF Report, Stopped, Exited
  <2> QED
    BY <1>2, <1>4, <2>1, Stutters
<1> QED
  BY <1>5, <1>6, <1>7 DEF Stopped, Exited

LEMMA ServerAbstract ==
  ASSUME Reliable, Sound, Server
  PROVE  [Abstract!Next]_(Abstract!vars)
<1>0. /\ pc \in [Side -> Label] /\ Side = {"client", "server"} /\ TypeOK
      /\ pc'["client"] = pc["client"] /\ UNCHANGED <<arg, src>>
  BY ServerMoves DEF Sound, IInv, TypeOK, WireTypeOK, Side, clientVars
<1>1. Report' = Report /\ src' = src
  BY <1>0 DEF Report
<1>2. CASE ServerOpen
  <2>1. ~opened
    BY <1>2 DEF ServerOpen, Sound, FileOpen, BeforeOpen
  <2>2. CASE opened'
    <3>1. Stored = Untouched /\ Stored' = <<>>
      BY <1>2, <2>1, <2>2 DEF ServerOpen, Stored
    <3> QED
      BY <1>1, <3>1 DEF Abstract!Next, Abstract!Truncate, Stored
  <2>3. CASE ~opened'
    BY <1>1, <2>1, <2>3, Stutters DEF Stored
  <2> QED
    BY <2>2, <2>3
<1>3. CASE ServerReceive
  <2>1. /\ UNCHANGED <<arg, src, name, opened>> /\ pc["server"] = "data"
        /\ \/ \E n \in 1..Len(chan["server"]) : Received(n)
           \/ disk' = disk
    BY <1>0, <1>3, ReceiveSteps
  <2>2. opened /\ name = arg /\ arg \in DOMAIN disk /\ GoesOn
    BY <2>1 DEF Sound, Orderly, FileOpen, FromData
  <2>3. CASE disk' = disk
    BY <1>1, <2>1, <2>3, Stutters DEF Stored
  <2>4. ASSUME NEW n \in 1..Len(chan["server"]), Received(n)
        PROVE  Abstract!Next
    <3>1. /\ disk'[arg] = SubSeq(src, 1, Len(disk[arg]) + n)
          /\ Len(disk[arg]) + n \in (Len(disk[arg]) + 1)..Len(src)
      BY <1>0, <2>1, <2>2, <2>4, ReceivedGoesOn
    <3>2. Stored = disk[arg] /\ Stored' = disk'[arg]
      BY <2>1, <2>2 DEF Stored
    <3>3. Stored # Untouched
      BY <1>0, <2>2, <3>2, UntouchedAssumption DEF TypeOK
    <3>4. \E n2 \in (Len(Stored) + 1)..Len(src) : Stored' = SubSeq(src, 1, n2)
      BY <3>1, <3>2
    <3> QED
      BY <1>1, <3>3, <3>4
      DEF Abstract!Next, Abstract!Extend, Abstract!Prefix, Stored
  <2> QED
    BY <2>1, <2>3, <2>4
<1>4. CASE ServerReadName
  <2>1. ~opened /\ opened' = opened
    BY <1>4 DEF ServerReadName, Sound, FileOpen, BeforeOpen
  <2> QED
    BY <1>1, <2>1, Stutters DEF Stored
<1>5. CASE Server /\ ~ServerOpen /\ ~ServerReceive /\ ~ServerReadName
  <2>1. UNCHANGED <<opened, disk, name>>
    BY <1>5
    DEF Server, ServerGetCode, ServerHello, ServerFilename, ServerFilenameOK,
        ServerOpenOK, ServerFilesize, ServerFilesizeOK, ServerReadSize,
        ServerSizeOK, ServerReport, ServerShutdown, ServerGoodbye, ServerSend,
        ServerExpect, serverVars
  <2> QED
    BY <1>1, <2>1, Stutters DEF Stored
<1> QED
  BY <1>2, <1>3, <1>4, <1>5

LEMMA NextAbstract ==
  ASSUME Reliable, Sound, [Next]_vars
  PROVE  [Abstract!Next]_(Abstract!vars)
<1>0. /\ pc \in [Side -> Label] /\ Side = {"client", "server"}
  BY DEF Sound, IInv, TypeOK, WireTypeOK, Side
<1>1. CASE Client \/ (KillClient /\ UNCHANGED <<clientVars, serverVars>>)
  BY <1>1, ClientAbstract
<1>2. CASE Server
  BY <1>2, ServerAbstract
<1>3. CASE EditSource
  BY <1>3 DEF EditSource, Reliable
<1>4. CASE \/ (Reset \/ KillServer) /\ UNCHANGED <<clientVars, serverVars>>
           \/ UNCHANGED vars
  <2>1. pc'["client"] = pc["client"] /\ UNCHANGED <<src, opened, disk, name>>
    BY <1>0, <1>4
    DEF Reset, KillServer, Die, Goto, clientVars, serverVars, vars, wireVars
  <2> QED
    BY <2>1, Stutters DEF Report, Stored
<1> QED
  BY <1>1, <1>2, <1>3, <1>4 DEF Next, ConnectionFault, Over

(***************************************************************************)
(* In a Reliable environment the session implements Transfer: the server's *)
(* file is always a prefix of the client's that only grows, success is     *)
(* reported of a complete copy, and nobody is told two things, however     *)
(* connections break, processes die, files fail to open and writes fail.   *)
(***************************************************************************)
THEOREM PutImplementsTransfer == Reliable => (Spec => ImplementsTransfer)
<1> SUFFICES ASSUME Reliable PROVE Spec => ImplementsTransfer
  OBVIOUS
<1>1. Sound /\ [Next]_vars => [Abstract!Next]_(Abstract!vars)
  BY NextAbstract
<1>2. Spec => []Sound
  <2>1. (Spec => []IInv) /\ (Spec => []Orderly) /\ (Spec => []Counted)
    BY PutIInv, PutOrderly, PutCounted DEF Reliable
  <2>2. IInv /\ FileOpen /\ Counted /\ Unforged /\ Orderly => Sound
    BY DEF Sound
  <2> QED
    BY <2>1, <2>2, PutFileOpen, PutUnforged, PTL
<1> QED
  BY <1>1, <1>2, InitAbstract, PTL DEF Spec, ImplementsTransfer, Abstract!Spec

-----------------------------------------------------------------------------
(***************************************************************************)
(* No byte is read past a command.                                         *)
(***************************************************************************)
LEMMA ClientGathers ==
  ASSUME Reliable, TypeOK, OneAtATime,
         \/ ClientAwaitHello \/ ClientAwaitName \/ ClientAwaitOpen
         \/ ClientAwaitSize \/ ClientAwaitReady \/ ClientAwaitEnd
  PROVE  got' = got /\ dropped' = dropped /\ chan'["client"] = <<>>
<1>0. /\ Side = {"client", "server"} /\ chan \in [Side -> Seq(Byte)]
      /\ "fragment" \notin Faults /\ CTRL_SIZE \in Nat /\ CTRL_SIZE <= BUFSIZE
  BY BufsizeAssumption
  DEF TypeOK, WireTypeOK, Side, Reliable, CTRL_SIZE, PROTO_NAME_LENGTH
<1>1. ASSUME NEW from \in ClientLabel \ {"exitFailure"}, NEW command, NEW hit, NEW miss,
             Expect("client", from, command, hit, miss)
      PROVE  got' = got /\ dropped' = dropped /\ chan'["client"] = <<>>
  <2>1. /\ got["client"] = <<>>
        /\ chan["client"] = <<>> \/ Len(chan["client"]) = CTRL_SIZE
    BY <1>1 DEF OneAtATime, Expect, Gather, Hopeful
  <2>2. got' = got /\ dropped' = dropped /\ chan' = [chan EXCEPT !["client"] = <<>>]
    BY <1>0, <1>1, <2>1, WholeGather DEF Expect
  <2> QED
    BY <1>0, <2>2
<1> QED
  BY <1>1
  DEF ClientAwaitHello, ClientAwaitName, ClientAwaitOpen, ClientAwaitSize,
      ClientAwaitReady, ClientAwaitEnd, ClientAwaitOK, ClientLabel

\* What a step may do to the bytes thrown away, and to those on their way to
\* the client.
LEMMA NextDropsNothing ==
  ASSUME Reliable, TypeOK, Leftover, OneAtATime, [Next]_vars
  PROVE  /\ dropped' = dropped /\ got'["client"] = got["client"]
         /\ \/ chan'["client"] \in {<<>>, chan["client"]}
            \/ pc'["server"] \notin Exited /\ Server
<1>0. /\ pc \in [Side -> Label] /\ Side = {"client", "server"}
      /\ chan \in [Side -> Seq(Byte)] /\ got \in [Side -> Seq(Byte)]
      /\ Peer("client") = "server" /\ Peer("server") = "client"
  BY DEF TypeOK, WireTypeOK, Side, Peer
<1>1. CASE \/ ClientAwaitHello \/ ClientAwaitName \/ ClientAwaitOpen
           \/ ClientAwaitSize \/ ClientAwaitReady \/ ClientAwaitEnd
  BY <1>1, ClientGathers
<1>2. CASE \/ ClientSendCode \/ ClientSendFilename \/ ClientSendName
           \/ ClientSendFilesize \/ ClientSendSize \/ ClientSendData
           \/ ClientNoSource \/ ClientDataSent \/ ClientExit \/ ClientGoodbye
  BY <1>0, <1>2
  DEF ClientSendCode, ClientSendFilename, ClientSendName, ClientSendFilesize,
      ClientSendSize, ClientSendData, ClientNoSource, ClientDataSent,
      ClientExit, ExitOpen, ClientGoodbye, ClientSend, Goodbye, Shutdown,
      Send, Goto, Die, ClientWrite, Write, Unsent
<1>3. CASE ServerGetCode \/ ServerFilename \/ ServerFilesize
  BY <1>0, <1>3, ServerGathers
<1>4. CASE \/ ServerReadName \/ ServerOpen \/ ServerReadSize \/ ServerReceive
           \/ ServerShutdown
  BY <1>0, <1>4
  DEF ServerReadName, ServerOpen, ServerReadSize, ServerReceive, ServerShutdown,
      Shutdown, Take, Goto, Die
<1>5. CASE \/ ServerHello \/ ServerFilenameOK \/ ServerOpenOK \/ ServerFilesizeOK
           \/ ServerSizeOK \/ ServerReport
  <2>1. ASSUME NEW from, NEW bytes, NEW to \in ServerLabel,
               Send("server", from, bytes, to)
        PROVE  /\ dropped' = dropped /\ got' = got
               /\ chan'["client"] = chan["client"] \/ pc'["server"] \notin Exited
    BY <1>0, <2>1 DEF Send, Goto, Die, ServerLabel, Exited
  <2>2. ASSUME Unsent("server", "data", "closing")
        PROVE  dropped' = dropped /\ got' = got /\ chan' = chan
    BY <2>2 DEF Unsent
  <2> QED
    BY <1>5, <2>1, <2>2
    DEF Server, ServerHello, ServerFilenameOK, ServerOpenOK, ServerFilesizeOK,
        ServerSizeOK, ServerReport, ServerSend, ServerLabel
<1>6. CASE ServerGoodbye
  <2>1. /\ dropped' = dropped /\ got' = got
        /\ chan'["client"] = chan["client"] \/ pc'["server"] \notin Exited
    BY <1>0, <1>6 DEF ServerGoodbye, Goodbye, Shutdown, Send, Goto, Die, Exited
  <2> QED
    BY <1>6, <2>1 DEF Server
<1>7. CASE ConnectionFault \/ EditSource \/ UNCHANGED vars
  BY <1>0, <1>7
  DEF ConnectionFault, Reset, KillClient, KillServer, ExitOpen, Die, Goto,
      EditSource, vars, wireVars
<1> QED
  BY <1>1, <1>2, <1>3, <1>4, <1>5, <1>6, <1>7 DEF Next, Over, Client, Server

\* The verdict is sent to a client that has read all there was before it.
LEMMA ReportFollowsNothing ==
  ASSUME Reliable, <<>> \notin Contents, IInv, OneAtATime, ServerReport,
         pc["client"] \in Hopeful, chan'["client"] # chan["client"]
  PROVE  Len(chan'["client"]) = CTRL_SIZE
<1>0. /\ Side = {"client", "server"} /\ Peer("server") = "client"
      /\ chan \in [Side -> Seq(Byte)]
      /\ src \in Seq(Byte) /\ Len(src) \in Nat /\ src # <<>>
      /\ pc["server"] = "data" /\ total >= filesize
  BY ContentsAssumption, LenProperties
  DEF IInv, TypeOK, WireTypeOK, Side, Peer, ServerReport, ServerSend, Send,
      Unsent
<1>1. Sending
  BY <1>0 DEF IInv, Talk, Done, InTalk, Greeting, Naming, Sizing, ServerLost,
              At, GoodbyeCode
<1>2. chan["client"] = <<>>
  <2>1. SUFFICES ASSUME disk[arg] = <<>> PROVE FALSE
    BY <1>1 DEF Sending, At
  <2>2. Len(src) <= Len(disk[arg]) /\ Len(disk[arg]) = 0
    BY <1>0, <1>1, <2>1, EmptySeq DEF Sending
  <2> QED
    BY <1>0, <2>2, EmptySeq
<1>3. chan'["client"] = <<>> \o Verdict
  BY <1>0, <1>2 DEF ServerReport, ServerSend, Send, Die, Unsent
<1>4. Verdict \in Seq(Byte) /\ Len(Verdict) = CTRL_SIZE
  BY CommandTypes DEF Verdict, Commands
<1> QED
  BY <1>3, <1>4, ConcatEmptySeq

\* In the conversation one reply at most is on its way.
OneReply == InTalk => chan["client"] = <<>> \/ Len(chan["client"]) = CTRL_SIZE

LEMMA NextOneAtATime ==
  ASSUME Reliable, <<>> \notin Contents, IInv, IInv', OneReply', Leftover,
         OneAtATime, [Next]_vars
  PROVE  OneAtATime'
<1>0. /\ pc \in [Side -> Label] /\ Side = {"client", "server"} /\ TypeOK
  BY DEF IInv, TypeOK, WireTypeOK, Side
<1>1. /\ dropped' = dropped /\ got'["client"] = got["client"]
      /\ \/ chan'["client"] \in {<<>>, chan["client"]}
         \/ pc'["server"] \notin Exited /\ Server
  BY <1>0, NextDropsNothing
<1>2. NothingDropped'
  BY <1>1 DEF OneAtATime, NothingDropped
<1> SUFFICES ASSUME pc'["client"] \in Hopeful
             PROVE  /\ got'["client"] = <<>>
                    /\ chan'["client"] = <<>> \/ Len(chan'["client"]) = CTRL_SIZE
  BY <1>2 DEF OneAtATime
<1>3. pc["client"] \in Hopeful
  BY <1>0, HopelessStable
<1>4. /\ got'["client"] = <<>>
      /\ chan["client"] = <<>> \/ Len(chan["client"]) = CTRL_SIZE
  BY <1>1, <1>3 DEF OneAtATime
<1>5. CASE chan'["client"] \in {<<>>, chan["client"]}
  BY <1>4, <1>5
<1>6. CASE pc'["server"] \notin Exited /\ Server /\ chan'["client"] # chan["client"]
  <2>1. CASE InTalk'
    BY <1>4, <2>1 DEF OneReply
  <2>2. CASE Done'
    <3>1. pc'["server"] = "closing"
      BY <1>6, <2>2 DEF Done, Exited
    <3>2. CASE ServerReport
      BY <1>3, <1>4, <1>6, <3>2, ReportFollowsNothing
    <3>3. CASE ~ServerReport
      BY <1>0, <1>6, <3>1, <3>3
      DEF Server, ServerGetCode, ServerHello, ServerFilename,
          ServerFilenameOK, ServerReadName, ServerOpen, ServerOpenOK,
          ServerFilesize, ServerFilesizeOK, ServerReadSize, ServerSizeOK,
          ServerReceive, WriteChunk, ServerShutdown, ServerGoodbye,
          ServerSend, ServerExpect, Goodbye, Send, Expect, Gather, Take,
          Shutdown, Goto, Die
    <3> QED
      BY <3>2, <3>3
  <2> QED
    BY <2>1, <2>2 DEF IInv, Talk
<1> QED
  BY <1>1, <1>5, <1>6

(***************************************************************************)
(* proto_expect_command may read past its command and drops what it does;  *)
(* it never has anything to drop: neither end sends before the other has   *)
(* read what came before.  An empty file breaks this: its two last replies *)
(* follow one another.                                                     *)
(***************************************************************************)
THEOREM PutNothingDropped ==
  Reliable /\ <<>> \notin Contents => (Spec => []NothingDropped)
<1> SUFFICES ASSUME Reliable, <<>> \notin Contents PROVE Spec => []NothingDropped
  OBVIOUS
<1>1. Init => OneAtATime
  BY EmptySeq DEF Init, InitWire, OneAtATime, NothingDropped, Side
<1>2. /\ IInv /\ IInv' /\ OneReply' /\ Orderly /\ OneAtATime /\ [Next]_vars
      => OneAtATime'
  BY NextOneAtATime DEF Orderly
<1>3. OneReply
  BY TalkProperties DEF OneReply
<1>4. (Spec => []IInv) /\ (Spec => []Orderly)
  BY PutIInv, PutOrderly
<1>5. OneAtATime => NothingDropped
  BY DEF OneAtATime
<1> QED
  BY <1>1, <1>2, <1>3, <1>4, <1>5, PTL DEF Spec
=============================================================================
