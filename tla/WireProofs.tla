----------------------------- MODULE WireProofs -----------------------------
(***************************************************************************)
(* Lemmas about the calls of Wire, for the proofs of the protocols.        *)
(***************************************************************************)
EXTENDS Wire, SequenceTheorems, TLAPS

(***************************************************************************)
(* Splitting a sequence in two: what one read() takes and what it leaves.  *)
(***************************************************************************)
LEMMA SplitSeq ==
  ASSUME NEW S, NEW s \in Seq(S), NEW n \in 0..Len(s)
  PROVE  /\ SubSeq(s, 1, n) \in Seq(S)
         /\ Len(SubSeq(s, 1, n)) = n
         /\ SubSeq(s, n + 1, Len(s)) \in Seq(S)
         /\ Len(SubSeq(s, n + 1, Len(s))) = Len(s) - n
         /\ SubSeq(s, 1, n) \o SubSeq(s, n + 1, Len(s)) = s
<1>1. Len(s) \in Nat
  BY LenProperties
<1>2. \A i \in 1..Len(s) : s[i] \in S
  BY ElementOfSeq
<1>3. SubSeq(s, 1, n) \in Seq(S) /\ Len(SubSeq(s, 1, n)) = n
  <2>1. \A i \in 1..n : s[i] \in S
    BY <1>1, <1>2
  <2> QED
    BY <1>1, <2>1, SubSeqProperties
<1>4. /\ SubSeq(s, n + 1, Len(s)) \in Seq(S)
      /\ Len(SubSeq(s, n + 1, Len(s))) = Len(s) - n
  <2>1. \A i \in (n + 1)..Len(s) : s[i] \in S
    BY <1>1, <1>2
  <2> QED
    BY <1>1, <2>1, SubSeqProperties
<1>5. SubSeq(s, 1, n) \o SubSeq(s, n + 1, Len(s)) = SubSeq(s, 1, Len(s))
  <2>1. 1 \in 1..(Len(s) + 1) /\ n \in (1 - 1)..Len(s) /\ Len(s) \in n..Len(s)
    BY <1>1
  <2> QED
    BY <2>1, ConcatAdjacentSubSeq
<1> QED
  BY <1>3, <1>4, <1>5, SubSeqFull

LEMMA ByteConcat ==
  ASSUME NEW a \in Seq(Byte), NEW b \in Seq(Byte), NEW c \in Seq(Byte)
  PROVE  (a \o b) \o c = a \o (b \o c)
BY ConcatAssociative

\* A read() that returns n bytes moves them from the channel, in order.
LEMMA ReadSplits ==
  ASSUME chan \in [Side -> Seq(Byte)],
         NEW x \in Side, NEW limit \in Nat,
         NEW n \in ReadSizes(x, limit)
  PROVE  /\ n \in 0..Len(chan[x])
         /\ n <= limit
         /\ Chunk(x, n) \in Seq(Byte)
         /\ Len(Chunk(x, n)) = n
         /\ SubSeq(chan[x], n + 1, Len(chan[x])) \in Seq(Byte)
         /\ Len(SubSeq(chan[x], n + 1, Len(chan[x]))) = Len(chan[x]) - n
         /\ Chunk(x, n) \o SubSeq(chan[x], n + 1, Len(chan[x])) = chan[x]
<1>1. chan[x] \in Seq(Byte) /\ Len(chan[x]) \in Nat
  BY LenProperties
<1>2. n \in 0..Len(chan[x]) /\ n <= limit
  BY <1>1 DEF ReadSizes, Smaller
<1> QED
  BY <1>1, <1>2, SplitSeq DEF Chunk

-----------------------------------------------------------------------------
Commands == Failures \cup {OK, FILENAME, FILESIZE, END_FILE_TRANSMISSION,
                           FILE_CUT_TO_DECLARED_SIZE}

\* What the protocols put on the wire are bytes.
LEMMA CommandTypes ==
  /\ \A command \in Commands :
       command \in Seq(Byte) /\ Len(command) = CTRL_SIZE
  /\ PLAIN_PUT \in Seq(Byte) /\ Len(PLAIN_PUT) = PROTO_NAME_LENGTH
  /\ PLAIN_GET \in Seq(Byte) /\ Len(PLAIN_GET) = PROTO_NAME_LENGTH
<1>1. \A a, b, c \in Byte : <<a, b, c>> \in Seq(Byte) /\ Len(<<a, b, c>>) = 3
  OBVIOUS
<1>2. \A a, b, c, d, e \in Byte : /\ <<a, b, c, d, e>> \in Seq(Byte)
                                /\ Len(<<a, b, c, d, e>>) = 5
  OBVIOUS
<1>3. {0, 1, 2, 3, 5, 7, 8, 9, 71, 80} \subseteq Byte
  BY DEF Byte
<1>4. /\ PLAIN_PUT \in Seq(Byte) /\ Len(PLAIN_PUT) = PROTO_NAME_LENGTH
      /\ PLAIN_GET \in Seq(Byte) /\ Len(PLAIN_GET) = PROTO_NAME_LENGTH
  BY <1>2, <1>3 DEF PLAIN_PUT, PLAIN_GET, PROTO_NAME_LENGTH
<1>5. \A command \in Commands :
        \E a, b, c \in {0, 1, 2, 3, 5, 7, 8, 9} : command = <<a, b, c>>
  BY DEF Commands, Failures, OK, FILENAME, FILESIZE, END_FILE_TRANSMISSION,
         FILE_CUT_TO_DECLARED_SIZE, PROTOCOL_ERROR, SERVER_ERROR,
         FILENAME_ERROR, CLIENT_ERROR
<1>6. \A command \in Commands :
        command \in Seq(Byte) /\ Len(command) = CTRL_SIZE
  <2> TAKE command \in Commands
  <2>1. PICK a, b, c \in Byte : command = <<a, b, c>>
    BY <1>3, <1>5
  <2> QED
    BY <1>1, <2>1 DEF CTRL_SIZE
<1> QED
  BY <1>4, <1>6

\* What the failing calls say names a failure.
LEMMA GoodbyeTypes ==
  \A reason \in DOMAIN GoodbyeCode : GoodbyeCode[reason] \in Failures
BY DEF GoodbyeCode, Failures

(***************************************************************************)
(* The calls keep the types of the wire.                                   *)
(***************************************************************************)
LEMMA SendTypes ==
  ASSUME NEW Label, WireTypeOK(Label), "failed" \in Label,
         NEW x \in Side, NEW from, NEW bytes \in Seq(Byte), NEW to \in Label,
         Send(x, from, bytes, to)
  PROVE  WireTypeOK(Label)'
<1>1. Peer(x) \in Side
  BY DEF Peer, Side
<1>2. chan[Peer(x)] \o bytes \in Seq(Byte)
  BY <1>1, ConcatProperties DEF WireTypeOK
<1> QED
  BY <1>1, <1>2 DEF Send, WireTypeOK, Goto, Die

LEMMA UnsentTypes ==
  ASSUME NEW Label, WireTypeOK(Label), NEW x \in Side, NEW from,
         NEW to \in Label, Unsent(x, from, to)
  PROVE  WireTypeOK(Label)'
BY DEF Unsent, WireTypeOK, Goto

LEMMA WriteTypes ==
  ASSUME NEW Label, WireTypeOK(Label), {"failed", "spinning"} \subseteq Label,
         NEW x \in Side, NEW from, NEW bytes \in Seq(Byte), NEW to \in Label,
         Write(x, from, bytes, to)
  PROVE  WireTypeOK(Label)'
<1>1. CASE Send(x, from, bytes, to)
  BY <1>1, SendTypes
<1>2. CASE Unsent(x, from, IF chan[x] = <<>> THEN "spinning" ELSE to)
  BY <1>2, UnsentTypes
<1> QED
  BY <1>1, <1>2 DEF Write

\* One read() of a gathering loop, whatever the caller does with the bytes.
Gathers(x, n, size) ==
  LET all == got[x] \o Chunk(x, n)
  IN  /\ Take(x, n)
      /\ IF Len(all) < size
         THEN got' = [got EXCEPT ![x] = all] /\ UNCHANGED <<pc, dropped>>
         ELSE /\ got' = [got EXCEPT ![x] = <<>>]
              /\ dropped' = [dropped EXCEPT ![x] = @ + Len(all) - size]

LEMMA GathersTypes ==
  ASSUME NEW Label, WireTypeOK(Label), NEW x \in Side, NEW size \in Nat,
         NEW n \in ReadSizes(x, BUFSIZE), Gathers(x, n, size),
         pc' \in [Side -> Label]
  PROVE  WireTypeOK(Label)'
<1> DEFINE all == got[x] \o Chunk(x, n)
           over == Len(all) - size
<1>1. /\ Chunk(x, n) \in Seq(Byte)
      /\ SubSeq(chan[x], n + 1, Len(chan[x])) \in Seq(Byte)
  BY ReadSplits, BufsizeAssumption DEF WireTypeOK
<1>2. all \in Seq(Byte) /\ Len(all) \in Nat
  BY <1>1, ConcatProperties, LenProperties DEF WireTypeOK
<1>3. dropped' \in [Side -> Nat]
  <2>1. CASE Len(all) < size
    BY <2>1 DEF Gathers, WireTypeOK
  <2>2. CASE ~(Len(all) < size)
    <3>1. over \in Nat
      BY <1>2, <2>2
    <3>2. dropped' = [dropped EXCEPT ![x] = @ + over]
      BY <2>2 DEF Gathers
    <3> HIDE DEF over
    <3> QED
      BY <3>1, <3>2 DEF WireTypeOK
  <2> QED
    BY <2>1, <2>2
<1>4. got' \in [Side -> Seq(Byte)]
  BY <1>2, EmptySeq DEF Gathers, WireTypeOK
<1>5. chan' \in [Side -> Seq(Byte)] /\ UNCHANGED <<down, rst>>
  BY <1>1 DEF Gathers, Take, WireTypeOK
<1> QED
  BY <1>3, <1>4, <1>5 DEF WireTypeOK

LEMMA ExpectTypes ==
  ASSUME NEW Label, WireTypeOK(Label), {"failed", "spinning"} \subseteq Label,
         NEW x \in Side, NEW from, NEW command,
         NEW hit \in Label, NEW miss \in Label,
         Expect(x, from, command, hit, miss)
  PROVE  WireTypeOK(Label)'
<1>1. pc' \in [Side -> Label]
  BY DEF Expect, Gather, Die, Goto, WireTypeOK
<1>2. CASE UNCHANGED <<chan, got, dropped, down, rst>>
  BY <1>1, <1>2 DEF WireTypeOK
<1>3. ASSUME NEW n \in ReadSizes(x, BUFSIZE), Gathers(x, n, CTRL_SIZE)
      PROVE  WireTypeOK(Label)'
  BY <1>1, <1>3, GathersTypes DEF CTRL_SIZE
<1> QED
  BY <1>2, <1>3, Zenon DEF Expect, Gather, Die, Gathers

LEMMA ShutdownTypes ==
  ASSUME NEW Label, WireTypeOK(Label),
         NEW x \in Side, NEW from, NEW status \in Label,
         Shutdown(x, from, status)
  PROVE  WireTypeOK(Label)'
BY DEF Shutdown, LeavesUnread, WireTypeOK, Goto

LEMMA GoodbyeKeepsTypes ==
  ASSUME NEW Label, WireTypeOK(Label), {"failed", "leaving"} \subseteq Label,
         NEW x \in Side, Goodbye(x)
  PROVE  WireTypeOK(Label)'
<1>1. CASE Shutdown(x, "leaving", "failed")
  BY <1>1, ShutdownTypes
<1>2. ASSUME NEW reason \in DOMAIN GoodbyeCode,
             Send(x, reason, GoodbyeCode[reason], "leaving")
      PROVE  WireTypeOK(Label)'
  <2>1. GoodbyeCode[reason] \in Seq(Byte)
    BY CommandTypes, GoodbyeTypes DEF Commands
  <2> QED
    BY <1>2, <2>1, SendTypes
<1> QED
  BY <1>1, <1>2 DEF Goodbye

LEMMA FaultTypes ==
  ASSUME NEW Label, WireTypeOK(Label), "failed" \in Label,
         Reset \/ KillClient \/ KillServer
  PROVE  WireTypeOK(Label)'
BY DEF Reset, KillClient, KillServer, ExitOpen, Die, Goto, Side, WireTypeOK

-----------------------------------------------------------------------------
(***************************************************************************)
(* What the calls do to the two ends, when nothing cuts a message in two.  *)
(***************************************************************************)
LEMMA PeerProperties ==
  ASSUME NEW x \in Side
  PROVE  Peer(x) \in Side /\ Peer(x) # x /\ Side = {x, Peer(x)}
BY DEF Peer, Side

LEMMA SendEffect ==
  ASSUME NEW Label, WireTypeOK(Label), NEW x \in Side,
         NEW from, NEW bytes \in Seq(Byte), NEW to, Send(x, from, bytes, to)
  PROVE  /\ pc[x] = from
         /\ pc'[Peer(x)] = pc[Peer(x)]
         /\ chan'[x] = chan[x]
         /\ got' = got
         /\ \/ /\ pc'[x] = to /\ ~down[Peer(x)]
               /\ chan'[Peer(x)] = chan[Peer(x)] \o bytes
            \/ /\ pc'[x] = to /\ down[Peer(x)]
               /\ chan'[Peer(x)] = chan[Peer(x)]
            \/ /\ pc'[x] = "failed"
               /\ chan'[Peer(x)] = chan[Peer(x)]
BY PeerProperties DEF Send, WireTypeOK, Goto, Die

LEMMA UnsentEffect ==
  ASSUME NEW Label, WireTypeOK(Label), NEW x \in Side,
         NEW from, NEW to, Unsent(x, from, to)
  PROVE  /\ pc[x] = from /\ pc'[x] = to /\ ~down[Peer(x)]
         /\ pc'[Peer(x)] = pc[Peer(x)]
         /\ chan' = chan /\ got' = got
BY PeerProperties DEF Unsent, WireTypeOK, Goto

\* A read() with room for all that has arrived takes all of it.
LEMMA PromptRead ==
  ASSUME "fragment" \notin Faults,
         chan \in [Side -> Seq(Byte)], NEW x \in Side,
         NEW limit \in Nat, Len(chan[x]) <= limit,
         NEW n \in ReadSizes(x, limit)
  PROVE  /\ chan[x] # <<>>
         /\ n = Len(chan[x])
         /\ Chunk(x, n) = chan[x]
         /\ SubSeq(chan[x], n + 1, Len(chan[x])) = <<>>
<1>1. chan[x] \in Seq(Byte) /\ Len(chan[x]) \in Nat
  BY LenProperties
<1>2. chan[x] # <<>> /\ n = Len(chan[x])
  BY <1>1 DEF ReadSizes, Smaller
<1>3. Chunk(x, n) = chan[x]
  BY <1>1, <1>2, SubSeqFull DEF Chunk
<1>4. SubSeq(chan[x], n + 1, Len(chan[x])) = <<>>
  BY <1>1, <1>2, SubSeqEmpty
<1> QED
  BY <1>2, <1>3, <1>4

\* A gathering loop that finds exactly what it asks for is done in one read.
LEMMA GathersWhole ==
  ASSUME NEW Label, WireTypeOK(Label), "fragment" \notin Faults,
         NEW x \in Side, NEW size \in Nat, size <= BUFSIZE,
         got[x] = <<>>, chan[x] = <<>> \/ Len(chan[x]) = size,
         NEW n \in ReadSizes(x, BUFSIZE), Gathers(x, n, size)
  PROVE  /\ chan[x] # <<>>
         /\ Len(got[x] \o Chunk(x, n)) = size
         /\ SubSeq(got[x] \o Chunk(x, n), 1, size) = chan[x]
         /\ got' = got
         /\ chan' = [chan EXCEPT ![x] = <<>>]
<1>1. /\ chan \in [Side -> Seq(Byte)] /\ got \in [Side -> Seq(Byte)]
      /\ chan[x] \in Seq(Byte) /\ Len(chan[x]) <= BUFSIZE
  <2>1. CASE chan[x] = <<>>
    BY <2>1, BufsizeAssumption DEF PROTO_NAME_LENGTH, WireTypeOK
  <2>2. CASE Len(chan[x]) = size
    BY <2>2 DEF WireTypeOK
  <2> QED
    BY <2>1, <2>2
<1>2. /\ chan[x] # <<>> /\ Chunk(x, n) = chan[x]
      /\ SubSeq(chan[x], n + 1, Len(chan[x])) = <<>>
  BY <1>1, PromptRead, BufsizeAssumption
<1>3. got[x] \o Chunk(x, n) = chan[x] /\ Len(chan[x]) = size
  BY <1>1, <1>2, ConcatEmptySeq
<1>4. SubSeq(chan[x], 1, size) = chan[x]
  BY <1>1, <1>3, SubSeqFull
<1>5. got' = [got EXCEPT ![x] = <<>>]
  <2>1. ~(size < size)
    OBVIOUS
  <2> QED
    BY <1>3, <2>1 DEF Gathers
<1>6. chan' = [chan EXCEPT ![x] = <<>>]
  BY <1>2 DEF Gathers, Take
<1> QED
  BY <1>1, <1>2, <1>3, <1>4, <1>5, <1>6

\* proto_expect_command, when there is at most one command to read.
LEMMA ExpectEffect ==
  ASSUME NEW Label, WireTypeOK(Label), "fragment" \notin Faults,
         NEW x \in Side, NEW from, NEW command, NEW hit, NEW miss,
         got[x] = <<>>, chan[x] = <<>> \/ Len(chan[x]) = CTRL_SIZE,
         Expect(x, from, command, hit, miss)
  PROVE  /\ pc[x] = from
         /\ pc'[Peer(x)] = pc[Peer(x)]
         /\ chan'[Peer(x)] = chan[Peer(x)]
         /\ got' = got
         /\ chan'[x] = <<>>
         /\ \/ /\ chan[x] # <<>>
               /\ pc'[x] = IF chan[x] = command THEN hit ELSE miss
            \/ /\ chan[x] = <<>> /\ AtEOF(x) /\ pc'[x] = "spinning"
            \/ /\ chan[x] = <<>> /\ pc'[x] = "failed"
<1>1. /\ chan \in [Side -> Seq(Byte)] /\ got \in [Side -> Seq(Byte)]
      /\ pc \in [Side -> Label] /\ pc[x] = from
      /\ CTRL_SIZE \in Nat /\ CTRL_SIZE <= BUFSIZE
  <2>1. pc[x] = from
    BY DEF Expect, Gather
  <2>2. CTRL_SIZE \in Nat /\ CTRL_SIZE <= BUFSIZE
    BY BufsizeAssumption DEF CTRL_SIZE, PROTO_NAME_LENGTH
  <2> QED
    BY <2>1, <2>2 DEF WireTypeOK
<1>2. ASSUME NEW n \in ReadSizes(x, BUFSIZE), Gathers(x, n, CTRL_SIZE),
             Len(got[x] \o Chunk(x, n)) >= CTRL_SIZE =>
               LET bytes == SubSeq(got[x] \o Chunk(x, n), 1, CTRL_SIZE)
               IN  Goto(x, IF bytes = command THEN hit ELSE miss)
      PROVE  /\ pc'[Peer(x)] = pc[Peer(x)]
             /\ chan'[Peer(x)] = chan[Peer(x)]
             /\ got' = got
             /\ chan'[x] = <<>>
             /\ chan[x] # <<>>
             /\ pc'[x] = IF chan[x] = command THEN hit ELSE miss
  <2>1. /\ chan[x] # <<>> /\ Len(got[x] \o Chunk(x, n)) = CTRL_SIZE
        /\ SubSeq(got[x] \o Chunk(x, n), 1, CTRL_SIZE) = chan[x]
        /\ got' = got /\ chan' = [chan EXCEPT ![x] = <<>>]
    BY <1>1, <1>2, GathersWhole
  <2>2. CTRL_SIZE >= CTRL_SIZE
    BY DEF CTRL_SIZE
  <2>3. Goto(x, IF chan[x] = command THEN hit ELSE miss)
    BY <1>2, <2>1, <2>2
  <2> QED
    BY <1>1, <2>1, <2>3, PeerProperties DEF Goto
<1>3. CASE AtEOF(x) /\ Goto(x, "spinning") /\ UNCHANGED <<chan, got>>
  BY <1>1, <1>3, PeerProperties DEF Goto, AtEOF
<1>4. CASE Broken(x) /\ Die(x)
  BY <1>1, <1>4, PeerProperties DEF Goto, Broken, Die
<1>5. ASSUME NEW n \in ReadSizes(x, BUFSIZE),
             LET all == got[x] \o Chunk(x, n)
             IN  /\ Take(x, n)
                 /\ IF Len(all) < CTRL_SIZE
                    THEN /\ got' = [got EXCEPT ![x] = all]
                         /\ UNCHANGED <<pc, dropped>>
                    ELSE /\ got' = [got EXCEPT ![x] = <<>>]
                         /\ dropped' = [dropped EXCEPT ![x] = @ + Len(all) - CTRL_SIZE]
                         /\ Goto(x, IF SubSeq(all, 1, CTRL_SIZE) = command
                                    THEN hit ELSE miss)
      PROVE  /\ Gathers(x, n, CTRL_SIZE)
             /\ Len(got[x] \o Chunk(x, n)) >= CTRL_SIZE =>
                  LET bytes == SubSeq(got[x] \o Chunk(x, n), 1, CTRL_SIZE)
                  IN  Goto(x, IF bytes = command THEN hit ELSE miss)
  <2>1. Len(got[x] \o Chunk(x, n)) \in Nat
    BY <1>1, ReadSplits, BufsizeAssumption, ConcatProperties, LenProperties
  <2> QED
    BY <1>5, <2>1 DEF Gathers, CTRL_SIZE
<1> QED
  BY <1>1, <1>2, <1>3, <1>4, <1>5 DEF Expect, Gather

-----------------------------------------------------------------------------
(***************************************************************************)
(* The calls keep DownMeansExited.                                         *)
(***************************************************************************)
LEMMA SendDown ==
  ASSUME NEW Label, WireTypeOK(Label), DownMeansExited, NEW x \in Side,
         NEW from, from \notin Exited, NEW bytes, NEW to, Send(x, from, bytes, to)
  PROVE  DownMeansExited'
BY DEF Send, WireTypeOK, DownMeansExited, Goto, Die

LEMMA UnsentDown ==
  ASSUME NEW Label, WireTypeOK(Label), DownMeansExited, NEW x \in Side,
         NEW from, from \notin Exited, NEW to, Unsent(x, from, to)
  PROVE  DownMeansExited'
BY DEF Unsent, WireTypeOK, DownMeansExited, Goto

LEMMA WriteDown ==
  ASSUME NEW Label, WireTypeOK(Label), DownMeansExited, NEW x \in Side,
         NEW from, from \notin Exited, NEW bytes, NEW to, Write(x, from, bytes, to)
  PROVE  DownMeansExited'
BY SendDown, UnsentDown DEF Write

LEMMA ExpectDown ==
  ASSUME NEW Label, WireTypeOK(Label), DownMeansExited, NEW x \in Side,
         NEW from, from \notin Exited, NEW command, NEW hit, NEW miss,
         Expect(x, from, command, hit, miss)
  PROVE  DownMeansExited'
BY DEF Expect, Gather, Take, WireTypeOK, DownMeansExited, Goto, Die

LEMMA GoodbyeDown ==
  ASSUME NEW Label, WireTypeOK(Label), DownMeansExited, NEW x \in Side,
         Goodbye(x)
  PROVE  DownMeansExited'
<1>1. \A reason \in DOMAIN GoodbyeCode : reason \notin Exited
  BY DEF GoodbyeCode, Exited
<1>2. CASE Shutdown(x, "leaving", "failed")
  BY <1>2 DEF Shutdown, WireTypeOK, DownMeansExited, Goto, Exited
<1> QED
  BY <1>1, <1>2, SendDown DEF Goodbye

LEMMA FaultDown ==
  ASSUME NEW Label, WireTypeOK(Label), DownMeansExited,
         Reset \/ KillClient \/ KillServer
  PROVE  DownMeansExited'
BY DEF Reset, KillClient, KillServer, ExitOpen, Die, Goto, Side, WireTypeOK,
       DownMeansExited, Exited
=============================================================================
