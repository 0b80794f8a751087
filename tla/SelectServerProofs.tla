------------------------- MODULE SelectServerProofs -------------------------
(***************************************************************************)
(* Theorems about SelectServer, for any number of clients and descriptors. *)
(***************************************************************************)
EXTENDS SelectServer, SequenceTheorems, TLAPS

LEMMA InitIInv == Init => IInv
<1> SUFFICES ASSUME Init PROVE IInv
  OBVIOUS
<1>1. sd \in Fds
  BY SelectAssumption DEF Fds
<1>2. TypeOK
  BY <1>1, SelectAssumption DEF Init, TypeOK
<1>3. Sane /\ WatchesTheOpen /\ NeverBlocks
  BY <1>1, SelectAssumption DEF Init, Sane, WatchesTheOpen, NeverBlocks
<1>4. Fresh
  <2>1. Waiting = {} /\ Served = {} /\ Len(queue) = 0
    BY SelectAssumption DEF Init, Waiting, Served
  <2> QED
    BY <2>1, SelectAssumption DEF Init, Fresh
<1> QED
  BY <1>2, <1>3, <1>4 DEF IInv

LEMMA NextTypeOK ==
  ASSUME IInv, [Next]_vars
  PROVE  TypeOK'
<1>0. TypeOK /\ Sane
  BY DEF IInv
<1>1. ASSUME NEW c \in Clients, Connect(c) \/ SendByte(c) \/ Leave(c) PROVE TypeOK'
  <2>1. Append(queue, c) \in Seq(Clients)
    BY <1>0 DEF TypeOK
  <2> QED
    <3>1. CASE Connect(c)
      BY <1>0, <2>1, <3>1 DEF Connect, server, TypeOK
    <3>2. CASE SendByte(c)
      <4>1. sent[c] + 1 \in 0..MaxSent
        BY <1>0, <3>2, SelectAssumption DEF SendByte, TypeOK
      <4> QED
        BY <1>0, <3>2, <4>1 DEF SendByte, server, TypeOK
    <3>3. CASE Leave(c)
      BY <1>0, <3>3 DEF Leave, server, TypeOK
    <3> QED
      BY <1>1, <3>1, <3>2, <3>3
<1>2. CASE Select
  BY <1>0, <1>2 DEF Select, Selected, TypeOK
<1>3. ASSUME NEW d \in Fds, Accept(d) PROVE TypeOK'
  <2>1. Head(queue) \in Clients /\ Tail(queue) \in Seq(Clients)
    BY <1>0, <1>3 DEF Accept, TypeOK
  <2> QED
    BY <1>0, <1>3, <2>1 DEF Accept, AcceptInto, At, TypeOK
<1>4. ASSUME NEW d \in Fds, ReadData(d) PROVE TypeOK'
  <2> DEFINE c == table[d]
             n == IF sent[c] - heard[c] < BUFSIZE THEN sent[c] - heard[c] ELSE BUFSIZE - 1
  <2>1. /\ c \in Clients /\ sent[c] \in 0..MaxSent /\ heard[c] \in Nat
        /\ heard[c] + n \in 0..MaxSent
    BY <1>0, <1>4, SelectAssumption DEF ReadData, TypeOK
  <2>2. heard' = [heard EXCEPT ![c] = heard[c] + n]
    BY <1>4 DEF ReadData
  <2> HIDE DEF c, n
  <2> QED
    BY <1>0, <1>4, <2>1, <2>2 DEF ReadData, At, TypeOK
<1>5. ASSUME NEW d \in Fds, AcceptFails(d) \/ ReadEnd(d) \/ ReadFails(d) PROVE TypeOK'
  BY <1>0, <1>5 DEF AcceptFails, ReadEnd, ReadFails, At, TypeOK
<1>6. CASE PassEnds \/ UNCHANGED vars
  BY <1>0, <1>6 DEF PassEnds, vars, TypeOK
<1> QED
  BY <1>1, <1>2, <1>3, <1>4, <1>5, <1>6 DEF Next, Server

LEMMA NextSane ==
  ASSUME IInv, [Next]_vars
  PROVE  Sane'
<1>0. TypeOK /\ Sane /\ WatchesTheOpen
  BY DEF IInv
<1>1. ASSUME NEW c \in Clients, Connect(c) \/ SendByte(c) \/ Leave(c) PROVE Sane'
  <2>1. UNCHANGED <<table, active, ready, heard>>
    BY <1>1 DEF Connect, SendByte, Leave, server
  <2>2. \A x \in Clients : heard[x] <= sent'[x]
    <3>1. ASSUME sent' = sent PROVE \A x \in Clients : heard[x] <= sent'[x]
      BY <1>0, <3>1 DEF Sane
    <3>2. CASE SendByte(c)
      BY <1>0, <3>2, SelectAssumption DEF SendByte, TypeOK, Sane
    <3> QED
      BY <1>1, <3>1, <3>2 DEF Connect, Leave
  <2> QED
    BY <1>0, <2>1, <2>2 DEF Sane
<1>2. CASE Select
  <2>1. ready' \subseteq active /\ UNCHANGED <<table, active, sent, heard>>
    BY <1>0, <1>2 DEF Select, Selected, Sane
  <2> QED
    BY <1>0, <2>1 DEF Sane
<1>3. ASSUME NEW d \in Fds, Accept(d) PROVE Sane'
  <2>1. Head(queue) \in Clients
    BY <1>0, <1>3 DEF Accept, TypeOK
  <2>2. PICK new \in Fds : table[new] = Free /\ AcceptInto(new)
    BY <1>3 DEF Accept
  <2> QED
    BY <1>0, <1>3, <2>1, <2>2, SelectAssumption DEF Accept, AcceptInto, At, TypeOK, Sane
<1>4. ASSUME NEW d \in Fds, ReadData(d) PROVE Sane'
  <2> DEFINE c == table[d]
             n == IF sent[c] - heard[c] < BUFSIZE THEN sent[c] - heard[c] ELSE BUFSIZE - 1
  <2>1. c \in Clients /\ heard[c] + n <= sent[c]
    BY <1>0, <1>4, SelectAssumption DEF ReadData, TypeOK
  <2>2. heard' = [heard EXCEPT ![c] = heard[c] + n]
    BY <1>4 DEF ReadData
  <2> HIDE DEF c, n
  <2> QED
    BY <1>0, <1>4, <2>1, <2>2 DEF ReadData, At, TypeOK, Sane
<1>5. ASSUME NEW d \in Fds, AcceptFails(d) \/ ReadEnd(d) PROVE Sane'
  BY <1>0, <1>5 DEF AcceptFails, ReadEnd, At, Sane
<1>6. ASSUME NEW d \in Fds, ReadFails(d) PROVE Sane'
  BY <1>0, <1>6, SelectAssumption DEF ReadFails, At, TypeOK, Sane
<1>7. CASE PassEnds \/ UNCHANGED vars
  BY <1>0, <1>7 DEF PassEnds, vars, Sane
<1> QED
  BY <1>1, <1>2, <1>3, <1>4, <1>5, <1>6, <1>7 DEF Next, Server

LEMMA NextFresh ==
  ASSUME IInv, [Next]_vars
  PROVE  Fresh'
<1>0. TypeOK /\ Sane /\ Fresh /\ queue \in Seq(Clients)
  BY DEF IInv, TypeOK
<1>1. ASSUME NEW c \in Clients, Connect(c) PROVE Fresh'
  <2>1. /\ Len(queue') = Len(queue) + 1 /\ Len(queue) \in Nat
        /\ queue'[Len(queue) + 1] = c
        /\ \A i \in 1..Len(queue) : queue'[i] = queue[i]
    BY <1>0, <1>1, AppendProperties, LenProperties DEF Connect
  <2>2. c \notin Waiting \cup Served
    BY <1>0, <1>1 DEF Connect, Fresh
  <2>3. \A i \in 1..Len(queue) : queue[i] # c
    BY <2>2 DEF Waiting
  <2>4. \A i, j \in 1..Len(queue') : queue'[i] = queue'[j] => i = j
    BY <1>0, <2>1, <2>3 DEF Fresh
  <2>5. Waiting' = Waiting \cup {c}
    <3>1. Len(queue) + 1 \in 1..(Len(queue) + 1)
      BY <2>1
    <3> QED
      BY <2>1, <3>1 DEF Waiting
  <2>6. table' = table /\ Served' = Served /\ end' = [end EXCEPT ![c] = "open"]
    BY <1>1 DEF Connect, server, Served
  <2>7. \A d \in Fds : table[d] # c
    BY <2>2 DEF Served
  <2>8. \A x \in Waiting' \cup Served' : end'[x] # "none"
    <3> SUFFICES ASSUME NEW x \in Waiting' \cup Served' PROVE end'[x] # "none"
      OBVIOUS
    <3>1. CASE x = c
      BY <1>0, <2>6, <3>1 DEF TypeOK
    <3>2. CASE x # c
      <4>1. x \in Waiting \cup Served
        BY <2>5, <2>6, <3>2
      <4>2. end'[x] = end[x]
        BY <1>0, <2>6, <3>2 DEF TypeOK
      <4> QED
        BY <1>0, <4>1, <4>2 DEF Fresh
    <3> QED
      BY <3>1, <3>2
  <2> QED
    BY <1>0, <2>4, <2>5, <2>6, <2>7, <2>8 DEF Fresh
<1>2. ASSUME UNCHANGED <<table, queue>>, \A c \in Clients : end[c] # "none" => end'[c] # "none"
      PROVE  Fresh'
  <2>1. Waiting' = Waiting /\ Served' = Served /\ Waiting \cup Served \subseteq Clients
    <3>1. \A i \in 1..Len(queue) : queue[i] \in Clients
      BY <1>0
    <3> QED
      BY <1>2, <3>1 DEF Waiting, Served
  <2> QED
    BY <1>0, <1>2, <2>1 DEF Fresh
<1>3. ASSUME NEW c \in Clients, SendByte(c) \/ Leave(c) PROVE Fresh'
  <2>1. UNCHANGED <<table, queue>> /\ \A x \in Clients : end[x] # "none" => end'[x] # "none"
    BY <1>0, <1>3 DEF SendByte, Leave, server, TypeOK
  <2> QED
    BY <1>2, <2>1
<1>4. ASSUME NEW d \in Fds, Accept(d) PROVE Fresh'
  <2>1. PICK new \in Fds : table[new] = Free /\ AcceptInto(new)
    BY <1>4 DEF Accept
  <2>2. /\ Head(queue) = queue[1] /\ queue[1] \in Clients
        /\ queue' = Tail(queue)
        /\ Len(queue') = Len(queue) - 1 /\ Len(queue) \in Nat \ {0}
        /\ \A i \in 1..Len(queue') : i + 1 \in 1..Len(queue) /\ queue'[i] = queue[i + 1]
    BY <1>0, <1>4 DEF Accept
  <2>3. 1 \in 1..Len(queue) /\ queue[1] \in Waiting
    BY <2>2 DEF Waiting
  <2>4. table' = [table EXCEPT ![new] = queue[1]] /\ end' = end
    BY <1>4, <2>1, <2>2 DEF Accept, AcceptInto
  <2>5. \A i, j \in 1..Len(queue') : queue'[i] = queue'[j] => i = j
    BY <1>0, <2>2 DEF Fresh
  <2>6. Waiting' \subseteq Waiting /\ queue[1] \notin Waiting'
    <3>1. \A i \in 1..Len(queue') : queue'[i] \in Waiting /\ queue'[i] # queue[1]
      BY <1>0, <2>2, <2>3 DEF Waiting, Fresh
    <3> QED
      BY <3>1 DEF Waiting
  <2>7. /\ table'[new] = queue[1]
        /\ \A d2 \in Fds : d2 # new => table'[d2] = table[d2] /\ table[d2] # queue[1]
    BY <1>0, <2>3, <2>4 DEF TypeOK, Fresh
  <2>8. Served' \subseteq Served \cup {queue[1]}
    BY <2>7 DEF Served
  <2> QED
    BY <1>0, <2>3, <2>4, <2>5, <2>6, <2>7, <2>8 DEF Fresh
<1>5. ASSUME NEW d \in Fds, AcceptFails(d) \/ ReadData(d) \/ ReadEnd(d) PROVE Fresh'
  BY <1>2, <1>5 DEF AcceptFails, ReadData, ReadEnd
<1>6. ASSUME NEW d \in Fds, ReadFails(d) PROVE Fresh'
  <2>1. UNCHANGED <<queue, end>> /\ table' = [table EXCEPT ![d] = Free]
    BY <1>6 DEF ReadFails
  <2>2. Served' \subseteq Served /\ Waiting' = Waiting /\ Waiting \subseteq Clients
    <3>1. \A i \in 1..Len(queue) : queue[i] \in Clients
      BY <1>0
    <3> QED
      BY <1>0, <2>1, <3>1, SelectAssumption DEF Served, Waiting, TypeOK
  <2>3. \A e \in Fds : table'[e] = table[e] \/ table'[e] = Free
    BY <1>0, <2>1 DEF TypeOK
  <2> QED
    BY <1>0, <2>1, <2>2, <2>3, SelectAssumption DEF Fresh
<1>7. CASE Select \/ PassEnds \/ UNCHANGED vars
  BY <1>2, <1>7 DEF Select, PassEnds, vars
<1> QED
  BY <1>1, <1>3, <1>4, <1>5, <1>6, <1>7 DEF Next, Server

LEMMA NextWatches ==
  ASSUME IInv, [Next]_vars
  PROVE  WatchesTheOpen'
<1>0. TypeOK /\ Sane /\ WatchesTheOpen
  BY DEF IInv
<1>1. ASSUME NEW c \in Clients, Connect(c) \/ SendByte(c) \/ Leave(c) PROVE WatchesTheOpen'
  BY <1>0, <1>1 DEF Connect, SendByte, Leave, server, WatchesTheOpen
<1>2. CASE Select
  BY <1>0, <1>2 DEF Select, WatchesTheOpen
<1>3. ASSUME NEW d \in Fds, Accept(d) PROVE WatchesTheOpen'
  <2>1. Head(queue) \in Clients
    BY <1>0, <1>3 DEF Accept, TypeOK
  <2>2. PICK new \in Fds : table[new] = Free /\ AcceptInto(new)
    BY <1>3 DEF Accept
  <2> QED
    BY <1>0, <1>3, <2>1, <2>2, SelectAssumption DEF Accept, AcceptInto, TypeOK, WatchesTheOpen
<1>4. ASSUME NEW d \in Fds, ReadData(d) \/ AcceptFails(d) \/ ReadEnd(d) PROVE WatchesTheOpen'
  BY <1>0, <1>4 DEF ReadData, AcceptFails, ReadEnd, WatchesTheOpen
<1>5. ASSUME NEW d \in Fds, ReadFails(d) PROVE WatchesTheOpen'
  BY <1>0, <1>5 DEF ReadFails, TypeOK, WatchesTheOpen
<1>6. CASE PassEnds \/ UNCHANGED vars
  BY <1>0, <1>6 DEF PassEnds, vars, WatchesTheOpen
<1> QED
  BY <1>1, <1>2, <1>3, <1>4, <1>5, <1>6 DEF Next, Server

\* Only the server takes from a connection what makes it readable, and it has
\* then come past its descriptor.
LEMMA NextNeverBlocks ==
  ASSUME IInv, [Next]_vars
  PROVE  NeverBlocks'
<1>0. TypeOK /\ Sane /\ Fresh /\ WatchesTheOpen /\ NeverBlocks
  BY DEF IInv
<1>1. ASSUME NEW c \in Clients, Connect(c) \/ SendByte(c) \/ Leave(c) PROVE NeverBlocks'
  <2> SUFFICES ASSUME NEW d \in ready PROVE Readable(d)'
    BY <1>1 DEF Connect, SendByte, Leave, server, NeverBlocks
  <2>1. Readable(d) /\ d \in Fds
    BY <1>0 DEF NeverBlocks, TypeOK
  <2>2. CASE Connect(c)
    <3>1. queue' # <<>>
      <4>1. queue \in Seq(Clients) /\ queue' = Append(queue, c)
        BY <1>0, <2>2 DEF TypeOK, Connect
      <4>2. Len(queue') = Len(queue) + 1 /\ Len(queue) \in Nat
        BY <4>1, AppendProperties, LenProperties
      <4>3. Len(<<>>) = 0
        OBVIOUS
      <4> QED
        BY <4>2, <4>3
    <3>2. UNCHANGED <<table, sent, heard>>
      BY <2>2 DEF Connect, server
    <3>3. \A x \in Clients : end[x] \in {"fin", "rst"} => end'[x] = end[x]
      BY <1>0, <2>2 DEF Connect, TypeOK
    <3> QED
      BY <2>1, <3>1, <3>2, <3>3 DEF Readable
  <2>3. CASE SendByte(c)
    BY <1>0, <2>1, <2>3, SelectAssumption DEF SendByte, server, Readable, TypeOK
  <2>4. CASE Leave(c)
    BY <1>0, <2>1, <2>4 DEF Leave, server, Readable, TypeOK
  <2> QED
    BY <1>1, <2>2, <2>3, <2>4
<1>2. CASE Select
  BY <1>0, <1>2 DEF Select, Selected, NeverBlocks, Readable
<1>3. ASSUME NEW d \in Fds, Accept(d) PROVE NeverBlocks'
  <2> SUFFICES ASSUME NEW e \in ready \ {d} PROVE Readable(e)'
    BY <1>3 DEF Accept, At, NeverBlocks
  <2>1. PICK new \in Fds : table[new] = Free /\ AcceptInto(new)
    BY <1>3 DEF Accept
  <2>2. /\ e \in Fds /\ Readable(e) /\ table[e] # Listener /\ e # new
    BY <1>0, <1>3, <2>1 DEF Accept, TypeOK, Sane, WatchesTheOpen, NeverBlocks
  <2>3. table'[e] = table[e] /\ UNCHANGED <<sent, heard, end>>
    BY <1>0, <1>3, <2>1, <2>2 DEF Accept, AcceptInto, TypeOK
  <2> QED
    BY <2>2, <2>3 DEF Readable
<1>4. ASSUME NEW d \in Fds, ReadData(d) PROVE NeverBlocks'
  <2> SUFFICES ASSUME NEW e \in ready \ {d} PROVE Readable(e)'
    BY <1>4 DEF ReadData, At, NeverBlocks
  <2>1. /\ e \in Fds /\ Readable(e) /\ d # e
    BY <1>0 DEF TypeOK, NeverBlocks
  <2>2. table[e] \in Clients /\ table[e] # table[d] => heard'[table[e]] = heard[table[e]]
    BY <1>0, <1>4 DEF ReadData, TypeOK
  <2>3. table[e] \in Clients => table[e] # table[d]
    BY <1>0, <1>4, <2>1 DEF Fresh
  <2> QED
    BY <1>4, <2>1, <2>2, <2>3 DEF ReadData, Readable
<1>5. ASSUME NEW d \in Fds, AcceptFails(d) \/ ReadEnd(d) PROVE NeverBlocks'
  BY <1>0, <1>5 DEF AcceptFails, ReadEnd, At, NeverBlocks, Readable
<1>6. ASSUME NEW d \in Fds, ReadFails(d) PROVE NeverBlocks'
  BY <1>0, <1>6 DEF ReadFails, At, TypeOK, NeverBlocks, Readable
<1>7. CASE PassEnds \/ UNCHANGED vars
  BY <1>0, <1>7 DEF PassEnds, vars, NeverBlocks, Readable
<1> QED
  BY <1>1, <1>2, <1>3, <1>4, <1>5, <1>6, <1>7 DEF Next, Server

(***************************************************************************)
(* The invariant of select_ok, for every number of clients and any limit   *)
(* of descriptors up to FD_SETSIZE.                                        *)
(***************************************************************************)
THEOREM SelectIInv == Spec => []IInv
<1>1. IInv /\ [Next]_vars => IInv'
  BY NextTypeOK, NextSane, NextFresh, NextWatches, NextNeverBlocks DEF IInv
<1> QED
  BY InitIInv, <1>1, PTL DEF Spec

(***************************************************************************)
(* select() is never given a closed descriptor and no open one is left     *)
(* out, through every close and reuse of a descriptor.                     *)
(***************************************************************************)
THEOREM SelectWatchesTheOpen == Spec => []WatchesTheOpen
<1>1. IInv => WatchesTheOpen
  BY DEF IInv
<1> QED
  BY <1>1, SelectIInv, PTL

(***************************************************************************)
(* No call of a pass of the for loop blocks, however old the answer of     *)
(* select() is by then.                                                    *)
(***************************************************************************)
THEOREM SelectNeverBlocks == Spec => []NeverBlocks
<1>1. IInv => NeverBlocks
  BY DEF IInv
<1> QED
  BY <1>1, SelectIInv, PTL
=============================================================================
