------------------------ MODULE ConcurrentPutProofs ------------------------
(***************************************************************************)
(* Proofs about ConcurrentPut, for every set of sessions and names.        *)
(***************************************************************************)
EXTENDS ConcurrentPut, TLAPS

(***************************************************************************)
(* Lemmas about the contents of files.                                     *)
(***************************************************************************)
LEMMA OverwrittenLemma ==
  ASSUME NEW S, NEW file \in Seq(S), NEW s, NEW off \in Nat, NEW n \in Nat,
         Hole \in S, \A i \in Nat : <<s, i>> \in S
  PROVE  /\ Overwritten(file, s, off, n) \in Seq(S)
         /\ Len(Overwritten(file, s, off, n)) =
              IF off + n > Len(file) THEN off + n ELSE Len(file)
         /\ \A i \in 1..Len(Overwritten(file, s, off, n)) :
              Overwritten(file, s, off, n)[i] =
                IF off < i /\ i <= off + n THEN <<s, i>>
                ELSE IF i <= Len(file) THEN file[i] ELSE Hole
<1> DEFINE k == IF off + n > Len(file) THEN off + n ELSE Len(file)
           B(i) == IF off < i /\ i <= off + n THEN <<s, i>>
                   ELSE IF i <= Len(file) THEN file[i] ELSE Hole
<1>1. k \in Nat
  OBVIOUS
<1>2. \A i \in 1..k : B(i) \in S
  <2> SUFFICES ASSUME NEW i \in 1..k PROVE B(i) \in S
    OBVIOUS
  <2>1. i \in Nat
    BY <1>1
  <2>2. CASE off < i /\ i <= off + n
    BY <2>1, <2>2
  <2>3. CASE ~(off < i /\ i <= off + n) /\ i <= Len(file)
    <3>1. i \in 1..Len(file)
      BY <2>3
    <3>2. file[i] \in S
      BY <3>1
    <3> QED
      BY <2>3, <3>2
  <2>4. CASE ~(off < i /\ i <= off + n) /\ ~(i <= Len(file))
    BY <2>4
  <2> QED
    BY <2>2, <2>3, <2>4
<1>3. Overwritten(file, s, off, n) = [i \in 1..k |-> B(i)]
  BY DEF Overwritten
<1> HIDE DEF k, B
<1>4. /\ [i \in 1..k |-> B(i)] \in Seq(S)
      /\ Len([i \in 1..k |-> B(i)]) = k
      /\ \A i \in 1..k : [j \in 1..k |-> B(j)][i] = B(i)
  BY <1>1, <1>2
<1> QED
  BY <1>3, <1>4 DEF k, B

LEMMA PrefixLemma ==
  ASSUME NEW s \in Sessions, NEW n \in Nat
  PROVE  /\ Prefix(s, n) \in Seq(Byte)
         /\ Len(Prefix(s, n)) = n
         /\ \A i \in 1..n : Prefix(s, n)[i] = <<s, i>>
<1>1. \A i \in 1..n : <<s, i>> \in Byte
  BY DEF Byte
<1> QED
  BY <1>1 DEF Prefix

LEMMA PrefixGrows ==
  ASSUME NEW s \in Sessions, NEW m \in Nat, NEW n \in Nat
  PROVE  Overwritten(Prefix(s, m), s, m, n) = Prefix(s, m + n)
<1>1. /\ Prefix(s, m) \in Seq(Byte)
      /\ Len(Prefix(s, m)) = m
      /\ \A i \in 1..m : Prefix(s, m)[i] = <<s, i>>
  BY PrefixLemma
<1>2. \A i \in 1..(m + n) :
        (IF m < i /\ i <= m + n THEN <<s, i>>
         ELSE IF i <= m THEN Prefix(s, m)[i] ELSE Hole) = <<s, i>>
  BY <1>1
<1>3. (IF m + n > m THEN m + n ELSE m) = m + n
  OBVIOUS
<1>4. Overwritten(Prefix(s, m), s, m, n) = [i \in 1..(m + n) |-> <<s, i>>]
  BY <1>1, <1>2, <1>3 DEF Overwritten
<1> QED
  BY <1>4 DEF Prefix

LEMMA EmptyPrefix == ASSUME NEW s PROVE Prefix(s, 0) = <<>>
<1>1. 1..0 = {}
  OBVIOUS
<1> QED
  BY <1>1 DEF Prefix
-----------------------------------------------------------------------------
(***************************************************************************)
(* The inductive invariant.                                                *)
(***************************************************************************)
LEMMA InitIInv == Init => IInv
<1> SUFFICES ASSUME Init PROVE IInv
  OBVIOUS
<1>1. TypeOK
  <2>1. ASSUME NEW f \in Filenames PROVE OldDisk[f] \in Seq(Byte)
    <3>1. OldDisk[f] \in Seq({OldByte})
      BY ConcurrentAssumption
    <3> QED
      BY <3>1 DEF Byte
  <2>2. OldDisk \in [Filenames -> Seq(Byte)]
    BY <2>1, ConcurrentAssumption
  <2> QED
    BY <2>2, ConcurrentAssumption DEF Init, TypeOK, Label
<1>2. Alone /\ Stored
  BY DEF Init, Alone, Stored, Undisturbed
<1>3. Counted
  BY DEF Init, Counted
<1> QED
  BY <1>1, <1>2, <1>3 DEF IInv

\* What a write leaves in the file is a sequence of bytes.
LEMMA WriteTypeOK ==
  ASSUME IInv, NEW s \in Sessions, Write(s)
  PROVE  /\ Overwritten(disk[name[s]], s, written[s], buffered[s]) \in Seq(Byte)
         /\ written[s] + buffered[s] \in 0..(MaxSize + BUFSIZE)
<1>1. /\ name[s] \in Filenames /\ disk[name[s]] \in Seq(Byte)
      /\ written[s] \in Nat /\ buffered[s] \in Nat
      /\ filesize[s] \in 0..MaxSize
      /\ written[s] < filesize[s] /\ buffered[s] <= BUFSIZE
  BY ConcurrentAssumption DEF IInv, TypeOK, Counted, Write
<1>2. Hole \in Byte /\ \A i \in Nat : <<s, i>> \in Byte
  BY DEF Byte
<1>3. Overwritten(disk[name[s]], s, written[s], buffered[s]) \in Seq(Byte)
  BY <1>1, <1>2, OverwrittenLemma
<1> QED
  BY <1>1, <1>3, ConcurrentAssumption

LEMMA NextTypeOK ==
  ASSUME IInv, [Next]_vars
  PROVE  TypeOK'
<1> USE DEF Goto
<1>0. TypeOK
  BY DEF IInv
<1>1. ASSUME NEW s \in Sessions, Open(s) PROVE TypeOK'
  <2>1. <<>> \in Seq(Byte)
    OBVIOUS
  <2>2. disturbed' \subseteq Sessions
    BY <1>0, <1>1 DEF Open, TypeOK, Opened
  <2> QED
    BY <1>0, <1>1, <2>1, <2>2 DEF Open, TypeOK, Label
<1>2. ASSUME NEW s \in Sessions, Read(s) PROVE TypeOK'
  BY <1>0, <1>2, ConcurrentAssumption DEF Read, TypeOK, Label
<1>3. ASSUME NEW s \in Sessions, Write(s) PROVE TypeOK'
  <2> DEFINE file == Overwritten(disk[name[s]], s, written[s], buffered[s])
             w == written[s] + buffered[s]
  <2>1. file \in Seq(Byte) /\ w \in 0..(MaxSize + BUFSIZE)
    BY <1>3, WriteTypeOK
  <2>2. /\ disk' = [disk EXCEPT ![name[s]] = file]
        /\ written' = [written EXCEPT ![s] = w]
        /\ buffered' = [buffered EXCEPT ![s] = 0]
        /\ pc' = [pc EXCEPT ![s] = "read"]
        /\ UNCHANGED <<name, filesize, disturbed>>
    BY <1>0, <1>3 DEF Write, TypeOK
  <2> HIDE DEF file, w
  <2> QED
    BY <1>0, <2>1, <2>2, ConcurrentAssumption DEF TypeOK, Label
<1>4. ASSUME NEW s \in Sessions, Report(s) PROVE TypeOK'
  BY <1>0, <1>4 DEF Report, TypeOK, Label
<1>5. ASSUME NEW s \in Sessions, Fault(s) PROVE TypeOK'
  BY <1>0, <1>5 DEF Fault, OpenFails, ClientGone, WriteFails, Kill, TypeOK, Label
<1>6. CASE UNCHANGED vars
  BY <1>0, <1>6 DEF vars, TypeOK
<1> QED
  BY <1>1, <1>2, <1>3, <1>4, <1>5, <1>6 DEF Next, Child

\* No step but Open adds a session to those that write or are undisturbed.
LEMMA NextAlone ==
  ASSUME IInv, [Next]_vars
  PROVE  Alone'
<1> USE DEF Goto
<1>0. TypeOK /\ Alone
  BY DEF IInv
<1>1. ASSUME NEW s \in Sessions, Open(s) PROVE Alone'
  <2> SUFFICES ASSUME NEW u \in Undisturbed', NEW t \in Writing', name'[t] = name'[u]
               PROVE  t = u
    BY DEF Alone
  <2>1. /\ u \in Sessions /\ t \in Sessions /\ u \notin disturbed'
        /\ name[t] = name[u] /\ pc[s] = "open"
        /\ u # s => u \in Undisturbed
        /\ t # s => t \in Writing
    BY <1>0, <1>1 DEF Open, TypeOK, Undisturbed, Writing
  <2>2. CASE u # s
    <3>1. u \in Opened(name[u])
      BY <2>1, <2>2 DEF Undisturbed, Opened
    <3>2. name[u] # name[s]
      BY <1>1, <2>1, <3>1 DEF Open
    <3> QED
      BY <1>0, <2>1, <2>2, <3>2 DEF Alone
  <2>3. CASE u = s /\ t # s
    <3>1. t \in Opened(name[s]) \cap Writing
      BY <2>1, <2>3 DEF Writing, Opened
    <3>2. s \in disturbed'
      BY <1>1, <3>1 DEF Open
    <3> QED
      BY <2>1, <2>3, <3>2
  <2> QED
    BY <2>2, <2>3
<1>2. ASSUME Writing' \subseteq Writing, Undisturbed' \subseteq Undisturbed, name' = name
      PROVE  Alone'
  BY <1>0, <1>2 DEF Alone
<1>3. ASSUME NEW s \in Sessions, Read(s) \/ Write(s) \/ Report(s) \/ Fault(s)
      PROVE  Alone'
  <2>1. Writing' \subseteq Writing /\ Undisturbed' \subseteq Undisturbed /\ name' = name
    BY <1>0, <1>3 DEF Read, Write, Report, Fault, OpenFails, ClientGone, WriteFails,
                      Kill, TypeOK, Writing, Undisturbed
  <2> QED
    BY <1>2, <2>1
<1>4. CASE UNCHANGED vars
  BY <1>2, <1>4 DEF vars, Writing, Undisturbed
<1> QED
  BY <1>1, <1>3, <1>4 DEF Next, Child

\* The file of an undisturbed session is touched by that session alone.
LEMMA NextStored ==
  ASSUME IInv, [Next]_vars
  PROVE  Stored'
<1> USE DEF Goto
<1>0. TypeOK /\ Alone /\ Stored /\ Counted
  BY DEF IInv
<1>1. ASSUME NEW s \in Sessions, Open(s) PROVE Stored'
  <2> SUFFICES ASSUME NEW u \in Undisturbed'
               PROVE  disk'[name'[u]] = Prefix(u, written'[u])
    BY DEF Stored
  <2>1. /\ u \in Sessions /\ u \notin disturbed' /\ pc[s] = "open"
        /\ u # s => u \in Undisturbed
        /\ name' = name /\ written' = written
    BY <1>0, <1>1 DEF Open, TypeOK, Undisturbed
  <2>2. CASE u # s
    <3>1. u \in Opened(name[u])
      BY <2>1, <2>2 DEF Undisturbed, Opened
    <3>2. name[u] # name[s]
      BY <1>1, <2>1, <3>1 DEF Open
    <3>3. disk'[name[u]] = disk[name[u]]
      BY <1>0, <1>1, <2>1, <3>2 DEF Open, TypeOK
    <3> QED
      BY <1>0, <2>1, <2>2, <3>3 DEF Stored
  <2>3. CASE u = s
    <3>1. disk'[name[s]] = <<>>
      BY <1>0, <1>1 DEF Open, TypeOK
    <3>2. written[s] = 0
      BY <1>0, <2>1 DEF Counted
    <3> QED
      BY <2>1, <2>3, <3>1, <3>2, EmptyPrefix
  <2> QED
    BY <2>2, <2>3
<1>2. ASSUME NEW s \in Sessions, Write(s) PROVE Stored'
  <2> SUFFICES ASSUME NEW u \in Undisturbed'
               PROVE  disk'[name'[u]] = Prefix(u, written'[u])
    BY DEF Stored
  <2>1. /\ u \in Undisturbed /\ u \in Sessions /\ s \in Writing /\ name' = name
    BY <1>0, <1>2 DEF Write, TypeOK, Undisturbed, Writing
  <2>2. CASE u # s
    <3>1. name[u] # name[s]
      BY <1>0, <2>1, <2>2 DEF Alone
    <3>2. disk'[name[u]] = disk[name[u]] /\ written'[u] = written[u]
      BY <1>0, <1>2, <2>1, <2>2, <3>1 DEF Write, TypeOK
    <3> QED
      BY <1>0, <2>1, <3>2 DEF Stored
  <2>3. CASE u = s
    <3>1. /\ written[s] \in Nat /\ buffered[s] \in Nat
          /\ disk'[name[s]] = Overwritten(disk[name[s]], s, written[s], buffered[s])
          /\ written'[s] = written[s] + buffered[s]
      BY <1>0, <1>2, ConcurrentAssumption DEF Write, TypeOK
    <3>2. disk[name[s]] = Prefix(s, written[s])
      BY <1>0, <2>1, <2>3 DEF Stored
    <3> QED
      BY <2>1, <2>3, <3>1, <3>2, PrefixGrows
  <2> QED
    BY <2>2, <2>3
<1>3. ASSUME Undisturbed' \subseteq Undisturbed, UNCHANGED <<name, written, disk>>
      PROVE  Stored'
  BY <1>0, <1>3 DEF Stored
<1>4. ASSUME NEW s \in Sessions, Read(s) \/ Report(s) \/ Fault(s)
      PROVE  Stored'
  <2>1. Undisturbed' \subseteq Undisturbed /\ UNCHANGED <<name, written, disk>>
    BY <1>0, <1>4 DEF Read, Report, Fault, OpenFails, ClientGone, WriteFails, Kill,
                      TypeOK, Undisturbed
  <2> QED
    BY <1>3, <2>1
<1>5. CASE UNCHANGED vars
  BY <1>3, <1>5 DEF vars, Undisturbed
<1> QED
  BY <1>1, <1>2, <1>4, <1>5 DEF Next, Child

LEMMA NextCounted ==
  ASSUME IInv, [Next]_vars
  PROVE  Counted'
<1> USE DEF Goto
<1>0. TypeOK /\ Counted
  BY DEF IInv
<1>1. ASSUME NEW s \in Sessions, Open(s) PROVE Counted'
  BY <1>0, <1>1, ConcurrentAssumption DEF Open, Counted, TypeOK
<1>2. ASSUME NEW s \in Sessions, Read(s) PROVE Counted'
  BY <1>0, <1>2, ConcurrentAssumption DEF Read, Counted, TypeOK
<1>3. ASSUME NEW s \in Sessions, Write(s) PROVE Counted'
  BY <1>0, <1>3, ConcurrentAssumption DEF Write, Counted, TypeOK
<1>4. ASSUME NEW s \in Sessions, Report(s) PROVE Counted'
  BY <1>0, <1>4, ConcurrentAssumption DEF Report, Counted, TypeOK
<1>5. ASSUME NEW s \in Sessions, Fault(s) PROVE Counted'
  BY <1>0, <1>5 DEF Fault, OpenFails, ClientGone, WriteFails, Kill, Counted, TypeOK
<1>6. CASE UNCHANGED vars
  BY <1>0, <1>6 DEF vars, Counted
<1> QED
  BY <1>1, <1>2, <1>3, <1>4, <1>5, <1>6 DEF Next, Child

(***************************************************************************)
(* The invariant of two_puts holds for any number of sessions and files:   *)
(* an undisturbed child is the only one that writes its file, the file is  *)
(* what it has written, and it says END_FILE_TRANSMISSION when that is as  *)
(* much as was declared and FILE_CUT_TO_DECLARED_SIZE when it is more      *)
(* (protocol.c:249-269), which the reads do not keep it from being.        *)
(***************************************************************************)
THEOREM ConcurrentIInv == Spec => []IInv
<1>1. IInv /\ [Next]_vars => IInv'
  BY NextTypeOK, NextAlone, NextStored, NextCounted DEF IInv
<1> QED
  BY InitIInv, <1>1, PTL DEF Spec

(***************************************************************************)
(* However many clients send at once, one that is told                     *)
(* END_FILE_TRANSMISSION and was not disturbed by another session with the *)
(* same name has its file on the server's disk, whole.                     *)
(***************************************************************************)
THEOREM ConcurrentDelivered == Spec => []UndisturbedDelivered
<1>1. IInv => UndisturbedDelivered
  <2> SUFFICES ASSUME IInv, NEW s \in Sessions \ disturbed, pc[s] = "told"
               PROVE  disk[name[s]] = Prefix(s, filesize[s])
    BY DEF UndisturbedDelivered
  <2>1. s \in Undisturbed /\ written[s] = filesize[s]
    BY DEF IInv, Counted, Undisturbed
  <2> QED
    BY <2>1 DEF IInv, Stored
<1> QED
  BY <1>1, ConcurrentIInv, PTL
(***************************************************************************)
(* Whatever children write one file at once, each byte in it is that of    *)
(* its place in some client's file, or a hole.                             *)
(***************************************************************************)
LEMMA NextBytesInPlace ==
  ASSUME IInv, BytesInPlace, [Next]_vars
  PROVE  BytesInPlace'
<1> USE DEF Goto
<1>0. TypeOK
  BY DEF IInv
<1>1. ASSUME NEW s \in Sessions, Open(s) PROVE BytesInPlace'
  <2> SUFFICES ASSUME NEW f \in Filenames, Opened(f)' # {}, NEW i \in 1..Len(disk'[f])
               PROVE  disk'[f][i] = Hole \/ \E t \in Opened(f)' : disk'[f][i] = <<t, i>>
    BY DEF BytesInPlace
  <2>1. CASE f = name[s]
    <3>1. disk'[f] = <<>>
      BY <1>0, <1>1, <2>1 DEF Open, TypeOK
    <3> QED
      BY <3>1
  <2>2. CASE f # name[s]
    <3>1. disk'[f] = disk[f] /\ Opened(f)' = Opened(f)
      BY <1>0, <1>1, <2>2 DEF Open, TypeOK, Opened
    <3> QED
      BY <3>1 DEF BytesInPlace
  <2> QED
    BY <2>1, <2>2
<1>2. ASSUME NEW s \in Sessions, Write(s) PROVE BytesInPlace'
  <2> SUFFICES ASSUME NEW f \in Filenames, Opened(f)' # {}, NEW i \in 1..Len(disk'[f])
               PROVE  disk'[f][i] = Hole \/ \E t \in Opened(f)' : disk'[f][i] = <<t, i>>
    BY DEF BytesInPlace
  <2>1. Opened(f)' = Opened(f)
    BY <1>0, <1>2 DEF Write, TypeOK, Opened
  <2>2. CASE f # name[s]
    <3>1. disk'[f] = disk[f]
      BY <1>0, <1>2, <2>2 DEF Write, TypeOK
    <3> QED
      BY <2>1, <3>1 DEF BytesInPlace
  <2>3. CASE f = name[s]
    <3>1. s \in Opened(f)
      BY <1>2, <2>3 DEF Write, Opened
    <3>2. /\ written[s] \in Nat /\ buffered[s] \in Nat /\ disk[f] \in Seq(Byte)
          /\ Hole \in Byte /\ \A j \in Nat : <<s, j>> \in Byte
          /\ disk'[f] = Overwritten(disk[f], s, written[s], buffered[s])
      BY <1>0, <1>2, <2>3, ConcurrentAssumption DEF Write, TypeOK, Byte
    <3>3. disk'[f][i] = IF written[s] < i /\ i <= written[s] + buffered[s] THEN <<s, i>>
                        ELSE IF i <= Len(disk[f]) THEN disk[f][i] ELSE Hole
      BY <3>2, OverwrittenLemma
    <3>4. i <= Len(disk[f]) => i \in 1..Len(disk[f])
      BY <3>2
    <3> QED
      BY <2>1, <3>1, <3>3, <3>4 DEF BytesInPlace
  <2> QED
    BY <2>2, <2>3
<1>3. ASSUME disk' = disk, \A f \in Filenames : Opened(f)' = Opened(f)
      PROVE  BytesInPlace'
  BY <1>3 DEF BytesInPlace
<1>4. ASSUME NEW s \in Sessions, Read(s) \/ Report(s) \/ Fault(s)
      PROVE  BytesInPlace'
  <2>1. disk' = disk /\ \A f \in Filenames : Opened(f)' = Opened(f)
    BY <1>0, <1>4 DEF Read, Report, Fault, OpenFails, ClientGone, WriteFails, Kill,
                      TypeOK, Opened
  <2> QED
    BY <1>3, <2>1
<1>5. CASE UNCHANGED vars
  BY <1>3, <1>5 DEF vars, Opened
<1> QED
  BY <1>1, <1>2, <1>4, <1>5 DEF Next, Child

(***************************************************************************)
(* Each byte of a file that several children write (protocol.c:249-254) is *)
(* at the place it has in its sender's file, or a hole.                    *)
(***************************************************************************)
THEOREM ConcurrentBytesInPlace == Spec => []BytesInPlace
<1>1. Init => BytesInPlace
  BY DEF Init, BytesInPlace, Opened
<1>2. IInv /\ BytesInPlace /\ [Next]_vars => BytesInPlace'
  BY NextBytesInPlace
<1> QED
  BY <1>1, <1>2, ConcurrentIInv, PTL DEF Spec

(***************************************************************************)
(* A file has a hole only when one of the sessions that write it was       *)
(* disturbed: its offset was past the end another one had left.            *)
(***************************************************************************)
LEMMA NextHoles ==
  ASSUME IInv, HolesOfTruncation, [Next]_vars
  PROVE  HolesOfTruncation'
<1> USE DEF Goto
<1>0. TypeOK
  BY DEF IInv
<1>1. ASSUME NEW s \in Sessions, Open(s) PROVE HolesOfTruncation'
  <2> SUFFICES ASSUME NEW f \in Filenames, NEW i \in 1..Len(disk'[f]), disk'[f][i] = Hole
               PROVE  \E t \in disturbed' : name'[t] = f
    BY DEF HolesOfTruncation
  <2>1. f # name[s]
    <3>1. disk'[name[s]] = <<>>
      BY <1>0, <1>1 DEF Open, TypeOK
    <3> QED
      BY <3>1
  <2>2. disk'[f] = disk[f]
    BY <1>0, <1>1, <2>1 DEF Open, TypeOK
  <2>3. \E t \in disturbed : name[t] = f
    BY <2>2 DEF HolesOfTruncation
  <2> QED
    BY <1>1, <2>3 DEF Open
<1>2. ASSUME NEW s \in Sessions, Write(s) PROVE HolesOfTruncation'
  <2> SUFFICES ASSUME NEW f \in Filenames, NEW i \in 1..Len(disk'[f]), disk'[f][i] = Hole
               PROVE  \E t \in disturbed' : name'[t] = f
    BY DEF HolesOfTruncation
  <2>0. name' = name /\ disturbed' = disturbed
    BY <1>2 DEF Write
  <2>1. CASE f # name[s]
    <3>1. disk'[f] = disk[f]
      BY <1>0, <1>2, <2>1 DEF Write, TypeOK
    <3> QED
      BY <2>0, <3>1 DEF HolesOfTruncation
  <2>2. CASE f = name[s] /\ s \in disturbed
    BY <2>0, <2>2
  <2>3. CASE f = name[s] /\ s \notin disturbed
    <3>1. /\ written[s] \in Nat /\ buffered[s] \in Nat /\ disk[f] \in Seq(Byte)
          /\ Hole \in Byte /\ \A j \in Nat : <<s, j>> \in Byte
          /\ disk'[f] = Overwritten(disk[f], s, written[s], buffered[s])
      BY <1>0, <1>2, <2>3, ConcurrentAssumption DEF Write, TypeOK, Byte
    <3>2. Len(disk[f]) = written[s]
      <4>1. s \in Undisturbed
        BY <1>2, <2>3 DEF Write, Undisturbed
      <4>2. disk[f] = Prefix(s, written[s])
        BY <2>3, <4>1 DEF IInv, Stored
      <4> QED
        BY <3>1, <4>2, PrefixLemma
    <3>3. /\ Len(disk'[f]) = IF written[s] + buffered[s] > Len(disk[f])
                             THEN written[s] + buffered[s] ELSE Len(disk[f])
          /\ disk'[f][i] = IF written[s] < i /\ i <= written[s] + buffered[s] THEN <<s, i>>
                           ELSE IF i <= Len(disk[f]) THEN disk[f][i] ELSE Hole
      <4> DEFINE after == Overwritten(disk[f], s, written[s], buffered[s])
      <4>1. /\ Len(after) = IF written[s] + buffered[s] > Len(disk[f])
                            THEN written[s] + buffered[s] ELSE Len(disk[f])
            /\ \A j \in 1..Len(after) :
                 after[j] = IF written[s] < j /\ j <= written[s] + buffered[s] THEN <<s, j>>
                            ELSE IF j <= Len(disk[f]) THEN disk[f][j] ELSE Hole
        BY <3>1, OverwrittenLemma
      <4>2. disk'[f] = after
        BY <3>1
      <4> HIDE DEF after
      <4> QED
        BY <4>1, <4>2
    <3>4. <<s, i>> # Hole
      BY <3>1, <3>3, ConcurrentAssumption
    <3>5. i \in 1..Len(disk[f]) /\ disk[f][i] = Hole
      BY <3>1, <3>2, <3>3, <3>4
    <3> QED
      BY <2>0, <3>5 DEF HolesOfTruncation
  <2> QED
    BY <2>1, <2>2, <2>3
<1>3. ASSUME UNCHANGED <<name, disk, disturbed>>
      PROVE  HolesOfTruncation'
  BY <1>3 DEF HolesOfTruncation
<1>4. ASSUME NEW s \in Sessions, Read(s) \/ Report(s) \/ Fault(s)
      PROVE  HolesOfTruncation'
  BY <1>3, <1>4 DEF Read, Report, Fault, OpenFails, ClientGone, WriteFails, Kill
<1>5. CASE UNCHANGED vars
  BY <1>3, <1>5 DEF vars
<1> QED
  BY <1>1, <1>2, <1>4, <1>5 DEF Next, Child

(***************************************************************************)
(* A file without a session that was disturbed has no holes: only O_TRUNC  *)
(* under a child's hand (protocol.c:220) makes them.                       *)
(***************************************************************************)
THEOREM ConcurrentHoles == Spec => []HolesOfTruncation
<1>1. Init => HolesOfTruncation
  <2> SUFFICES ASSUME Init, NEW f \in Filenames, NEW i \in 1..Len(disk[f])
               PROVE  disk[f][i] # Hole
    BY DEF HolesOfTruncation
  <2>1. disk[f] \in Seq({OldByte})
    BY ConcurrentAssumption DEF Init
  <2>2. disk[f][i] = OldByte
    BY <2>1
  <2> QED
    BY <2>2, ConcurrentAssumption
<1>2. IInv /\ HolesOfTruncation /\ [Next]_vars => HolesOfTruncation'
  BY NextHoles
<1> QED
  BY <1>1, <1>2, ConcurrentIInv, PTL DEF Spec
=============================================================================
