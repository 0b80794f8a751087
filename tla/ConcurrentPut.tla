--------------------------- MODULE ConcurrentPut ---------------------------
(***************************************************************************)
(* The children of the fork server on one disk: each runs proto_plain_put  *)
(* for a client of its own, opens the file that client has named with      *)
(* O_TRUNC and writes at the offset of its own descriptor.  Nothing locks  *)
(* a file, so that two children may write the same one.                    *)
(*                                                                         *)
(* The conversation before the file is opened is that of PlainPut; here it *)
(* has gone well.  A byte is the pair of its session and its place in the  *)
(* client's file: what is in it never matters, where it ends up does.      *)
(***************************************************************************)
EXTENDS Integers, Sequences

CONSTANTS
  Sessions,   \* the sessions, each a client and its server child
  Filenames,  \* the names the clients may give
  MaxSize,    \* bound: bytes in a client's file when its size is taken
  BUFSIZE,
  OldDisk,    \* the server's files before, by name
  OldByte, Hole   \* a byte of such a file, and a byte nobody has written

ASSUME ConcurrentAssumption ==
  /\ MaxSize \in Nat
  /\ BUFSIZE \in Nat \ {0}
  /\ OldDisk \in [Filenames -> Seq({OldByte})]
  /\ OldByte # Hole
  /\ Hole \notin Sessions \X Nat

VARIABLES
  name,       \* name[s]: the file s sends
  filesize,   \* filesize[s]: the size its client has declared
  pc,         \* pc[s]: where the child of s is
  buffered,   \* buffered[s]: bytes it has read and not written yet
  written,    \* written[s]: the offset of its descriptor
  disk,       \* disk[f]: the contents of the file f
  disturbed   \* history: sessions whose file another one had or has opened

vars == <<name, filesize, pc, buffered, written, disk, disturbed>>

Label == {"open", "read", "write", "told", "cut", "refused", "spinning", "dead", "unopened"}

Init ==
  /\ name \in [Sessions -> Filenames]
  /\ filesize \in [Sessions -> 0..MaxSize]
  /\ pc = [s \in Sessions |-> "open"]
  /\ buffered = [s \in Sessions |-> 0]
  /\ written = [s \in Sessions |-> 0]
  /\ disk = OldDisk
  /\ disturbed = {}

Goto(s, label) == pc' = [pc EXCEPT ![s] = label]
Writing == {s \in Sessions : pc[s] \in {"read", "write"}}
Opened(f) == {s \in Sessions : name[s] = f /\ pc[s] \notin {"open", "unopened"}}

\* O_TRUNC, whoever is writing the file.
\* Slips: O_TRUNC is left out; a file that is being written is waited for.
OpenKeeping(s) ==
  /\ pc[s] = "open"
  /\ Goto(s, "read")
  /\ UNCHANGED <<name, filesize, buffered, written, disk, disturbed>>
OpenLocked(s) ==
  /\ pc[s] = "open"
  /\ \A t \in Opened(name[s]) : pc[t] \in {"told", "cut", "refused", "dead"}
  /\ Goto(s, "read")
  /\ disk' = [disk EXCEPT ![name[s]] = <<>>]
  /\ UNCHANGED <<name, filesize, buffered, written, disturbed>>
Open(s) ==
  /\ pc[s] = "open"
  /\ Goto(s, "read")
  /\ disk' = [disk EXCEPT ![name[s]] = <<>>]
  /\ disturbed' = disturbed \cup Opened(name[s])
       \cup (IF Opened(name[s]) \cap Writing = {} THEN {} ELSE {s})
  /\ UNCHANGED <<name, filesize, buffered, written>>

\* open() fails (SERVER_ERROR), or the child does not come to it.
OpenFails(s) ==
  /\ pc[s] = "open"
  /\ Goto(s, "unopened")
  /\ UNCHANGED <<name, filesize, buffered, written, disk, disturbed>>

\* read() returns some of what the client has sent, as much as the buffer takes:
\* more than was declared if the client's file has grown since its stat().
\* Slip: what was read before is still in the buffer.
ReadAgain(s) ==
  /\ pc[s] \in {"read", "write"}
  /\ written[s] + buffered[s] < filesize[s]
  /\ \E n \in 1..BUFSIZE : buffered' = [buffered EXCEPT ![s] = n]
  /\ written' = [written EXCEPT ![s] = @ + buffered[s]]
  /\ Goto(s, "write")
  /\ UNCHANGED <<name, filesize, disk, disturbed>>
Read(s) ==
  /\ pc[s] = "read"
  /\ written[s] < filesize[s]
  /\ \E n \in 1..BUFSIZE : buffered' = [buffered EXCEPT ![s] = n]
  /\ Goto(s, "write")
  /\ UNCHANGED <<name, filesize, written, disk, disturbed>>

\* The client has gone: at end of file read() returns 0 for ever.
ClientGone(s) ==
  /\ pc[s] = "read"
  /\ written[s] < filesize[s]
  /\ Goto(s, "spinning")
  /\ UNCHANGED <<name, filesize, buffered, written, disk, disturbed>>

\* The file with n bytes of s at the offset off: what lies between its end and
\* the offset is a hole.
\* Slip: the bytes go to its end, as with O_APPEND.
Appended(file, s, off, n) == file \o [i \in 1..n |-> <<s, off + i>>]
Overwritten(file, s, off, n) ==
  [i \in 1..(IF off + n > Len(file) THEN off + n ELSE Len(file)) |->
     IF off < i /\ i <= off + n THEN <<s, i>>
     ELSE IF i <= Len(file) THEN file[i] ELSE Hole]

\* write() of what was read.
Write(s) ==
  /\ pc[s] = "write"
  /\ disk' = [disk EXCEPT ![name[s]] = Overwritten(@, s, written[s], buffered[s])]
  /\ written' = [written EXCEPT ![s] = @ + buffered[s]]
  /\ buffered' = [buffered EXCEPT ![s] = 0]
  /\ Goto(s, "read")
  /\ UNCHANGED <<name, filesize, disturbed>>
WriteFails(s) ==
  /\ pc[s] = "write"
  /\ Goto(s, "refused")
  /\ UNCHANGED <<name, filesize, buffered, written, disk, disturbed>>

\* close(), the verdict and exit(): END_FILE_TRANSMISSION ("told") if the child has
\* read what was declared, FILE_CUT_TO_DECLARED_SIZE ("cut") if it has read more.
\* Slip: the sizes are not compared.
ReportUnchecked(s) ==
  /\ pc[s] = "read"
  /\ written[s] >= filesize[s]
  /\ Goto(s, "told")
  /\ UNCHANGED <<name, filesize, buffered, written, disk, disturbed>>
Report(s) ==
  /\ pc[s] = "read"
  /\ written[s] >= filesize[s]
  /\ Goto(s, IF written[s] > filesize[s] THEN "cut" ELSE "told")
  /\ UNCHANGED <<name, filesize, buffered, written, disk, disturbed>>

\* The child is killed, or its connection broken.
Kill(s) ==
  /\ pc[s] \in {"read", "write", "spinning"}
  /\ Goto(s, "dead")
  /\ UNCHANGED <<name, filesize, buffered, written, disk, disturbed>>

Child(s) == Open(s) \/ Read(s) \/ Write(s) \/ Report(s)
Fault(s) == OpenFails(s) \/ ClientGone(s) \/ WriteFails(s) \/ Kill(s)
Next == \E s \in Sessions : Child(s) \/ Fault(s)

Spec == Init /\ [][Next]_vars

\* The kernel schedules every child; the data a client has sent arrive.
FairSpec == Spec /\ \A s \in Sessions : WF_vars(Child(s))

-----------------------------------------------------------------------------
Byte == {OldByte, Hole} \cup (Sessions \X Nat)
TypeOK ==
  /\ name \in [Sessions -> Filenames]
  /\ filesize \in [Sessions -> 0..MaxSize]
  /\ pc \in [Sessions -> Label]
  /\ buffered \in [Sessions -> 0..BUFSIZE]
  /\ written \in [Sessions -> 0..(MaxSize + BUFSIZE)]
  /\ disk \in [Filenames -> Seq(Byte)]
  /\ disturbed \subseteq Sessions

(***************************************************************************)
(* However children write the same file at once, a byte is never out of    *)
(* place: at each place of a file that was opened is that byte of some     *)
(* client's file, of a client that named this one, or a hole.              *)
(***************************************************************************)
BytesInPlace ==
  \A f \in Filenames : Opened(f) # {} =>
    \A i \in 1..Len(disk[f]) :
      disk[f][i] = Hole \/ \E s \in Opened(f) : disk[f][i] = <<s, i>>

(***************************************************************************)
(* A client that is told END_FILE_TRANSMISSION has its file on the disk,   *)
(* as long as no other session has opened it since and none was writing it *)
(* then, whatever the others do to theirs.                                 *)
(***************************************************************************)
Prefix(s, n) == [i \in 1..n |-> <<s, i>>]
UndisturbedDelivered ==
  \A s \in Sessions \ disturbed :
    pc[s] = "told" => disk[name[s]] = Prefix(s, filesize[s])

(***************************************************************************)
(* Holes are only in files that were truncated under a child's hand.       *)
(***************************************************************************)
HolesOfTruncation ==
  \A f \in Filenames :
    (\E i \in 1..Len(disk[f]) : disk[f][i] = Hole) => \E s \in disturbed : name[s] = f

(***************************************************************************)
(* A session that nothing happens to comes to its end, though another one  *)
(* spins for ever with the same file open.                                 *)
(***************************************************************************)
Harmed == {"spinning", "dead", "refused", "unopened"}
SessionEnds == \A s \in Sessions : <>(pc[s] \in {"told", "cut"} \cup Harmed)

-----------------------------------------------------------------------------
(***************************************************************************)
(* Why UndisturbedDelivered holds: nobody else writes the file of a        *)
(* session that is not disturbed, which then is what it has written; and   *)
(* though a child may write up to a buffer more than was declared, it says *)
(* END_FILE_TRANSMISSION only of exactly that many bytes.                  *)
(***************************************************************************)
Undisturbed == {s \in Sessions \ disturbed : pc[s] \notin {"open", "unopened"}}
Alone == \A s \in Undisturbed, t \in Writing : name[t] = name[s] => t = s
Stored == \A s \in Undisturbed : disk[name[s]] = Prefix(s, written[s])
Counted ==
  \A s \in Sessions :
    /\ pc[s] = "open" => written[s] = 0 /\ buffered[s] = 0
    /\ pc[s] = "read" => written[s] < filesize[s] + BUFSIZE /\ buffered[s] = 0
    /\ pc[s] = "write" => written[s] < filesize[s]
    /\ pc[s] = "told" => written[s] = filesize[s]
    /\ pc[s] = "cut" => written[s] \in filesize[s] + 1..filesize[s] + BUFSIZE
IInv == TypeOK /\ Alone /\ Stored /\ Counted
=============================================================================
