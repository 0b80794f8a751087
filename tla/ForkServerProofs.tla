-------------------------- MODULE ForkServerProofs --------------------------
(***************************************************************************)
(* Theorems about ForkServer.                                              *)
(***************************************************************************)
EXTENDS ForkServer, FiniteSetTheorems, SequenceTheorems, TLAPS

LEMMA ChildrenFinite ==
  ASSUME NEW s
  PROVE  /\ IsFiniteSet(Children(s))
         /\ Cardinality(Children(s)) \in Nat
<1>1. Children(s) \subseteq Clients
  BY DEF Children
<1> QED
  BY <1>1, FS_Subset, FS_CardinalityType, ForkAssumption

LEMMA DueProperties ==
  /\ Due \in 0..2
  /\ handler = "waitpid" => Due >= 1
BY DEF Due

\* The server's variables keep their types.
LEMMA NextTypeOK ==
  ASSUME TypeOK, [Next]_vars
  PROVE  TypeOK'
<1>1. ASSUME NEW c \in Clients, Connect(c)
      PROVE  TypeOK'
  <2>1. Append(queue, c) \in Seq(Clients)
    BY DEF TypeOK
  <2> QED
    BY <1>1, <2>1 DEF Connect, TypeOK
<1>2. ASSUME NEW c \in Clients, ChildEnds(c)
      PROVE  TypeOK'
  BY <1>2 DEF ChildEnds, TypeOK, ChildState
<1>3. CASE Accept
  <2>1. Head(queue) \in Clients /\ Tail(queue) \in Seq(Clients)
    BY <1>3 DEF Accept, TypeOK
  <2> QED
    BY <1>3, <2>1 DEF Accept, TypeOK
<1>4. CASE Fork
  BY <1>4 DEF Fork, TypeOK, ChildState
<1>5. CASE Deliver
  BY <1>5 DEF Deliver, TypeOK
<1>6. CASE Wait
  BY <1>6 DEF Wait, TypeOK, ChildState, Children
<1>7. CASE UNCHANGED vars
  BY <1>7 DEF vars, TypeOK
<1> QED
  BY <1>1, <1>2, <1>3, <1>4, <1>5, <1>6, <1>7 DEF Next, Parent

\* A connection is queued, accepted and forked for once.
LEMMA NextFresh ==
  ASSUME TypeOK, Fresh, [Next]_vars
  PROVE  Fresh'
<1>1. ASSUME NEW c \in Clients, Connect(c)
      PROVE  Fresh'
  <2>1. c \notin held /\ \A i \in 1..Len(queue) : queue[i] # c
    BY <1>1 DEF Connect, Members
  <2>2. queue \in Seq(Clients) /\ Len(queue) \in Nat /\ queue' = Append(queue, c)
    BY <1>1, LenProperties DEF Connect, TypeOK
  <2>3. /\ Len(queue') = Len(queue) + 1
        /\ queue'[Len(queue) + 1] = c
        /\ \A i \in 1..Len(queue) : queue'[i] = queue[i]
    BY <2>2, AppendProperties
  <2>4. \A i, j \in 1..Len(queue') : queue'[i] = queue'[j] => i = j
    BY <2>1, <2>2, <2>3 DEF Fresh
  <2>5. \A i \in 1..Len(queue') : queue'[i] \notin held
    BY <2>1, <2>2, <2>3 DEF Fresh
  <2> QED
    BY <1>1, <2>4, <2>5 DEF Connect, Fresh
<1>2. ASSUME NEW c \in Clients, ChildEnds(c)
      PROVE  Fresh'
  BY <1>2 DEF ChildEnds, Fresh, TypeOK
<1>3. CASE Accept
  <2>1. queue \in Seq(Clients) /\ Len(queue) \in Nat /\ Len(queue) >= 1
    BY <1>3, LenProperties, EmptySeq DEF Accept, TypeOK
  <2>2. /\ Head(queue) = queue[1] /\ Tail(queue) \in Seq(Clients)
        /\ Len(Tail(queue)) = Len(queue) - 1
        /\ \A i \in 1..Len(Tail(queue)) : Tail(queue)[i] = queue[i + 1]
    BY <1>3, <2>1, HeadTailProperties DEF Accept
  <2>3. \A i \in 1..Len(queue') : i + 1 \in 1..Len(queue) /\ queue'[i] = queue[i + 1]
    BY <1>3, <2>1, <2>2 DEF Accept
  <2>4. \A i, j \in 1..Len(queue') : queue'[i] = queue'[j] => i = j
    BY <2>3 DEF Fresh
  <2>5. \A i \in 1..Len(queue') : queue'[i] \notin held'
    BY <1>3, <2>1, <2>2, <2>3 DEF Accept, Fresh
  <2>6. sd' \in Clients \ held
    BY <1>3, <2>1, <2>2 DEF Accept, Fresh
  <2>7. /\ sd' \in held' /\ child'[sd'] = "none"
        /\ \A c \in Clients \ held' : child'[c] = "none"
    BY <1>3, <2>6 DEF Accept, Fresh
  <2> QED
    BY <2>4, <2>5, <2>7 DEF Fresh
<1>4. CASE Fork
  BY <1>4 DEF Fork, Fresh, TypeOK
<1>5. CASE Deliver
  BY <1>5 DEF Deliver, Fresh
<1>6. CASE Wait
  BY <1>6 DEF Wait, Fresh, TypeOK, Children
<1>7. CASE UNCHANGED vars
  BY <1>7 DEF vars, Fresh
<1> QED
  BY <1>1, <1>2, <1>3, <1>4, <1>5, <1>6, <1>7 DEF Next, Parent

\* A dead child for every signal that is due: a child that ends adds one of
\* each at most, a wait removes one of each.
LEMMA NextIInv ==
  ASSUME IInv, [Next]_vars
  PROVE  IInv'
<1> DEFINE zombies == Children("zombie")
<1>0. TypeOK /\ TypeOK' /\ Fresh /\ Fresh' /\ Cardinality(zombies) >= Due
  BY NextTypeOK, NextFresh DEF IInv
<1>1. IsFiniteSet(zombies) /\ Cardinality(zombies) \in Nat /\ Due \in 0..2
  BY ChildrenFinite, DueProperties
<1>2. ASSUME UNCHANGED <<child, pending, handler>>
      PROVE  IInv'
  BY <1>0, <1>2 DEF IInv, Children, Due
<1>3. ASSUME NEW c \in Clients, Connect(c)
      PROVE  IInv'
  BY <1>2, <1>3 DEF Connect
<1>4. ASSUME NEW c \in Clients, ChildEnds(c)
      PROVE  IInv'
  <2>1. c \notin zombies /\ zombies' = zombies \cup {c}
    BY <1>0, <1>4 DEF ChildEnds, Children, TypeOK
  <2>2. Cardinality(zombies') = Cardinality(zombies) + 1
    BY <1>1, <2>1, FS_AddElement
  <2>3. Due' <= Due + 1
    BY <1>4 DEF ChildEnds, Due
  <2>4. Due' \in 0..2
    BY DEF Due
  <2> QED
    BY <1>0, <1>1, <2>2, <2>3, <2>4 DEF IInv
<1>5. CASE Accept
  BY <1>2, <1>5 DEF Accept
<1>6. CASE Fork
  <2>1. zombies' = zombies
    BY <1>0, <1>6 DEF Fork, Fresh, Children, TypeOK
  <2>2. Due' = Due
    BY <1>6 DEF Fork, Due
  <2> QED
    BY <1>0, <2>1, <2>2 DEF IInv
<1>7. CASE Deliver
  <2>1. zombies' = zombies /\ Due' = Due
    BY <1>7 DEF Deliver, Children, Due
  <2> QED
    BY <1>0, <2>1 DEF IInv
<1>8. CASE Wait
  <2>1. Due' = Due - 1 /\ Due >= 1
    BY <1>0, <1>8 DEF Wait, Due, TypeOK
  <2>2. zombies # {}
    BY <1>0, <1>1, <2>1, FS_EmptySet
  <2>3. PICK c \in zombies : child' = [child EXCEPT ![c] = "reaped"]
    BY <1>8, <2>2 DEF Wait
  <2>4. zombies' = zombies \ {c}
    BY <1>0, <2>3 DEF Children, TypeOK
  <2>5. Cardinality(zombies') = Cardinality(zombies) - 1
    BY <1>1, <2>3, <2>4, FS_RemoveElement
  <2> QED
    BY <1>0, <1>1, <2>1, <2>5 DEF IInv
<1>9. CASE UNCHANGED vars
  BY <1>2, <1>9 DEF vars
<1> QED
  BY <1>3, <1>4, <1>5, <1>6, <1>7, <1>8, <1>9 DEF Next, Parent

(***************************************************************************)
(* In every execution there is a dead child for the signal being handled   *)
(* and another for the one that is pending.                                *)
(***************************************************************************)
THEOREM ForkIInv == Spec => []IInv
<1>1. Init => IInv
  <2> SUFFICES ASSUME Init PROVE IInv
    OBVIOUS
  <2>1. TypeOK
    <3>1. queue \in Seq(Clients)
      BY EmptySeq DEF Init
    <3> QED
      BY <3>1 DEF Init, TypeOK, ChildState
  <2>2. Fresh
    BY EmptySeq DEF Init, Fresh
  <2>3. Due = 0
    BY DEF Init, Due
  <2> QED
    BY <2>1, <2>2, <2>3, ChildrenFinite DEF IInv
<1>2. IInv /\ [Next]_vars => IInv'
  BY NextIInv
<1> QED
  BY <1>1, <1>2, PTL DEF Spec

(***************************************************************************)
(* The waitpid() of sigchld_handler never fails, for any number of         *)
(* clients and any limits of the server (tcpserver.c:13-14).               *)
(***************************************************************************)
THEOREM HandlerNeverFails == Spec => []HandlerFindsChild
<1>1. IInv => HandlerFindsChild
  <2> SUFFICES ASSUME IInv, handler = "waitpid" PROVE Children("zombie") # {}
    BY DEF HandlerFindsChild
  <2> QED
    BY ChildrenFinite, DueProperties, FS_EmptySet DEF IInv
<1> QED
  BY <1>1, ForkIInv, PTL
=============================================================================
