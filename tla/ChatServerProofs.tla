--------------------------- MODULE ChatServerProofs ----------------------------
(***************************************************************************)
(* ChatServer for every number of connections and rooms: what its threads  *)
(* do to the rooms, one dict operation at a time and without a lock.       *)
(***************************************************************************)
EXTENDS ChatServer, FiniteSetTheorems, TLAPS

(* The inductive invariant *)

\* Where a thread is tells which of its local variables are set.
Seated == {"unique", "fetch", "store", "loop", "get", "pop", "check", "drop"}
Holding == {"store", "pop", "check"}
LocalsInv ==
    \A c \in Conns :
      /\ pc[c] \in Seated => room[c] # None
      /\ room[c] # None <=> target[c] # None
      /\ pc[c] \in {"fetch", "store"} => name[c] # None
      /\ ref[c] # None <=> pc[c] \in Holding

\* A dict object is on the list under one name, and a thread that holds one
\* that is on the list got it under the name of its own room.
RefsInv ==
    /\ \A r, s \in Rooms : rooms[r] # None /\ rooms[r] = rooms[s] => r = s
    /\ \A c \in Conns, r \in Rooms : ref[c] # None /\ rooms[r] = ref[c] => r = room[c]

\* A connection is only in the room its thread works for, and not at all
\* before that thread has entered it or after it has left; what it is about to
\* pop itself from is the object that is on the list.
MemberStates == {"unique", "fetch", "store", "loop", "close", "get", "pop"}
MemberInv ==
    \A c \in Conns, r \in Rooms :
      Live(r, c) => /\ pc[c] \in MemberStates
                    /\ r = room[c]
                    /\ pc[c] = "unique" => r = target[c]
                    /\ pc[c] = "pop" => rooms[r] = ref[c]

\* An empty room that is on the list has a thread that will fill it or drop it.
Keeper(c, r) ==
    \/ pc[c] \in {"store", "check"} /\ ref[c] = rooms[r]
    \/ pc[c] = "drop" /\ room[c] = r
KeeperInv ==
    \A r \in Rooms : rooms[r] # None /\ IsEmpty(rooms[r]) => \E c \in Conns : Keeper(c, r)

Inv == TypeOK /\ LocalsInv /\ RefsInv /\ MemberInv /\ KeeperInv
-------------------------------------------------------------------------------
(* Dict objects *)

\* A dict is empty when no connection is in it.
LEMMA EmptyDict ==
    ASSUME TypeOK, NEW d \in Dicts
    PROVE  IsEmpty(d) <=> \A c \in Conns : dict[d][c] = None
BY DEF TypeOK, IsEmpty, Empty

\* setdefault finds memory for a new dict: a thread that is about to create the
\* dict of a room holds none, and the room has none, so of the objects that the
\* other rooms and threads may use one is left over.
LEMMA UnusedDict ==
    ASSUME TypeOK, NEW r \in Rooms, rooms[r] = None, NEW c \in Conns, ref[c] = None
    PROVE  \E d \in Dicts : Unused(d)
<1> DEFINE R == Rooms \ {r}
           C == Conns \ {c}
           byName == [s \in R |-> rooms[s]]
           byRef  == [e \in C |-> ref[e]]
           A == {rooms[s] : s \in R}
           B == {ref[e] : e \in C}
<1>1. /\ IsFiniteSet(R) /\ Cardinality(R) = Cardinality(Rooms) - 1
      /\ IsFiniteSet(C) /\ Cardinality(C) = Cardinality(Conns) - 1
  BY DictAssumption, FS_RemoveElement
<1>2. byName \in Surjection(R, A) /\ byRef \in Surjection(C, B)
  BY DEF Surjection
<1>3. /\ IsFiniteSet(A) /\ Cardinality(A) <= Cardinality(R)
      /\ IsFiniteSet(B) /\ Cardinality(B) <= Cardinality(C)
  <2> HIDE DEF R, C, byName, byRef, A, B
  <2>. QED
    BY <1>1, <1>2, FS_Surjection
<1>4. SUFFICES ASSUME \A d \in Dicts : ~Unused(d)
               PROVE  FALSE
  OBVIOUS
<1>5. Dicts \subseteq A \cup B
  BY <1>4, NoneAssumption DEF Unused
<1> HIDE DEF R, C, byName, byRef, A, B
<1>6. /\ IsFiniteSet(A \cup B)
      /\ Cardinality(A \cup B) = Cardinality(A) + Cardinality(B) - Cardinality(A \cap B)
  BY <1>3, FS_Union
<1>7. IsFiniteSet(A \cap B)
  BY <1>3, FS_Intersection
<1>8. /\ Cardinality(A) \in Nat /\ Cardinality(B) \in Nat /\ Cardinality(A \cap B) \in Nat
      /\ Cardinality(Rooms) \in Nat /\ Cardinality(Conns) \in Nat
      /\ Cardinality(Dicts) \in Nat /\ Cardinality(A \cup B) \in Nat
  BY <1>3, <1>6, <1>7, DictAssumption, FS_CardinalityType
<1>9. Cardinality(Dicts) <= Cardinality(A \cup B)
  BY <1>5, <1>6, FS_Subset
<1>. QED
  BY <1>1, <1>3, <1>6, <1>8, <1>9, DictAssumption

-------------------------------------------------------------------------------
(* Types *)

\* Every step of a thread leaves every variable in its type.
LEMMA TypeStep == TypeOK /\ LocalsInv /\ [Next]_vars => TypeOK'
<1> SUFFICES ASSUME TypeOK, LocalsInv, [Next]_vars
             PROVE  TypeOK'
  OBVIOUS
<1> USE DEF Goto, Labels
<1>1. ASSUME NEW c \in Conns, Accept(c) \/ Register(c) \/ GiveUp(c) \/ LeaveLoop(c) \/ Unregister(c)
      PROVE  TypeOK'
  BY <1>1 DEF TypeOK, Accept, Register, GiveUp, LeaveLoop, Unregister
<1>2. ASSUME NEW c \in Conns, NEW r \in Rooms, Handshake(c, r) \/ JoinPacket(c, r)
      PROVE  TypeOK'
  BY <1>2 DEF TypeOK, Handshake, JoinPacket
<1>3. ASSUME NEW c \in Conns, UniqueUsername(c)
      PROVE  TypeOK'
  BY <1>3, UserAssumption DEF TypeOK, UniqueUsername, Names
<1>4. ASSUME NEW c \in Conns, FetchOrCreate(c)
      PROVE  TypeOK'
  <2>1. pc[c] = "fetch" /\ room[c] \in Rooms /\ ref[c] = None
    BY <1>4 DEF TypeOK, LocalsInv, FetchOrCreate, Seated, Holding
  <2>2. CASE rooms[room[c]] # None
    BY <1>4, <2>1, <2>2 DEF TypeOK, FetchOrCreate
  <2>3. CASE rooms[room[c]] = None
    <3>1. (CHOOSE d \in Dicts : Unused(d)) \in Dicts
      BY <2>1, <2>3, UnusedDict
    <3>2. Empty \in [Conns -> Names \cup {None}]
      BY DEF Empty
    <3>. QED
      BY <1>4, <2>1, <2>3, <3>1, <3>2 DEF TypeOK, FetchOrCreate
  <2>. QED
    BY <2>2, <2>3
<1>5. ASSUME NEW c \in Conns, Store(c)
      PROVE  TypeOK'
  <2>1. ref[c] \in Dicts
    BY <1>5 DEF TypeOK, LocalsInv, Store, Holding
  <2>2. [dict[ref[c]] EXCEPT ![c] = name[c]] \in [Conns -> Names \cup {None}]
    BY <2>1 DEF TypeOK
  <2>. QED
    BY <1>5, <2>1, <2>2 DEF TypeOK, Store
<1>6. ASSUME NEW c \in Conns, GetMembers(c)
      PROVE  TypeOK'
  <2>1. room[c] \in Rooms
    BY <1>6 DEF TypeOK, LocalsInv, GetMembers, Seated
  <2>. QED
    BY <1>6, <2>1 DEF TypeOK, GetMembers, AfterLeave
<1>7. ASSUME NEW c \in Conns, PopMember(c)
      PROVE  TypeOK'
  <2>1. ref[c] \in Dicts
    BY <1>7 DEF TypeOK, LocalsInv, PopMember, Holding
  <2>2. [dict[ref[c]] EXCEPT ![c] = None] \in [Conns -> Names \cup {None}]
    BY <2>1 DEF TypeOK
  <2>. QED
    BY <1>7, <2>1, <2>2 DEF TypeOK, PopMember
<1>8. ASSUME NEW c \in Conns, CheckEmpty(c) \/ DropRoom(c)
      PROVE  TypeOK'
  BY <1>8 DEF TypeOK, CheckEmpty, DropRoom, AfterLeave
<1>9. CASE Stop \/ UNCHANGED vars
  BY <1>9 DEF TypeOK, Stop, vars, locals
<1>. QED
  BY <1>1, <1>2, <1>3, <1>4, <1>5, <1>6, <1>7, <1>8, <1>9 DEF Next, Thread, Peer
-------------------------------------------------------------------------------
(* The threads' local variables and references *)

\* A thread that goes on to a label has set the variables it needs there.
LEMMA LocalsStep == TypeOK /\ LocalsInv /\ [Next]_vars => LocalsInv'
<1> SUFFICES ASSUME TypeOK, LocalsInv, [Next]_vars
             PROVE  LocalsInv'
  OBVIOUS
<1>0. /\ pc \in [Conns -> Labels]
      /\ room \in [Conns -> Rooms \cup {None}] /\ target \in [Conns -> Rooms \cup {None}]
      /\ name \in [Conns -> Names \cup {None}] /\ ref \in [Conns -> Dicts \cup {None}]
  BY DEF TypeOK
<1> USE <1>0, NoneAssumption DEF Goto, LocalsInv, Seated, Holding
<1>1. ASSUME NEW c \in Conns, Accept(c) \/ Register(c) \/ GiveUp(c) \/ LeaveLoop(c) \/ Unregister(c)
      PROVE  LocalsInv'
  <2>1. /\ \A e \in Conns : e # c => pc'[e] = pc[e]
        /\ pc'[c] \in Seated => pc'[c] = "get" /\ room[c] # None
        /\ pc[c] \notin Holding /\ pc'[c] \notin Holding \cup {"fetch"}
        /\ UNCHANGED <<room, target, name, ref>>
    BY <1>1 DEF Accept, Register, GiveUp, LeaveLoop, Unregister
  <2>. QED
    BY <2>1
<1>2. ASSUME NEW c \in Conns, NEW r \in Rooms, Handshake(c, r) \/ JoinPacket(c, r)
      PROVE  LocalsInv'
  BY <1>2 DEF Handshake, JoinPacket
<1>3. ASSUME NEW c \in Conns, UniqueUsername(c)
      PROVE  LocalsInv'
  <2>1. name'[c] # None
    <3>1. name'[c] = c \/ name'[c] = UserOf[c]
      BY <1>3 DEF UniqueUsername
    <3>2. c # None /\ UserOf[c] # None
      BY UserAssumption
    <3>. QED
      BY <3>1, <3>2
  <2>2. /\ \A e \in Conns : e # c => pc'[e] = pc[e] /\ room'[e] = room[e] /\ name'[e] = name[e]
        /\ pc[c] = "unique" /\ pc'[c] = "fetch" /\ room'[c] = target[c]
        /\ UNCHANGED <<target, ref>>
    BY <1>3 DEF UniqueUsername
  <2>. QED
    BY <2>1, <2>2
<1>4. ASSUME NEW c \in Conns, FetchOrCreate(c)
      PROVE  LocalsInv'
  <2>1. rooms[room[c]] = None => (CHOOSE d \in Dicts : Unused(d)) \in Dicts
    BY <1>4, UnusedDict DEF FetchOrCreate, TypeOK
  <2>2. ref'[c] # None
    <3>1. CASE rooms[room[c]] # None
      BY <1>4, <3>1 DEF FetchOrCreate
    <3>2. CASE rooms[room[c]] = None
      <4>1. ref'[c] = CHOOSE d \in Dicts : Unused(d)
        BY <1>4, <3>2 DEF FetchOrCreate
      <4>. QED
        BY <2>1, <3>2, <4>1
    <3>. QED
      BY <3>1, <3>2
  <2>3. /\ \A e \in Conns : e # c => pc'[e] = pc[e] /\ ref'[e] = ref[e]
        /\ pc[c] = "fetch" /\ pc'[c] = "store"
        /\ UNCHANGED <<room, target, name>>
    BY <1>4 DEF FetchOrCreate
  <2>. QED
    BY <2>2, <2>3
<1>5. ASSUME NEW c \in Conns, Store(c) \/ PopMember(c)
      PROVE  LocalsInv'
  BY <1>5 DEF Store, PopMember
<1>6. ASSUME NEW c \in Conns, GetMembers(c) \/ CheckEmpty(c) \/ DropRoom(c)
      PROVE  LocalsInv'
  BY <1>6 DEF GetMembers, CheckEmpty, DropRoom, AfterLeave
<1>7. CASE Stop \/ UNCHANGED vars
  BY <1>7 DEF Stop, vars, locals
<1>. QED
  BY <1>1, <1>2, <1>3, <1>4, <1>5, <1>6, <1>7 DEF Next, Thread, Peer

\* A new dict is one that nobody refers to, and a thread takes a reference only
\* from the entry of its room, which it does not change while it holds it.
LEMMA RefsStep == TypeOK /\ LocalsInv /\ RefsInv /\ [Next]_vars => RefsInv'
<1> SUFFICES ASSUME TypeOK, LocalsInv, RefsInv, [Next]_vars
             PROVE  RefsInv'
  OBVIOUS
<1> USE NoneAssumption DEF Goto, LocalsInv, Seated, Holding, TypeOK, RefsInv
<1>1. ASSUME NEW c \in Conns, Accept(c) \/ Register(c) \/ GiveUp(c) \/ LeaveLoop(c) \/ Unregister(c)
      PROVE  RefsInv'
  BY <1>1 DEF Accept, Register, GiveUp, LeaveLoop, Unregister
<1>2. ASSUME NEW c \in Conns, NEW r \in Rooms, Handshake(c, r) \/ JoinPacket(c, r)
      PROVE  RefsInv'
  BY <1>2 DEF Handshake, JoinPacket
<1>3. ASSUME NEW c \in Conns, UniqueUsername(c)
      PROVE  RefsInv'
  BY <1>3 DEF UniqueUsername
<1>4. ASSUME NEW c \in Conns, FetchOrCreate(c)
      PROVE  RefsInv'
  <2>1. CASE rooms[room[c]] # None
    BY <1>4, <2>1 DEF FetchOrCreate
  <2>2. CASE rooms[room[c]] = None
    <3> DEFINE new == CHOOSE d \in Dicts : Unused(d)
    <3>1. new \in Dicts /\ Unused(new)
      BY <1>4, <2>2, UnusedDict DEF FetchOrCreate
    <3> HIDE DEF new
    <3>2. /\ rooms' = [rooms EXCEPT ![room[c]] = new]
          /\ ref' = [ref EXCEPT ![c] = new]
          /\ room' = room
      BY <1>4, <2>2 DEF FetchOrCreate, new
    <3>. QED
      BY <1>4, <3>1, <3>2 DEF Unused, FetchOrCreate
  <2>. QED
    BY <2>1, <2>2
<1>5. ASSUME NEW c \in Conns, Store(c) \/ PopMember(c)
      PROVE  RefsInv'
  BY <1>5 DEF Store, PopMember
<1>6. ASSUME NEW c \in Conns, GetMembers(c) \/ CheckEmpty(c) \/ DropRoom(c)
      PROVE  RefsInv'
  BY <1>6 DEF GetMembers, CheckEmpty, DropRoom
<1>7. CASE Stop \/ UNCHANGED vars
  BY <1>7 DEF Stop, vars, locals
<1>. QED
  BY <1>1, <1>2, <1>3, <1>4, <1>5, <1>6, <1>7 DEF Next, Thread, Peer

-------------------------------------------------------------------------------
(* Members and rooms *)

\* A connection enters a room only by its own thread's store, into the entry of
\* its own room; it pops itself from that entry before its room changes or its
\* thread ends.
LEMMA MemberStep == TypeOK /\ LocalsInv /\ RefsInv /\ MemberInv /\ [Next]_vars => MemberInv'
<1> SUFFICES ASSUME TypeOK, LocalsInv, RefsInv, MemberInv, [Next]_vars
             PROVE  MemberInv'
  OBVIOUS
<1> USE NoneAssumption DEF Goto, LocalsInv, Seated, Holding, TypeOK, MemberInv, MemberStates, Live
<1>1. ASSUME NEW c \in Conns, Accept(c) \/ Register(c) \/ GiveUp(c) \/ LeaveLoop(c) \/ Unregister(c)
      PROVE  MemberInv'
  BY <1>1 DEF Accept, Register, GiveUp, LeaveLoop, Unregister
<1>2. ASSUME NEW c \in Conns, NEW r \in Rooms, Handshake(c, r) \/ JoinPacket(c, r)
      PROVE  MemberInv'
  BY <1>2 DEF Handshake, JoinPacket
<1>3. ASSUME NEW c \in Conns, UniqueUsername(c)
      PROVE  MemberInv'
  BY <1>3 DEF UniqueUsername
<1>4. ASSUME NEW c \in Conns, FetchOrCreate(c)
      PROVE  MemberInv'
  <2>1. CASE rooms[room[c]] # None
    BY <1>4, <2>1 DEF FetchOrCreate
  <2>2. CASE rooms[room[c]] = None
    <3> DEFINE new == CHOOSE d \in Dicts : Unused(d)
    <3>1. new \in Dicts /\ Unused(new)
      BY <1>4, <2>2, UnusedDict DEF FetchOrCreate
    <3> HIDE DEF new
    <3>2. /\ rooms' = [rooms EXCEPT ![room[c]] = new]
          /\ dict' = [dict EXCEPT ![new] = Empty]
          /\ ref' = [ref EXCEPT ![c] = new]
          /\ pc' = [pc EXCEPT ![c] = "store"]
          /\ UNCHANGED <<room, target>>
      BY <1>4, <2>2 DEF FetchOrCreate, new
    <3>3. \A e \in Conns, r \in Rooms : Live(r, e)' => Live(r, e) /\ rooms'[r] = rooms[r]
      BY <1>4, <3>1, <3>2 DEF Unused, Empty, FetchOrCreate
    <3>4. \A e \in Conns : e # c => pc'[e] = pc[e] /\ ref'[e] = ref[e]
      BY <3>2
    <3>. QED
      BY <1>4, <3>2, <3>3, <3>4 DEF FetchOrCreate
  <2>. QED
    BY <2>1, <2>2
<1>5. ASSUME NEW c \in Conns, Store(c)
      PROVE  MemberInv'
  <2>1. \A e \in Conns, r \in Rooms :
          Live(r, e)' => Live(r, e) \/ (e = c /\ rooms[r] = ref[c])
    BY <1>5 DEF Store
  <2>2. \A r \in Rooms : rooms[r] = ref[c] => r = room[c]
    BY <1>5 DEF Store, RefsInv
  <2>. QED
    BY <1>5, <2>1, <2>2 DEF Store
<1>6. ASSUME NEW c \in Conns, GetMembers(c)
      PROVE  MemberInv'
  <2>1. CASE rooms[room[c]] = None \/ IsEmpty(rooms[room[c]])
    <3>1. \A r \in Rooms : ~Live(r, c)
      BY <1>6, <2>1 DEF GetMembers, IsEmpty, Empty
    <3>2. /\ \A e \in Conns : e # c => pc'[e] = pc[e]
          /\ UNCHANGED <<rooms, dict, room, target, ref>>
      BY <1>6, <2>1 DEF GetMembers
    <3>. QED
      BY <3>1, <3>2
  <2>2. CASE ~(rooms[room[c]] = None \/ IsEmpty(rooms[room[c]]))
    BY <1>6, <2>2 DEF GetMembers
  <2>. QED
    BY <2>1, <2>2
<1>7. ASSUME NEW c \in Conns, PopMember(c)
      PROVE  MemberInv'
  <2>1. \A e \in Conns, r \in Rooms : Live(r, e)' => Live(r, e) /\ e # c
    BY <1>7 DEF PopMember
  <2>2. /\ \A e \in Conns : e # c => pc'[e] = pc[e]
        /\ UNCHANGED <<rooms, room, target, ref>>
    BY <1>7 DEF PopMember
  <2>. QED
    BY <2>1, <2>2
<1>8. ASSUME NEW c \in Conns, CheckEmpty(c) \/ DropRoom(c)
      PROVE  MemberInv'
  <2>1. \A r \in Rooms : ~Live(r, c)
    BY <1>8 DEF CheckEmpty, DropRoom
  <2>2. \A e \in Conns, r \in Rooms : Live(r, e)' => Live(r, e) /\ rooms'[r] = rooms[r]
    BY <1>8 DEF CheckEmpty, DropRoom
  <2>3. /\ \A e \in Conns : e # c => pc'[e] = pc[e] /\ ref'[e] = ref[e]
        /\ UNCHANGED <<room, target>>
    BY <1>8 DEF CheckEmpty, DropRoom
  <2>. QED
    BY <2>1, <2>2, <2>3
<1>9. CASE Stop \/ UNCHANGED vars
  BY <1>9 DEF Stop, vars, locals
<1>. QED
  BY <1>1, <1>2, <1>3, <1>4, <1>5, <1>6, <1>7, <1>8, <1>9 DEF Next, Thread, Peer

\* A room becomes empty by the pop of a thread that then looks at the dict and
\* drops it, or is created empty by a thread that then stores itself; a thread
\* that finds the dict filled again leaves it to whoever filled it.
LEMMA KeeperStep == TypeOK /\ LocalsInv /\ RefsInv /\ KeeperInv /\ [Next]_vars => KeeperInv'
<1> SUFFICES ASSUME TypeOK, TypeOK', LocalsInv, RefsInv, KeeperInv, [Next]_vars
             PROVE  KeeperInv'
  BY TypeStep
<1> USE NoneAssumption DEF Goto
<1>0. ASSUME UNCHANGED <<rooms, dict>>,
             \A e \in Conns, r \in Rooms : Keeper(e, r) /\ IsEmpty(rooms[r]) /\ rooms[r] # None
                                             => Keeper(e, r)'
      PROVE  KeeperInv'
  BY <1>0 DEF KeeperInv, IsEmpty
<1>1. ASSUME NEW c \in Conns, Accept(c) \/ Register(c) \/ GiveUp(c) \/ LeaveLoop(c) \/ Unregister(c)
      PROVE  KeeperInv'
  <2>1. \A e \in Conns, r \in Rooms : Keeper(e, r) => Keeper(e, r)'
    BY <1>1 DEF TypeOK, Keeper, Accept, Register, GiveUp, LeaveLoop, Unregister
  <2>. QED
    BY <1>0, <1>1, <2>1 DEF Accept, Register, GiveUp, LeaveLoop, Unregister
<1>2. ASSUME NEW c \in Conns, NEW q \in Rooms, Handshake(c, q) \/ JoinPacket(c, q)
      PROVE  KeeperInv'
  <2>1. \A e \in Conns, r \in Rooms : Keeper(e, r) => Keeper(e, r)'
    BY <1>2 DEF TypeOK, Keeper, Handshake, JoinPacket
  <2>. QED
    BY <1>0, <1>2, <2>1 DEF Handshake, JoinPacket
<1>3. ASSUME NEW c \in Conns, UniqueUsername(c)
      PROVE  KeeperInv'
  <2>1. \A e \in Conns, r \in Rooms : Keeper(e, r) => Keeper(e, r)'
    BY <1>3 DEF TypeOK, Keeper, UniqueUsername
  <2>. QED
    BY <1>0, <1>3, <2>1 DEF UniqueUsername
<1>4. ASSUME NEW c \in Conns, FetchOrCreate(c)
      PROVE  KeeperInv'
  <2>1. CASE rooms[room[c]] # None
    <3>1. \A e \in Conns, r \in Rooms : Keeper(e, r) => Keeper(e, r)'
      BY <1>4, <2>1 DEF TypeOK, Keeper, FetchOrCreate
    <3>. QED
      BY <1>0, <1>4, <2>1, <3>1 DEF FetchOrCreate
  <2>2. CASE rooms[room[c]] = None
    <3> DEFINE new == CHOOSE d \in Dicts : Unused(d)
    <3>0. pc[c] = "fetch" /\ ref[c] = None /\ room[c] \in Rooms
      BY <1>4 DEF FetchOrCreate, TypeOK, LocalsInv, Seated, Holding
    <3>1. new \in Dicts /\ Unused(new)
      BY <2>2, <3>0, UnusedDict
    <3> HIDE DEF new
    <3>2. /\ rooms' = [rooms EXCEPT ![room[c]] = new]
          /\ dict' = [dict EXCEPT ![new] = Empty]
          /\ ref' = [ref EXCEPT ![c] = new]
          /\ pc' = [pc EXCEPT ![c] = "store"]
          /\ room' = room
      BY <1>4, <2>2 DEF FetchOrCreate, new
    <3>3. \A r \in Rooms : r = room[c] => Keeper(c, r)'
      BY <3>0, <3>2 DEF TypeOK, Keeper
    <3>4. ASSUME NEW r \in Rooms, r # room[c], rooms'[r] # None, IsEmpty(rooms[r])'
          PROVE  \E e \in Conns : Keeper(e, r)'
      <4>1. rooms'[r] = rooms[r] /\ rooms[r] \in Dicts /\ rooms[r] # new
        BY <3>0, <3>1, <3>2, <3>4 DEF TypeOK, Unused
      <4>2. IsEmpty(rooms[r])
        BY <3>1, <3>2, <3>4, <4>1 DEF TypeOK, IsEmpty
      <4>3. PICK e \in Conns : Keeper(e, r)
        BY <3>4, <4>1, <4>2 DEF KeeperInv
      <4>4. e # c
        BY <3>0, <4>3 DEF Keeper
      <4>. QED
        BY <3>2, <4>1, <4>3, <4>4 DEF Keeper, TypeOK
    <3>5. \A r \in Rooms : rooms'[r] # None /\ IsEmpty(rooms[r])' => \E e \in Conns : Keeper(e, r)'
      BY <3>3, <3>4
    <3>. QED
      BY <3>5 DEF KeeperInv
  <2>. QED
    BY <2>1, <2>2
<1>5. ASSUME NEW c \in Conns, Store(c)
      PROVE  KeeperInv'
  <2>0. pc[c] = "store" /\ ref[c] \in Dicts /\ name[c] # None
    BY <1>5 DEF Store, TypeOK, LocalsInv, Holding
  <2>1. dict'[ref[c]] # Empty
    BY <1>5, <2>0 DEF Store, TypeOK, Empty
  <2>2. ASSUME NEW r \in Rooms, rooms'[r] # None, IsEmpty(rooms[r])'
        PROVE  \E e \in Conns : Keeper(e, r)'
    <3>1. rooms'[r] = rooms[r] /\ rooms[r] \in Dicts /\ rooms[r] # ref[c]
      BY <1>5, <2>0, <2>1, <2>2 DEF Store, TypeOK, IsEmpty
    <3>2. IsEmpty(rooms[r])
      BY <1>5, <2>2, <3>1 DEF Store, TypeOK, IsEmpty, Empty
    <3>3. PICK e \in Conns : Keeper(e, r)
      BY <2>2, <3>1, <3>2 DEF KeeperInv
    <3>4. e # c
      BY <2>0, <3>1, <3>3 DEF Keeper
    <3>. QED
      BY <1>5, <3>1, <3>3, <3>4 DEF Keeper, TypeOK, Store
  <2>. QED
    BY <2>2 DEF KeeperInv
<1>6. ASSUME NEW c \in Conns, GetMembers(c)
      PROVE  KeeperInv'
  <2>1. \A e \in Conns, r \in Rooms : Keeper(e, r) => Keeper(e, r)'
    BY <1>6 DEF TypeOK, Keeper, GetMembers
  <2>. QED
    BY <1>0, <1>6, <2>1 DEF GetMembers
<1>7. ASSUME NEW c \in Conns, PopMember(c)
      PROVE  KeeperInv'
  <2>0. pc[c] = "pop" /\ ref[c] \in Dicts /\ pc'[c] = "check"
    BY <1>7 DEF PopMember, TypeOK, LocalsInv, Holding
  <2>1. \A e \in Conns, r \in Rooms : Keeper(e, r) => Keeper(e, r)'
    BY <1>7, <2>0 DEF TypeOK, Keeper, PopMember
  <2>2. ASSUME NEW r \in Rooms, rooms'[r] # None, IsEmpty(rooms[r])'
        PROVE  \E e \in Conns : Keeper(e, r)'
    <3>1. CASE rooms[r] = ref[c]
      BY <1>7, <2>0, <3>1 DEF Keeper, PopMember
    <3>2. CASE rooms[r] # ref[c]
      <4>1. rooms[r] \in Dicts /\ IsEmpty(rooms[r])
        BY <1>7, <2>2, <3>2 DEF PopMember, TypeOK, IsEmpty, Empty
      <4>. QED
        BY <1>7, <2>1, <2>2, <4>1 DEF KeeperInv, PopMember
    <3>. QED
      BY <3>1, <3>2
  <2>. QED
    BY <2>2 DEF KeeperInv
<1>8. ASSUME NEW c \in Conns, CheckEmpty(c)
      PROVE  KeeperInv'
  <2>1. ASSUME NEW e \in Conns, NEW r \in Rooms, Keeper(e, r), IsEmpty(rooms[r]), rooms[r] # None
        PROVE  Keeper(e, r)'
    <3>1. CASE e = c
      <4>1. ref[c] = rooms[r] /\ r = room[c] /\ IsEmpty(ref[c])
        BY <1>8, <2>1, <3>1 DEF Keeper, CheckEmpty, RefsInv
      <4>. QED
        BY <1>8, <3>1, <4>1 DEF Keeper, CheckEmpty, TypeOK
    <3>2. CASE e # c
      BY <1>8, <2>1, <3>2 DEF Keeper, CheckEmpty, TypeOK
    <3>. QED
      BY <3>1, <3>2
  <2>. QED
    BY <1>0, <1>8, <2>1 DEF CheckEmpty
<1>9. ASSUME NEW c \in Conns, DropRoom(c)
      PROVE  KeeperInv'
  <2>1. ASSUME NEW r \in Rooms, rooms'[r] # None, IsEmpty(rooms[r])'
        PROVE  \E e \in Conns : Keeper(e, r)'
    <3>1. rooms'[r] = rooms[r] /\ r # room[c] /\ IsEmpty(rooms[r])
      BY <1>9, <2>1 DEF DropRoom, TypeOK, IsEmpty
    <3>2. PICK e \in Conns : Keeper(e, r)
      BY <2>1, <3>1 DEF KeeperInv
    <3>3. e # c
      BY <1>9, <3>1, <3>2 DEF Keeper, DropRoom
    <3>. QED
      BY <1>9, <3>1, <3>2, <3>3 DEF Keeper, DropRoom, TypeOK
  <2>. QED
    BY <2>1 DEF KeeperInv
<1>10. CASE Stop \/ UNCHANGED vars
  BY <1>10 DEF KeeperInv, Keeper, IsEmpty, Stop, vars, locals
<1>. QED
  BY <1>1, <1>2, <1>3, <1>4, <1>5, <1>6, <1>7, <1>8, <1>9, <1>10 DEF Next, Thread, Peer

-------------------------------------------------------------------------------
(* The theorems *)

\* The invariant holds when the server starts and after every step of it.
LEMMA Invariant == Spec => []Inv
<1>1. Init => Inv
  <2> SUFFICES ASSUME Init
               PROVE  Inv
    OBVIOUS
  <2>1. TypeOK
    BY DEF Init, TypeOK, Empty, Labels
  <2>. QED
    BY <2>1, NoneAssumption
    DEF Init, Inv, LocalsInv, Seated, Holding, RefsInv, MemberInv, Live, KeeperInv
<1>2. Inv /\ [Next]_vars => Inv'
  BY TypeStep, LocalsStep, RefsStep, MemberStep, KeeperStep DEF Inv
<1>. QED
  BY <1>1, <1>2, PTL DEF Spec

\* The shared state and the threads' local variables keep their types
\* (core/server_state.py, RoomRegistry): setdefault always finds an object.
THEOREM TypeCorrect == Spec => []TypeOK
BY Invariant, PTL DEF Inv

\* leave_room leaves no ghost: a connection whose thread has ended is in no
\* room, however the dict operations of any number of threads interleave.
THEOREM NobodyStays == Spec => []NoGhost
<1>1. Inv => NoGhost
  BY DEF Inv, MemberInv, MemberStates, NoGhost
<1>. QED
  BY <1>1, Invariant, PTL

\* A change of room is a leave and a join without a lock around them, yet a
\* connection is in one room at a time, the one its thread writes to.
THEOREM OneRoomAtATime == Spec => []OneRoom
<1>1. Inv => OneRoom
  BY DEF Inv, MemberInv, OneRoom
<1>. QED
  BY <1>1, Invariant, PTL

\* "A room with no members left falls off by itself" (server.py:360), also when
\* the last two leave at the same time or somebody joins while they do.
THEOREM RoomsFallOff == Spec => []EmptyRoomsFallOff
<1>1. Inv => EmptyRoomsFallOff
  <2> SUFFICES ASSUME Inv, \A c \in Conns : pc[c] \in {"none", "handshake", "loop", "ended"},
                      NEW r \in Rooms, rooms[r] # None
               PROVE  \E c \in Conns : Live(r, c)
    BY DEF EmptyRoomsFallOff
  <2>1. ~IsEmpty(rooms[r])
    BY DEF Inv, KeeperInv, Keeper
  <2>2. rooms[r] \in Dicts
    BY DEF Inv, TypeOK
  <2>. QED
    BY <2>1, <2>2, EmptyDict DEF Inv, Live
<1>. QED
  BY <1>1, Invariant, PTL
================================================================================
