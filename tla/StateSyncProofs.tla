---------------------------- MODULE StateSyncProofs ----------------------------
(***************************************************************************)
(* What a client's copy of the server's state, and its audio task, can be  *)
(* relied on for, whatever the number of rooms, users, groups, handlers,   *)
(* operations and the capacity of the room channel.                        *)
(***************************************************************************)
EXTENDS StateSync, FiniteSetTheorems, TLAPS

LEMMA ConstantsOK ==
  /\ Own \in Tasks /\ Own \notin Handlers /\ Handlers \subseteq Tasks
  /\ Me \in Users /\ Me \notin Others /\ Others \subseteq Users
  /\ Root \in RoomIds /\ Rooms \subseteq RoomIds
  /\ None \notin RoomIds /\ None \notin User /\ Capacity \in Nat /\ Capacity >= 1
  BY SyncConstants, NoneIsNoUser DEF Tasks, Users, RoomIds

-----------------------------------------------------------------------------
(* Sequences: what reading at one end and writing at the other does *)

LEMMA SeqTail ==
  ASSUME NEW S, NEW s \in Seq(S), s # <<>>
  PROVE  /\ Head(s) = s[1] /\ s[1] \in S /\ Len(s) \in Nat /\ Len(s) >= 1
         /\ Tail(s) \in Seq(S) /\ Len(Tail(s)) = Len(s) - 1
         /\ \A i \in 1..Len(Tail(s)) : Tail(s)[i] = s[i + 1]
  OBVIOUS

LEMMA SeqAppend ==
  ASSUME NEW S, NEW s \in Seq(S), NEW a \in S
  PROVE  /\ Append(s, a) \in Seq(S) /\ Len(Append(s, a)) = Len(s) + 1 /\ Len(s) \in Nat
         /\ \A i \in 1..Len(s) : Append(s, a)[i] = s[i]
         /\ Append(s, a)[Len(s) + 1] = a /\ Append(s, a) # <<>>
  OBVIOUS

LEMMA SeqOne ==
  ASSUME NEW S, NEW s \in Seq(S), NEW a \in S
  PROVE  /\ s \o <<a>> \in Seq(S) /\ Len(s \o <<a>>) = Len(s) + 1 /\ Len(s) \in Nat
         /\ \A i \in 1..Len(s) : (s \o <<a>>)[i] = s[i]
         /\ (s \o <<a>>)[Len(s) + 1] = a
  OBVIOUS

LEMMA SeqTwo ==
  ASSUME NEW S, NEW s \in Seq(S), NEW a \in S, NEW b \in S
  PROVE  /\ s \o <<a, b>> \in Seq(S) /\ Len(s \o <<a, b>>) = Len(s) + 2 /\ Len(s) \in Nat
         /\ \A i \in 1..Len(s) : (s \o <<a, b>>)[i] = s[i]
         /\ (s \o <<a, b>>)[Len(s) + 1] = a /\ (s \o <<a, b>>)[Len(s) + 2] = b
  OBVIOUS

LEMMA SeqSuffix ==
  ASSUME NEW S, NEW s \in Seq(S), NEW k \in Nat, k <= Len(s)
  PROVE  /\ SubSeq(s, k + 1, Len(s)) \in Seq(S) /\ Len(SubSeq(s, k + 1, Len(s))) = Len(s) - k
         /\ \A i \in 1..(Len(s) - k) : SubSeq(s, k + 1, Len(s))[i] = s[i + k]
  OBVIOUS

-----------------------------------------------------------------------------
(* The fields of what travels *)

LEMMA UpdateFields ==
  ASSUME NEW e \in Update
  PROVE  /\ e.kind \in {"RoomAdded", "RoomEdited", "RoomRemoved", "UserJoined", "UserLeft", "UserMoved",
                        "Status", "Group"}
         /\ e.kind \in {"RoomAdded", "RoomEdited"} => e.room \in RoomIds /\ e.label \in Labels
         /\ e.kind = "RoomRemoved" => e.room \in RoomIds
         /\ e.kind = "UserJoined" => /\ e.user \in Users /\ e.as \in User /\ e.as.room \in RoomIds
                                     /\ ~e.as.muted
         /\ e.kind = "UserLeft" => e.user \in Others
         /\ e.kind = "UserMoved" => e.user \in Users /\ e.room \in RoomIds
         /\ e.kind = "Status" => e.user \in Users /\ e.muted \in BOOLEAN
         /\ e.kind = "Group" => e.group \in Groups /\ e.bits \in Bits \cup {None}
  BY DEF Update, User

LEMMA EventFields ==
  ASSUME NEW e \in Event
  PROVE  /\ e.kind \in {"Full", "SelfMoved", "Checkpoint"} \/ e \in Update
         /\ e.kind = "Full" => e.state \in Snapshot
         /\ e.kind = "SelfMoved" => e.room \in RoomIds
         /\ e.kind = "Checkpoint" => e.hash \in HashOf
  <1>1. CASE e \in Update
    BY <1>1, UpdateFields
  <1>2. CASE e \notin Update
    BY <1>2 DEF Event
  <1> QED
    BY <1>1, <1>2

LEMMA FrameFields ==
  ASSUME NEW f \in Frame
  PROVE  /\ f.kind \in {"update", "state"}
         /\ f.kind = "update" => f.update \in Update /\ f.hash \in HashOf
         /\ f.kind = "state" => f.state \in Snapshot
  BY DEF Frame

LEMMA CopyFields ==
  ASSUME NEW c \in Copy
  PROVE  /\ c.rooms \in [RoomIds -> Seq(Labels)] /\ c.users \in [Users -> User \cup {None}]
         /\ c.groups \in [Groups -> Bits \cup {None}] /\ HashInput(c) \in HashOf
  BY DEF Copy, HashOf, HashInput

LEMMA SnapshotIsCopy == \A c \in Snapshot : c \in Copy /\ c.users[Me] # None
  BY DEF Snapshot

(* Task t moves to the local state j; no other task moves. *)
Moves(t, j) == j \in Job /\ job' = [job EXCEPT ![t] = j]

LEMMA Moved ==
  ASSUME job \in [Tasks -> Job], NEW t \in Tasks, NEW j, Moves(t, j)
  PROVE  /\ job' \in [Tasks -> Job] /\ job'[t] = j
         /\ \A o \in Tasks \ {t} : job'[o] = job[o]
  BY DEF Moves

LEMMA JobFields ==
  ASSUME NEW j \in Job
  PROVE  /\ j.todo \in Seq(Update) /\ j.pc \in {"idle", "send", "place", "full", "state"}
         /\ j = Idle <=> j.todo = <<>> /\ j.pc = "idle" /\ j.read = <<>>
  BY DEF Job, Idle

LEMMA IdleFields == Idle \in Job /\ Idle.todo = <<>> /\ Idle.pc = "idle" /\ Idle.read = <<>>
  BY DEF Job, Idle
-----------------------------------------------------------------------------
(* What the server's steps do *)

(* An operation of t: the new state, and what is to be announced. *)
Starts(t, new, todo) ==
    /\ job[t] = Idle /\ srv' = new /\ new \in Copy /\ todo \in Seq(Update) /\ todo # <<>>
    /\ \E j : Moves(t, j) /\ j.todo = todo /\ j.pc = "idle" /\ j.read = <<>>
    /\ ops' = ops + 1
    /\ settled' = Quiet
    /\ raced' = (raced \/ \E o \in Tasks \ {t} : job[o] # Idle)
    /\ UNCHANGED <<asked, wire, phase, client>>
    /\ srv.users[Me] # None => new.users[Me] # None

(* Either it does not touch the groups, or it announces the one it changes. *)
Plain(new, todo) == new.groups = srv.groups /\ \A i \in 1..Len(todo) : todo[i].kind # "Group"
Regroups(new, todo) ==
    \E g \in Groups, b \in Bits \cup {None} :
        /\ new.groups = [srv.groups EXCEPT ![g] = b]
        /\ Len(todo) = 1 /\ todo[1].kind = "Group" /\ todo[1].group = g /\ todo[1].bits = b

LEMMA BeginStarts ==
  ASSUME TypeOK, NEW t \in Tasks, NEW new \in Copy, NEW todo \in Seq(Update), todo # <<>>,
         Begin(t, new, todo), srv.users[Me] # None => new.users[Me] # None
  PROVE  Starts(t, new, todo)
  <1>1. PICK j : j = [todo |-> todo, pc |-> "idle", read |-> <<>>]
    OBVIOUS
  <1>2. j \in Job /\ j.todo = todo /\ j.pc = "idle" /\ j.read = <<>>
    BY <1>1 DEF Job
  <1>3. job' = [job EXCEPT ![t] = j]
    <2>1. job' = [job EXCEPT ![t] = [job[t] EXCEPT !.todo = todo]]
      BY DEF Begin, TypeOK
    <2>2. job[t] = [todo |-> <<>>, pc |-> "idle", read |-> <<>>]
      BY DEF Begin, Idle
    <2>3. [job[t] EXCEPT !.todo = todo] = j
      BY <1>1, <2>2
    <2> QED
      BY <2>1, <2>3
  <1>4. Moves(t, j)
    BY <1>2, <1>3 DEF Moves
  <1> QED
    BY <1>2, <1>4 DEF Begin, Starts

LEMMA RoomChanged ==
  ASSUME NEW c \in Copy, NEW r \in RoomIds, NEW q \in Seq(Labels)
  PROVE  /\ [c EXCEPT !.rooms[r] = q] \in Copy /\ [c EXCEPT !.rooms[r] = q].users = c.users
         /\ [c EXCEPT !.rooms[r] = q].groups = c.groups
  BY DEF Copy

LEMMA UserChanged ==
  ASSUME NEW c \in Copy, NEW u \in Users, NEW x \in User \cup {None}
  PROVE  /\ [c EXCEPT !.users[u] = x] \in Copy /\ [c EXCEPT !.users[u] = x].users = [c.users EXCEPT ![u] = x]
         /\ [c EXCEPT !.users[u] = x].groups = c.groups
  BY DEF Copy

LEMMA GroupChanged ==
  ASSUME NEW c \in Copy, NEW g \in Groups, NEW b \in Bits \cup {None}
  PROVE  /\ [c EXCEPT !.groups[g] = b] \in Copy /\ [c EXCEPT !.groups[g] = b].users = c.users
         /\ [c EXCEPT !.groups[g] = b].groups = [c.groups EXCEPT ![g] = b]
  BY DEF Copy

LEMMA OneUpdate ==
  ASSUME NEW e \in Update
  PROVE  <<e>> \in Seq(Update) /\ <<e>> # <<>> /\ Len(<<e>>) = 1 /\ <<e>>[1] = e
  OBVIOUS

LEMMA RoomOps ==
  ASSUME TypeOK, NEW t \in Tasks, NEW r \in Rooms, NEW l \in Labels, CreateRoom(t, r, l) \/ EditRoom(t, r, l)
  PROVE  \E new, todo : Starts(t, new, todo) /\ Plain(new, todo)
  <1>1. r \in RoomIds /\ <<l>> \in Seq(Labels) /\ srv \in Copy
    BY ConstantsOK DEF TypeOK
  <1>2. PICK kind \in {"RoomAdded", "RoomEdited"} :
          Begin(t, [srv EXCEPT !.rooms[r] = <<l>>], <<[kind |-> kind, room |-> r, label |-> l]>>)
    BY DEF CreateRoom, EditRoom
  <1>3. PICK e : e = [kind |-> kind, room |-> r, label |-> l]
    OBVIOUS
  <1>4. e \in Update /\ e.kind = kind
    BY <1>1, <1>3 DEF Update
  <1>5. PICK new : new = [srv EXCEPT !.rooms[r] = <<l>>]
    OBVIOUS
  <1>6. new \in Copy /\ new.users = srv.users /\ new.groups = srv.groups
    BY <1>1, <1>5, RoomChanged
  <1>7. PICK todo : todo = <<e>>
    OBVIOUS
  <1>8. todo \in Seq(Update) /\ todo # <<>> /\ Len(todo) = 1 /\ todo[1] = e
    BY <1>4, <1>7, OneUpdate
  <1>9. Begin(t, new, todo)
    BY <1>2, <1>3, <1>5, <1>7
  <1>10. Starts(t, new, todo)
    BY <1>6, <1>8, <1>9, BeginStarts
  <1>11. Plain(new, todo)
    BY <1>4, <1>6, <1>8 DEF Plain
  <1> QED
    BY <1>10, <1>11

(* The record of one user changes and one update is announced. *)
LEMMA UserOp ==
  ASSUME TypeOK, NEW t \in Tasks, NEW u \in Users, NEW x \in User \cup {None}, x = None => u # Me,
         NEW todo \in Seq(Update), todo # <<>>, \A i \in 1..Len(todo) : todo[i].kind # "Group",
         Begin(t, [srv EXCEPT !.users[u] = x], todo)
  PROVE  \E new, q : Starts(t, new, q) /\ Plain(new, q)
  <1>1. PICK new : new = [srv EXCEPT !.users[u] = x]
    OBVIOUS
  <1>2. new \in Copy /\ new.users = [srv.users EXCEPT ![u] = x] /\ new.groups = srv.groups
    BY <1>1, UserChanged DEF TypeOK
  <1>3. srv.users \in [Users -> User \cup {None}]
    BY CopyFields DEF TypeOK
  <1>4. srv.users[Me] # None => new.users[Me] # None
    BY <1>2, <1>3, ConstantsOK
  <1>5. Starts(t, new, todo)
    BY <1>1, <1>2, <1>4, BeginStarts
  <1>6. Plain(new, todo)
    BY <1>2 DEF Plain
  <1> QED
    BY <1>5, <1>6

LEMMA JoinOp ==
  ASSUME TypeOK, NEW t \in Tasks, NEW u \in Users, NEW r \in RoomIds, JoinRoom(t, u, r)
  PROVE  \E new, q : Starts(t, new, q) /\ Plain(new, q)
  <1>1. PICK m \in BOOLEAN : m = (r \in NoSpeak)
    <2>1. CASE r \in NoSpeak
      <3>1. TRUE = (r \in NoSpeak)
        BY <2>1
      <3> QED
        BY <3>1
    <2>2. CASE r \notin NoSpeak
      <3>1. FALSE = (r \in NoSpeak)
        BY <2>2
      <3> QED
        BY <3>1
    <2> QED
      BY <2>1, <2>2
  <1>2. PICK x : x = [room |-> r, muted |-> m]
    OBVIOUS
  <1>3. PICK e : e = [kind |-> "UserMoved", user |-> u, room |-> r]
    OBVIOUS
  <1>4. PICK s : s = [kind |-> "Status", user |-> u, muted |-> m]
    OBVIOUS
  <1>5. x \in User /\ x # None /\ e \in Update /\ s \in Update /\ e.kind = "UserMoved" /\ s.kind = "Status"
    BY <1>2, <1>3, <1>4, ConstantsOK DEF User, Update
  <1>6. PICK todo \in {<<e>>, <<s, e>>} : Begin(t, [srv EXCEPT !.users[u] = x], todo)
    BY <1>1, <1>2, <1>3, <1>4 DEF JoinRoom
  <1>7. todo \in Seq(Update) /\ todo # <<>> /\ \A i \in 1..Len(todo) : todo[i].kind # "Group"
    <2>1. CASE todo = <<e>>
      BY <1>5, <2>1
    <2>2. CASE todo = <<s, e>>
      <3>1. todo \in Seq(Update) /\ Len(todo) = 2 /\ todo[1] = s /\ todo[2] = e
        BY <1>5, <2>2
      <3>2. todo # <<>> /\ \A i \in 1..Len(todo) : todo[i] \in {s, e}
        BY <3>1
      <3> QED
        BY <1>5, <3>1, <3>2
    <2> QED
      BY <1>6, <2>1, <2>2
  <1> QED
    BY <1>5, <1>6, <1>7, UserOp

LEMMA ArriveOp ==
  ASSUME TypeOK, NEW t \in Tasks, NEW u \in Others, Arrive(t, u) \/ Leave(t, u)
  PROVE  \E new, q : Starts(t, new, q) /\ Plain(new, q)
  <1>1. PICK x : x = [room |-> Root, muted |-> FALSE]
    OBVIOUS
  <1>2. PICK e : e = [kind |-> "UserJoined", user |-> u, as |-> x]
    OBVIOUS
  <1>3. PICK s : s = [kind |-> "UserLeft", user |-> u]
    OBVIOUS
  <1>4. /\ x \in User /\ x # None /\ u \in Users /\ u # Me
        /\ e \in Update /\ s \in Update /\ e.kind = "UserJoined" /\ s.kind = "UserLeft"
    <2>1. x \in [room : RoomIds, muted : {FALSE}] /\ x \in User /\ x # None /\ u \in Users /\ u # Me
      <3>1. x \in [room : RoomIds, muted : {FALSE}]
        BY <1>1, ConstantsOK
      <3>2. x \in User
        BY <1>1, ConstantsOK DEF User
      <3> QED
        BY <3>1, <3>2, ConstantsOK
    <2>2. e \in Update /\ e.kind = "UserJoined"
      BY <1>2, <2>1 DEF Update
    <2>3. s \in Update /\ s.kind = "UserLeft"
      BY <1>3 DEF Update
    <2> QED
      BY <2>1, <2>2, <2>3
  <1>5. CASE Arrive(t, u)
    <2>1. Begin(t, [srv EXCEPT !.users[u] = x], <<e>>)
      BY <1>1, <1>2, <1>5 DEF Arrive
    <2>2. PICK q : q = <<e>>
      OBVIOUS
    <2>3. q \in Seq(Update) /\ q # <<>> /\ \A i \in 1..Len(q) : q[i].kind # "Group"
      BY <1>4, <2>2
    <2> QED
      BY <1>4, <2>1, <2>2, <2>3, UserOp
  <1>6. CASE Leave(t, u)
    <2>1. Begin(t, [srv EXCEPT !.users[u] = None], <<s>>)
      BY <1>3, <1>6 DEF Leave
    <2>2. PICK q : q = <<s>>
      OBVIOUS
    <2>3. q \in Seq(Update) /\ q # <<>> /\ \A i \in 1..Len(q) : q[i].kind # "Group"
      BY <1>4, <2>2
    <2> QED
      BY <1>4, <2>1, <2>2, <2>3, UserOp
  <1> QED
    BY <1>5, <1>6

LEMMA GroupOp ==
  ASSUME TypeOK, NEW t \in Tasks, NEW g \in Groups, NEW b \in Bits \cup {None}, ChangeGroup(t, g, b)
  PROVE  \E new, q : Starts(t, new, q) /\ Regroups(new, q)
  <1>1. PICK e : e = [kind |-> "Group", group |-> g, bits |-> b]
    OBVIOUS
  <1>2. e \in Update /\ e.kind = "Group" /\ e.group = g /\ e.bits = b
    BY <1>1 DEF Update
  <1>3. PICK new : new = [srv EXCEPT !.groups[g] = b]
    OBVIOUS
  <1>4. new \in Copy /\ new.users = srv.users /\ new.groups = [srv.groups EXCEPT ![g] = b]
    <2>1. srv \in Copy
      BY DEF TypeOK
    <2> QED
      BY <1>3, <2>1, GroupChanged
  <1>5. PICK q : q = <<e>>
    OBVIOUS
  <1>6. q \in Seq(Update) /\ q # <<>> /\ Len(q) = 1 /\ q[1] = e
    BY <1>2, <1>5, OneUpdate
  <1>7. Begin(t, new, q)
    BY <1>1, <1>3, <1>5 DEF ChangeGroup
  <1>8. Starts(t, new, q)
    BY <1>4, <1>6, <1>7, BeginStarts
  <1>9. Regroups(new, q)
    BY <1>2, <1>4, <1>6 DEF Regroups
  <1> QED
    BY <1>8, <1>9
LEMMA DeleteOp ==
  ASSUME TypeOK, NEW t \in Tasks, NEW r \in Rooms, DeleteRoom(t, r)
  PROVE  \E new, q : Starts(t, new, q) /\ Plain(new, q)
  <1> DEFINE inside == {u \in Users : srv.users[u] # None /\ srv.users[u].room = r}
             unmuted == {u \in inside : srv.users[u].muted}
             users == [u \in Users |-> IF u \in inside THEN [room |-> Root, muted |-> FALSE] ELSE srv.users[u]]
  <1>1. PICK n : n = Cardinality(unmuted)
    OBVIOUS
  <1>2. n \in Nat
    <2>1. IsFiniteSet(Users)
      BY SyncConstants, FS_Singleton, FS_Union DEF Users
    <2>2. IsFiniteSet(unmuted)
      BY <2>1, FS_Subset
    <2> QED
      BY <1>1, <2>2, FS_CardinalityType
  <1>3. PICK order \in [1..n -> unmuted] :
          Begin(t, [srv EXCEPT !.rooms[r] = <<>>, !.users = users],
                <<[kind |-> "RoomRemoved", room |-> r]>> \o
                [i \in DOMAIN order |-> [kind |-> "Status", user |-> order[i], muted |-> FALSE]])
    BY <1>1 DEF DeleteRoom
  <1>4. PICK e : e = [kind |-> "RoomRemoved", room |-> r]
    OBVIOUS
  <1>5. e \in Update /\ e.kind = "RoomRemoved"
    BY <1>4, ConstantsOK DEF Update
  <1>6. PICK p : p = [i \in 1..n |-> [kind |-> "Status", user |-> order[i], muted |-> FALSE]]
    OBVIOUS
  <1>7. ASSUME NEW i \in 1..n PROVE p[i] \in Update /\ p[i].kind = "Status"
    <2>1. p[i] = [kind |-> "Status", user |-> order[i], muted |-> FALSE] /\ order[i] \in Users
      BY <1>6, <1>7
    <2> QED
      BY <2>1 DEF Update
  <1>8. p \in Seq(Update) /\ Len(p) = n
    BY <1>2, <1>6, <1>7
  <1>9. PICK q : q = <<e>> \o p
    OBVIOUS
  <1>10. /\ q \in Seq(Update) /\ q # <<>> /\ Len(q) = n + 1 /\ q[1] = e
         /\ \A i \in 1..Len(q) : i # 1 => q[i] = p[i - 1]
    BY <1>2, <1>5, <1>8, <1>9
  <1>11. \A i \in 1..Len(q) : q[i].kind # "Group"
    BY <1>2, <1>5, <1>7, <1>10
  <1>12. PICK us : us = users
    OBVIOUS
  <1>13. us \in [Users -> User \cup {None}] /\ (srv.users[Me] # None => us[Me] # None)
    <2>1. srv.users \in [Users -> User \cup {None}]
      BY CopyFields DEF TypeOK
    <2>2. [room |-> Root, muted |-> FALSE] \in User
      BY ConstantsOK DEF User
    <2>3. [room |-> Root, muted |-> FALSE] # None
      BY <2>2, ConstantsOK
    <2> QED
      BY <1>12, <2>1, <2>2, <2>3, ConstantsOK
  <1> HIDE DEF users, unmuted, inside
  <1>14. PICK new : new = [srv EXCEPT !.rooms[r] = <<>>, !.users = us]
    OBVIOUS
  <1>15. new \in Copy /\ new.users = us /\ new.groups = srv.groups
    <2>1. srv \in Copy /\ r \in RoomIds /\ <<>> \in Seq(Labels)
      BY ConstantsOK DEF TypeOK
    <2> QED
      BY <1>13, <1>14, <2>1 DEF Copy
  <1>16. Begin(t, new, q)
    <2>1. DOMAIN order = 1..n
      BY <1>3
    <2> QED
      BY <1>3, <1>4, <1>6, <1>9, <1>12, <1>14, <2>1
  <1>17. Starts(t, new, q)
    BY <1>10, <1>13, <1>15, <1>16, BeginStarts
  <1>18. Plain(new, q)
    BY <1>11, <1>15 DEF Plain
  <1> QED
    BY <1>17, <1>18

LEMMA OperationStarts ==
  ASSUME TypeOK, OwnOperation \/ \E t \in Handlers : Operation(t)
  PROVE  \E t \in Tasks : \E new, todo : Starts(t, new, todo) /\ (Plain(new, todo) \/ Regroups(new, todo))
  <1>1. CASE OwnOperation
    BY <1>1, ConstantsOK, JoinOp DEF OwnOperation
  <1>2. ASSUME NEW t \in Handlers, Operation(t)
        PROVE  \E new, todo : Starts(t, new, todo) /\ (Plain(new, todo) \/ Regroups(new, todo))
    <2>1. t \in Tasks
      BY ConstantsOK
    <2>2. ASSUME NEW u \in Others, \E r \in RoomIds : JoinRoom(t, u, r)
          PROVE  \E new, q : Starts(t, new, q) /\ Plain(new, q)
      BY <2>1, <2>2, ConstantsOK, JoinOp
    <2> QED
      BY <1>2, <2>1, <2>2, RoomOps, DeleteOp, ArriveOp, GroupOp DEF Operation
  <1> QED
    BY <1>1, <1>2, ConstantsOK

LEMMA HashEffect ==
  ASSUME TypeOK, NEW t \in Tasks, Hash(t)
  PROVE  /\ \E j : Moves(t, j) /\ j.pc = "send" /\ j.todo = job[t].todo /\ j.read = HashInput(srv)
         /\ job[t].pc = "idle" /\ job[t].todo # <<>>
         /\ UNCHANGED <<srv, ops, settled, raced, asked, wire, phase, client>>
  <1>1. PICK j0 \in Job : j0 = job[t]
    BY DEF TypeOK
  <1>2. PICK h \in HashOf : h = HashInput(srv)
    BY CopyFields DEF TypeOK
  <1>3. PICK j : j = [j0 EXCEPT !.pc = "send", !.read = h]
    OBVIOUS
  <1>4. j \in Job /\ j.pc = "send" /\ j.todo = j0.todo /\ j.read = h
    BY <1>3 DEF Job
  <1>5. job' = [job EXCEPT ![t] = j]
    BY <1>1, <1>2, <1>3 DEF Hash, TypeOK
  <1>6. Moves(t, j)
    BY <1>4, <1>5 DEF Moves
  <1> QED
    BY <1>1, <1>2, <1>4, <1>6 DEF Hash

LEMMA SendEffect ==
  ASSUME TypeOK, NEW t \in Tasks, SendUpdate(t)
  PROVE  /\ job[t].pc = "send" /\ job[t].todo # <<>> /\ job[t].todo \in Seq(Update)
         /\ \E j : Moves(t, j) /\ j.pc = "idle" /\ j.todo = Tail(job[t].todo) /\ j.read = <<>>
         /\ \E f \in Frame : /\ wire' = Append(wire, f) /\ f.kind = "update"
                             /\ f.update = job[t].todo[1] /\ f.hash = job[t].read
         /\ UNCHANGED <<srv, ops, settled, raced, asked, phase, client>>
  <1>1. PICK j0 \in Job : j0 = job[t]
    BY DEF TypeOK
  <1>2. PICK s \in Seq(Update) : s = j0.todo /\ s # <<>> /\ j0.pc = "send" /\ j0.read \in HashOf
    <2>1. JobSound(t) /\ j0.pc = "send"
      BY <1>1 DEF TypeOK, SendUpdate
    <2> QED
      BY <1>1, <2>1, JobFields DEF JobSound
  <1>3. Head(s) = s[1] /\ s[1] \in Update /\ Tail(s) \in Seq(Update)
    BY <1>2, SeqTail
  <1>4. PICK j : j = [todo |-> Tail(s), pc |-> "idle", read |-> <<>>]
    OBVIOUS
  <1>5. j \in Job /\ j.pc = "idle" /\ j.todo = Tail(s) /\ j.read = <<>> /\ j = [Idle EXCEPT !.todo = Tail(s)]
    <2>1. PICK q \in Seq(Update) : q = Tail(s)
      BY <1>3
    <2>2. j = [todo |-> q, pc |-> "idle", read |-> <<>>]
      BY <1>4, <2>1
    <2>3. j \in Job /\ j.pc = "idle" /\ j.todo = q /\ j.read = <<>>
      BY <2>2 DEF Job
    <2>4. j = [Idle EXCEPT !.todo = q]
      BY <2>2 DEF Idle
    <2> QED
      BY <2>1, <2>3, <2>4
  <1>6. Moves(t, j)
    BY <1>1, <1>2, <1>5 DEF SendUpdate, Moves
  <1>7. PICK f : f = [kind |-> "update", update |-> s[1], hash |-> j0.read]
    OBVIOUS
  <1>8. f \in Frame /\ f.kind = "update" /\ f.update = s[1] /\ f.hash = j0.read
    BY <1>2, <1>3, <1>7 DEF Frame
  <1>9. wire' = Append(wire, f)
    BY <1>1, <1>2, <1>3, <1>7 DEF SendUpdate
  <1> QED
    BY <1>1, <1>2, <1>5, <1>6, <1>8, <1>9 DEF SendUpdate
LEMMA PlaceEffect ==
  ASSUME TypeOK, Place
  PROVE  /\ job[Own].pc = "place"
         /\ \E j : Moves(Own, j) /\ j.pc = "full" /\ j.read = job[Own].read
                   /\ \A i \in 1..Len(j.todo) : j.todo[i].kind # "Group"
         /\ srv' \in Copy /\ srv'.users[Me] # None /\ srv'.groups = srv.groups
         /\ raced' = (raced \/ \E o \in Handlers : job[o] # Idle)
         /\ settled' = Quiet
         /\ UNCHANGED <<ops, asked, wire, phase, client>>
  <1>1. PICK r \in RoomIds :
          /\ srv' = [srv EXCEPT !.users[Me] = [room |-> r, muted |-> FALSE]]
          /\ job' = [job EXCEPT ![Own].pc = "full",
                                ![Own].todo = <<[kind |-> "UserJoined", user |-> Me,
                                                 as |-> [room |-> r, muted |-> FALSE]]>>]
    BY DEF Place
  <1>2. PICK x : x = [room |-> r, muted |-> FALSE]
    OBVIOUS
  <1>3. x \in [room : RoomIds, muted : {FALSE}] /\ x \in User
    BY <1>2 DEF User
  <1>4. x # None
    BY <1>3, ConstantsOK
  <1>5. PICK e : e = [kind |-> "UserJoined", user |-> Me, as |-> x]
    OBVIOUS
  <1>6. e \in Update /\ e.kind = "UserJoined"
    BY <1>3, <1>5, ConstantsOK DEF Update
  <1>7. PICK q : q = <<e>>
    OBVIOUS
  <1>8. q \in Seq(Update) /\ Len(q) = 1 /\ q[1] = e
    BY <1>6, <1>7, OneUpdate
  <1>9. PICK j0 \in Job : j0 = job[Own]
    BY ConstantsOK DEF TypeOK
  <1>10. PICK j : j = [j0 EXCEPT !.pc = "full", !.todo = q]
    OBVIOUS
  <1>11. j \in Job /\ j.pc = "full" /\ j.todo = q /\ j.read = j0.read
    BY <1>8, <1>10 DEF Job
  <1>12. job' = [job EXCEPT ![Own] = j]
    BY <1>1, <1>2, <1>5, <1>7, <1>9, <1>10, ConstantsOK DEF TypeOK
  <1>13. Moves(Own, j)
    BY <1>11, <1>12 DEF Moves
  <1>14. srv \in Copy /\ srv' = [srv EXCEPT !.users[Me] = x]
    BY <1>1, <1>2 DEF TypeOK
  <1>15. srv' \in Copy /\ srv'.groups = srv.groups /\ srv'.users = [srv.users EXCEPT ![Me] = x]
    BY <1>3, <1>14, ConstantsOK, UserChanged
  <1>16. srv'.users[Me] # None
    <2>1. srv.users \in [Users -> User \cup {None}]
      BY <1>14, CopyFields
    <2> QED
      BY <1>4, <1>15, <2>1, ConstantsOK
  <1>17. \A i \in 1..Len(j.todo) : j.todo[i].kind # "Group"
    <2>1. \A i \in 1..Len(q) : q[i] = e
      BY <1>8
    <2> QED
      BY <1>6, <1>11, <2>1
  <1> QED
    BY <1>9, <1>11, <1>13, <1>15, <1>16, <1>17 DEF Place

LEMMA RequestEffect ==
  ASSUME TypeOK, HandleRequestStateSync
  PROVE  /\ job[Own] = Idle /\ asked > 0 /\ asked' = asked - 1 /\ asked' \in Nat
         /\ \E j : Moves(Own, j) /\ j.pc = "full" /\ j.todo = <<>> /\ j.read = <<>>
         /\ raced' = (raced \/ \E o \in Handlers : job[o] # Idle)
         /\ UNCHANGED <<srv, ops, settled, wire, phase, client>>
  <1>1. PICK j : j = [todo |-> <<>>, pc |-> "full", read |-> <<>>]
    OBVIOUS
  <1>2. j \in Job /\ j.pc = "full" /\ j.todo = <<>> /\ j.read = <<>>
    BY <1>1 DEF Job
  <1>3. job' = [job EXCEPT ![Own] = j]
    <2>1. job' = [job EXCEPT ![Own] = [job[Own] EXCEPT !.pc = "full"]]
      BY ConstantsOK DEF HandleRequestStateSync, TypeOK
    <2>2. job[Own] = [todo |-> <<>>, pc |-> "idle", read |-> <<>>]
      BY DEF HandleRequestStateSync, Idle
    <2>3. [job[Own] EXCEPT !.pc = "full"] = j
      BY <1>1, <2>2
    <2> QED
      BY <2>1, <2>3
  <1>4. Moves(Own, j)
    BY <1>2, <1>3 DEF Moves
  <1>5. asked' \in Nat
    BY DEF HandleRequestStateSync, TypeOK
  <1> QED
    BY <1>2, <1>4, <1>5 DEF HandleRequestStateSync

LEMMA ReadEffect ==
  ASSUME TypeOK, ReadState
  PROVE  /\ job[Own].pc = "full" /\ srv \in Snapshot
         /\ \E j : Moves(Own, j) /\ j.pc = "state" /\ j.todo = job[Own].todo /\ j.read = srv
         /\ UNCHANGED <<srv, ops, settled, raced, asked, wire, phase, client>>
  <1>1. PICK j0 \in Job : j0 = job[Own] /\ j0.pc = "full"
    BY ConstantsOK DEF TypeOK, ReadState
  <1>2. srv \in Snapshot
    BY <1>1 DEF TypeOK, Snapshot
  <1>3. PICK j : j = [j0 EXCEPT !.pc = "state", !.read = srv]
    OBVIOUS
  <1>4. j \in Job /\ j.pc = "state" /\ j.todo = j0.todo /\ j.read = srv
    BY <1>2, <1>3, SnapshotIsCopy DEF Job
  <1>5. job' = [job EXCEPT ![Own] = j]
    BY <1>1, <1>3, ConstantsOK DEF ReadState, TypeOK
  <1>6. Moves(Own, j)
    BY <1>4, <1>5 DEF Moves
  <1> QED
    BY <1>1, <1>2, <1>4, <1>6 DEF ReadState

LEMMA StateEffect ==
  ASSUME TypeOK, SendState
  PROVE  /\ job[Own].pc = "state"
         /\ \E j : Moves(Own, j) /\ j.pc = "idle" /\ j.todo = job[Own].todo /\ j.read = <<>>
         /\ \E f \in Frame : wire' = Append(wire, f) /\ f.kind = "state" /\ f.state = job[Own].read
         /\ UNCHANGED <<srv, ops, settled, raced, asked, phase, client>>
  <1>1. PICK j0 \in Job : j0 = job[Own] /\ j0.pc = "state" /\ j0.read \in Snapshot
    BY ConstantsOK DEF TypeOK, SendState, JobSound
  <1>2. PICK q \in Seq(Update) : q = j0.todo
    BY JobFields
  <1>3. PICK j : j = [todo |-> q, pc |-> "idle", read |-> <<>>]
    OBVIOUS
  <1>4. j \in Job /\ j.pc = "idle" /\ j.todo = q /\ j.read = <<>>
    BY <1>3 DEF Job
  <1>5. j = [Idle EXCEPT !.todo = q]
    BY <1>3 DEF Idle
  <1>6. Moves(Own, j)
    BY <1>1, <1>2, <1>4, <1>5 DEF SendState, Moves
  <1>7. PICK f : f = [kind |-> "state", state |-> j0.read]
    OBVIOUS
  <1>8. f \in Frame /\ f.kind = "state" /\ f.state = j0.read
    BY <1>1, <1>7 DEF Frame
  <1>9. wire' = Append(wire, f)
    BY <1>1, <1>7 DEF SendState
  <1> QED
    BY <1>1, <1>2, <1>4, <1>6, <1>8, <1>9 DEF SendState

-----------------------------------------------------------------------------
(* What the receiver does *)

(* The channel is now the last part of all, k events having been dropped.  *)
Emitted(all, k) ==
    /\ all \in Seq(Event) /\ k \in Nat /\ k < Len(all)
    /\ bus' \in Seq(Event) /\ Len(bus') = Len(all) - k /\ bus' # <<>>
    /\ \A i \in 1..Len(bus') : bus'[i] = all[i + k]
    /\ ~lagged' => ~lagged /\ k = 0
    /\ lagged' \in BOOLEAN

LEMMA EmitEffect ==
  ASSUME NEW events, NEW all \in Seq(Event), all = bus \o events, Len(all) > 0, Emit(events),
         lagged \in BOOLEAN
  PROVE  \E k : Emitted(all, k)
  <1>1. Len(all) \in Nat
    OBVIOUS
  <1>2. PICK k : k = IF Len(all) > Capacity THEN Len(all) - Capacity ELSE 0
    OBVIOUS
  <1>3. k \in Nat /\ k < Len(all)
    BY <1>1, <1>2, ConstantsOK
  <1>4. bus' = SubSeq(all, k + 1, Len(all)) /\ lagged' = (lagged \/ k > 0)
    BY <1>1, <1>2 DEF Emit
  <1>5. /\ bus' \in Seq(Event) /\ Len(bus') = Len(all) - k
        /\ \A i \in 1..(Len(all) - k) : bus'[i] = all[i + k]
    BY <1>1, <1>3, <1>4, SeqSuffix
  <1>6. bus' # <<>>
    BY <1>1, <1>3, <1>5
  <1>7. (~lagged' => ~lagged /\ k = 0) /\ lagged' \in BOOLEAN
    <2>1. k > 0 => lagged'
      BY <1>4, Zenon
    <2>2. ~(k > 0) => (lagged' <=> lagged)
      BY <1>4, Zenon
    <2>3. lagged' \in BOOLEAN
      BY <1>4, Zenon
    <2>4. ~(k > 0) => k = 0
      BY <1>3
    <2> QED
      BY <2>1, <2>2, <2>3, <2>4
  <1> QED
    BY <1>1, <1>3, <1>5, <1>6, <1>7 DEF Emitted
Prefix(all) == \A i \in 1..Len(bus) : all[i] = bus[i]
Received(all) ==
    /\ Prefix(all)
    /\ wire[1].kind = "state" => /\ Len(all) = Len(bus) + 1
                                 /\ all[Len(bus) + 1].kind = "Full" /\ all[Len(bus) + 1].state = wire[1].state
    /\ wire[1].kind = "update" => /\ Len(all) = Len(bus) + 2 /\ all[Len(bus) + 1] = wire[1].update
                                  /\ all[Len(bus) + 2].kind = "Checkpoint"
                                  /\ all[Len(bus) + 2].hash = wire[1].hash
Awoken(all) ==
    /\ Prefix(all) /\ Len(all) = Len(bus) + 2
    /\ all[Len(bus) + 1].kind = "Full" /\ all[Len(bus) + 1].state = wire[1].state
    /\ all[Len(bus) + 2].kind = "SelfMoved"

LEMMA FirstFrame ==
  ASSUME TypeOK, wire # <<>>
  PROVE  Head(wire) = wire[1] /\ wire[1] \in Frame /\ wire[1].kind \in {"update", "state"}
  <1>1. Head(wire) = wire[1] /\ wire[1] \in Frame
    BY SeqTail DEF TypeOK
  <1> QED
    BY <1>1, FrameFields

LEMMA ReceiveEffect ==
  ASSUME TypeOK, Receive
  PROVE  /\ phase = "up" /\ wire # <<>> /\ wire' = Tail(wire)
         /\ \E all, k : Emitted(all, k) /\ Received(all)
         /\ UNCHANGED <<server, asked, phase, view, me, audio, connected, early, strays>>
  <1>1. wire # <<>>
    BY DEF Receive
  <1>2. PICK f \in Frame : f = wire[1] /\ f = Head(wire)
    BY <1>1, FirstFrame
  <1>3. bus \in Seq(Event) /\ lagged \in BOOLEAN
    BY DEF TypeOK
  <1>4. CASE f.kind = "state"
    <2>1. PICK e : e = [kind |-> "Full", state |-> f.state]
      OBVIOUS
    <2>2. e \in Event /\ e.kind = "Full" /\ e.state = f.state
      BY <1>4, <2>1, FrameFields DEF Event
    <2>3. Emit(<<e>>)
      BY <1>2, <1>4, <2>1 DEF Receive
    <2>4. PICK all : all = bus \o <<e>>
      OBVIOUS
    <2>5. all \in Seq(Event) /\ Len(all) = Len(bus) + 1 /\ Len(all) > 0 /\ Prefix(all) /\ all[Len(bus) + 1] = e
      BY <1>3, <2>2, <2>4, SeqOne DEF Prefix
    <2>6. \E k : Emitted(all, k)
      BY <1>3, <2>3, <2>4, <2>5, EmitEffect
    <2>7. Received(all)
      BY <1>2, <1>4, <2>2, <2>5 DEF Received
    <2> QED
      BY <2>6, <2>7 DEF Receive
  <1>5. CASE f.kind = "update"
    <2>1. PICK e : e = [kind |-> "Checkpoint", hash |-> f.hash]
      OBVIOUS
    <2>2. e \in Event /\ e.kind = "Checkpoint" /\ e.hash = f.hash
      BY <1>5, <2>1, FrameFields DEF Event
    <2>3. PICK u : u = f.update
      OBVIOUS
    <2>4. u \in Event
      BY <1>5, <2>3, FrameFields DEF Event
    <2>5. Emit(<<u, e>>)
      BY <1>2, <1>5, <2>1, <2>3 DEF Receive
    <2>6. PICK all : all = bus \o <<u, e>>
      OBVIOUS
    <2>7. /\ all \in Seq(Event) /\ Len(all) = Len(bus) + 2 /\ Len(all) > 0 /\ Prefix(all)
          /\ all[Len(bus) + 1] = u /\ all[Len(bus) + 2] = e
      BY <1>3, <2>2, <2>4, <2>6, SeqTwo DEF Prefix
    <2>8. \E k : Emitted(all, k)
      BY <1>3, <2>5, <2>6, <2>7, EmitEffect
    <2>9. Received(all)
      BY <1>2, <1>5, <2>2, <2>3, <2>7 DEF Received
    <2> QED
      BY <2>8, <2>9 DEF Receive
  <1> QED
    BY <1>1, <1>2, <1>4, <1>5, FirstFrame

LEMMA AwaitEffect ==
  ASSUME TypeOK, AwaitState
  PROVE  /\ phase = "auth" /\ wire # <<>> /\ wire' = Tail(wire)
         /\ wire[1].kind = "update" => UNCHANGED <<phase, connected, bus, lagged>>
         /\ wire[1].kind = "state" => /\ phase' = "up" /\ connected' = TRUE
                                      /\ \E all, k : Emitted(all, k) /\ Awoken(all)
         /\ UNCHANGED <<server, asked, view, me, audio, early, strays>>
  <1>1. wire # <<>>
    BY DEF AwaitState
  <1>2. PICK f \in Frame : f = wire[1] /\ f = Head(wire)
    BY <1>1, FirstFrame
  <1>3. bus \in Seq(Event) /\ lagged \in BOOLEAN
    BY DEF TypeOK
  <1>4. CASE f.kind = "state"
    <2>1. PICK e : e = [kind |-> "Full", state |-> f.state]
      OBVIOUS
    <2>2. e \in Event /\ e.kind = "Full" /\ e.state = f.state
      BY <1>4, <2>1, FrameFields DEF Event
    <2>3. PICK r : r = IF f.state.users[Me] = None THEN Root ELSE f.state.users[Me].room
      OBVIOUS
    <2>4. r \in RoomIds
      <3>1. f.state \in Copy
        BY <1>4, FrameFields, SnapshotIsCopy
      <3>2. f.state.users[Me] \in User \cup {None}
        BY <3>1, CopyFields, ConstantsOK
      <3> QED
        BY <2>3, <3>2, ConstantsOK DEF User
    <2>5. PICK u : u = [kind |-> "SelfMoved", room |-> r]
      OBVIOUS
    <2>6. u \in Event /\ u.kind = "SelfMoved"
      BY <2>4, <2>5 DEF Event
    <2>7. Emit(<<e, u>>) /\ phase' = "up" /\ connected' = TRUE
      BY <1>2, <1>4, <2>1, <2>3, <2>5 DEF AwaitState
    <2>8. PICK all : all = bus \o <<e, u>>
      OBVIOUS
    <2>9. /\ all \in Seq(Event) /\ Len(all) = Len(bus) + 2 /\ Len(all) > 0 /\ Prefix(all)
          /\ all[Len(bus) + 1] = e /\ all[Len(bus) + 2] = u
      BY <1>3, <2>2, <2>6, <2>8, SeqTwo DEF Prefix
    <2>10. \E k : Emitted(all, k)
      BY <1>3, <2>7, <2>8, <2>9, EmitEffect
    <2>11. Awoken(all)
      BY <1>2, <2>2, <2>6, <2>9 DEF Awoken
    <2> QED
      BY <1>2, <1>4, <2>7, <2>10, <2>11 DEF AwaitState
  <1>5. CASE f.kind = "update"
    BY <1>2, <1>5 DEF AwaitState
  <1> QED
    BY <1>1, <1>2, <1>4, <1>5, FirstFrame

-----------------------------------------------------------------------------
(* What an event does to the client's copy *)

LEMMA AppliedRooms ==
  ASSUME NEW v \in Copy, NEW e \in Update, e.kind \in {"RoomAdded", "RoomEdited", "RoomRemoved"}
  PROVE  Applied(v, e) \in Copy /\ Applied(v, e).users = v.users /\ Applied(v, e).groups = v.groups
  <1>1. PICK r \in RoomIds : r = e.room
    BY UpdateFields
  <1>2. v.rooms[r] \in Seq(Labels)
    BY CopyFields
  <1>3. PICK q \in Seq(Labels) : Applied(v, e) = [v EXCEPT !.rooms[r] = q]
    <2>1. CASE e.kind = "RoomAdded"
      <3>1. Append(v.rooms[r], e.label) \in Seq(Labels)
        BY <1>2, <2>1, UpdateFields, SeqAppend
      <3> QED
        BY <1>1, <2>1, <3>1 DEF Applied, Copy
    <2>2. CASE e.kind = "RoomEdited"
      <3>1. PICK l \in Labels : l = e.label
        BY <2>2, UpdateFields
      <3>2. SetFirst(v.rooms[r], l) \in Seq(Labels)
        BY <1>2 DEF SetFirst
      <3> QED
        BY <1>1, <2>2, <3>1, <3>2 DEF Applied, Copy
    <2>3. CASE e.kind = "RoomRemoved"
      <3>1. <<>> \in Seq(Labels)
        OBVIOUS
      <3>2. Applied(v, e) = [v EXCEPT !.rooms[e.room] = <<>>]
        BY <2>3 DEF Applied
      <3> QED
        BY <1>1, <3>1, <3>2
    <2> QED
      BY <2>1, <2>2, <2>3
  <1> QED
    BY <1>3, RoomChanged

UserAfter(v, e, x) ==
    /\ e.kind = "UserJoined" => x = IF v = None THEN e.as ELSE v
    /\ e.kind = "UserLeft" => x = None
    /\ e.kind = "UserMoved" => IF v = None THEN x = None ELSE x # None /\ x.room = e.room /\ x.muted = v.muted
    /\ e.kind = "Status" => IF v = None THEN x = None ELSE x # None /\ x.room = v.room /\ x.muted = e.muted

LEMMA AppliedUsers ==
  ASSUME NEW v \in Copy, NEW e \in Update, e.kind \in {"UserJoined", "UserLeft", "UserMoved", "Status"}
  PROVE  /\ Applied(v, e) \in Copy /\ Applied(v, e).groups = v.groups /\ e.user \in Users
         /\ \A p \in Users \ {e.user} : Applied(v, e).users[p] = v.users[p]
         /\ UserAfter(v.users[e.user], e, Applied(v, e).users[e.user])
  <1>1. PICK u \in Users : u = e.user
    BY UpdateFields, ConstantsOK
  <1>2. PICK y : y = v.users[u]
    OBVIOUS
  <1>3. y \in User \cup {None} /\ v.users \in [Users -> User \cup {None}]
    BY <1>2, CopyFields
  <1>4. PICK x \in User \cup {None} : Applied(v, e) = [v EXCEPT !.users[u] = x] /\ UserAfter(y, e, x)
    <2>1. CASE e.kind = "UserJoined"
      <3>1. PICK x : x = IF y = None THEN e.as ELSE y
        OBVIOUS
      <3>2. x \in User \cup {None}
        BY <1>3, <2>1, <3>1, UpdateFields
      <3>3. Applied(v, e) = [v EXCEPT !.users[u] = x]
        BY <1>1, <1>2, <2>1, <3>1 DEF Applied, Copy
      <3> QED
        BY <2>1, <3>1, <3>2, <3>3 DEF UserAfter
    <2>2. CASE e.kind = "UserLeft"
      <3>1. Applied(v, e) = [v EXCEPT !.users[u] = None]
        BY <1>1, <2>2 DEF Applied
      <3> QED
        BY <2>2, <3>1 DEF UserAfter
    <2>3. CASE e.kind = "UserMoved"
      <3>1. PICK m : m = [room |-> e.room, muted |-> y.muted]
        OBVIOUS
      <3>2. PICK x : x = IF y = None THEN y ELSE m
        OBVIOUS
      <3>3. Applied(v, e) = [v EXCEPT !.users[u] = x]
        BY <1>1, <1>2, <2>3, <3>1, <3>2 DEF Applied, Copy
      <3>4. y # None => m \in User /\ m.room = e.room /\ m.muted = y.muted
        BY <1>3, <2>3, <3>1, UpdateFields DEF User
      <3>5. x \in User \cup {None} /\ UserAfter(y, e, x)
        BY <2>3, <3>2, <3>4, ConstantsOK DEF UserAfter
      <3> QED
        BY <3>3, <3>5
    <2>4. CASE e.kind = "Status"
      <3>1. PICK m : m = [room |-> y.room, muted |-> e.muted]
        OBVIOUS
      <3>2. PICK x : x = IF y = None THEN y ELSE m
        OBVIOUS
      <3>3. Applied(v, e) = [v EXCEPT !.users[u] = x]
        BY <1>1, <1>2, <2>4, <3>1, <3>2 DEF Applied, Copy
      <3>4. y # None => m \in User /\ m.room = y.room /\ m.muted = e.muted
        BY <1>3, <2>4, <3>1, UpdateFields DEF User
      <3>5. x \in User \cup {None} /\ UserAfter(y, e, x)
        BY <2>4, <3>2, <3>4, ConstantsOK DEF UserAfter
      <3> QED
        BY <3>3, <3>5
    <2> QED
      BY <2>1, <2>2, <2>3, <2>4
  <1>5. PICK w : w = Applied(v, e)
    OBVIOUS
  <1>6. w \in Copy /\ w.groups = v.groups /\ w.users = [v.users EXCEPT ![u] = x]
    BY <1>4, <1>5, UserChanged
  <1>7. w.users[u] = x /\ \A p \in Users \ {u} : w.users[p] = v.users[p]
    BY <1>3, <1>6
  <1> QED
    BY <1>1, <1>2, <1>4, <1>5, <1>6, <1>7

LEMMA AppliedGroup ==
  ASSUME NEW v \in Copy, NEW e \in Update, e.kind = "Group"
  PROVE  /\ Applied(v, e) \in Copy /\ Applied(v, e).users = v.users
         /\ Applied(v, e).groups = [v.groups EXCEPT ![e.group] = e.bits]
  <1>1. PICK g \in Groups, b \in Bits \cup {None} : g = e.group /\ b = e.bits
    BY UpdateFields
  <1>2. Applied(v, e) = [v EXCEPT !.groups[g] = b]
    BY <1>1 DEF Applied
  <1> QED
    BY <1>1, <1>2, GroupChanged

LEMMA AppliedOther ==
  ASSUME NEW v \in Copy, NEW e \in Event, e.kind \in {"Full", "SelfMoved"}
  PROVE  Applied(v, e) = IF e.kind = "Full" THEN e.state ELSE v
  BY DEF Applied

LEMMA AppliedCopy ==
  ASSUME NEW v \in Copy, NEW e \in Event, e.kind # "Checkpoint"
  PROVE  Applied(v, e) \in Copy
  <1>1. CASE e \in Update
    BY <1>1, AppliedRooms, AppliedUsers, AppliedGroup, UpdateFields
  <1>2. CASE e.kind \in {"Full", "SelfMoved"}
    BY <1>2, AppliedOther, EventFields, SnapshotIsCopy
  <1> QED
    BY <1>1, <1>2, EventFields
-----------------------------------------------------------------------------
(* The audio task *)

Shown(p) == view.users[p] # None /\ view.users[p].room = me.room
MembersOK == me.room # None => \A p \in Users \ ({Me} \cup strays) : p \in audio.members <=> Shown(p)
MuteOK == ~early => audio.muted = IF view.users[Me] = None THEN FALSE ELSE view.users[Me].muted

LEMMA AudioParts ==
  ASSUME TypeOK
  PROVE  AudioInv <=> MembersOK /\ MuteOK
  <1>1. audio.members \subseteq Users /\ audio.muted \in BOOLEAN
    BY DEF TypeOK
  <1>2. InRoom(view.users, me.room) = {p \in Users : Shown(p)}
    BY DEF InRoom, Shown
  <1>3. (me.room # None =>
           audio.members \ ({Me} \cup strays) = InRoom(view.users, me.room) \ ({Me} \cup strays)) <=> MembersOK
    BY <1>1, <1>2 DEF MembersOK
  <1>4. ((~early /\ view.users[Me] = None => ~audio.muted)
           /\ (~early /\ view.users[Me] # None => audio.muted = view.users[Me].muted)) <=> MuteOK
    BY <1>1 DEF MuteOK
  <1>5. AudioInv <=>
          /\ me.room # None =>
                audio.members \ ({Me} \cup strays) = InRoom(view.users, me.room) \ ({Me} \cup strays)
          /\ ~early /\ view.users[Me] = None => ~audio.muted
          /\ ~early /\ view.users[Me] # None => audio.muted = view.users[Me].muted
    BY DEF AudioInv, AudioFollows
  <1> QED
    BY <1>3, <1>4, <1>5

(* What the projection does with the first event on the channel. *)
LEMMA ApplyEffect ==
  ASSUME TypeOK, ApplyEvent
  PROVE  /\ ~lagged /\ bus # <<>> /\ bus[1] \in Event /\ bus[1].kind # "Checkpoint" /\ bus' = Tail(bus)
         /\ view' = Applied(view, bus[1]) /\ view' \in Copy
         /\ audio' = Told(view, view', bus[1])
         /\ me'.room = SelfRoom(bus[1]) /\ me'.known = me.known
         /\ me' \in [known : BOOLEAN, room : RoomIds \cup {None}]
         /\ early' = (early \/ ~me.known)
         /\ strays' = IF bus[1].kind = "Full" \/ MovesSelf(bus[1]) THEN {}
                      ELSE IF /\ bus[1].kind = "UserMoved" /\ view.users[bus[1].user] = None
                              /\ bus[1].room = me.room
                           THEN strays \cup {bus[1].user} ELSE strays
         /\ UNCHANGED <<server, asked, wire, phase, lagged, connected>>
  <1>1. bus # <<>>
    BY DEF ApplyEvent
  <1>2. PICK e \in Event : e = bus[1] /\ e = Head(bus)
    BY <1>1, SeqTail DEF TypeOK
  <1>3. e.kind # "Checkpoint" /\ view' = Applied(view, e) /\ me' = [me EXCEPT !.room = SelfRoom(e)]
    BY <1>2 DEF ApplyEvent
  <1>4. view' \in Copy
    BY <1>3, AppliedCopy DEF TypeOK
  <1>5. SelfRoom(e) \in RoomIds \cup {None}
    <2>1. me.room \in RoomIds \cup {None}
      BY DEF TypeOK
    <2>2. MovesSelf(e) => e.room \in RoomIds
      BY EventFields, UpdateFields DEF MovesSelf
    <2> QED
      BY <2>1, <2>2 DEF SelfRoom
  <1>6. PICK r \in RoomIds \cup {None} : r = SelfRoom(e)
    BY <1>5
  <1>7. me'.room = r /\ me'.known = me.known /\ me' \in [known : BOOLEAN, room : RoomIds \cup {None}]
    BY <1>3, <1>6 DEF TypeOK
  <1>8. /\ ~lagged /\ bus' = Tail(bus) /\ audio' = Told(view, view', e)
        /\ early' = (early \/ ~me.known)
        /\ strays' = IF e.kind = "Full" \/ MovesSelf(e) THEN {}
                      ELSE IF e.kind = "UserMoved" /\ view.users[e.user] = None /\ e.room = me.room
                           THEN strays \cup {e.user} ELSE strays
        /\ UNCHANGED <<server, asked, wire, phase, lagged, connected>>
    BY <1>2, <1>3 DEF ApplyEvent
  <1> QED
    BY <1>1, <1>2, <1>3, <1>4, <1>6, <1>7, <1>8

LEMMA AudioSets ==
  ASSUME TypeOK, NEW M \in SUBSET Users
  PROVE  /\ [audio EXCEPT !.members = M] \in [members : SUBSET Users, muted : BOOLEAN]
         /\ [audio EXCEPT !.members = M].members = M /\ [audio EXCEPT !.members = M].muted = audio.muted
  BY DEF TypeOK

LEMMA PeersIn ==
  ASSUME NEW us, NEW r
  PROVE  /\ Peers(us, r) \in SUBSET Users
         /\ \A p \in Users \ {Me} : p \in Peers(us, r) <=> us[p] # None /\ us[p].room = r
  BY DEF Peers, InRoom

LEMMA ToldFull ==
  ASSUME NEW v, NEW w, NEW e, e.kind = "Full"
  PROVE  Told(v, w, e) = ToldAll(w)
  BY DEF Told, MovesSelf

(* A full state, or a move of this client's own: the whole list is told.   *)
LEMMA ToldWhole ==
  ASSUME TypeOK, MuteOK, ApplyEvent, bus[1].kind = "Full" \/ MovesSelf(bus[1])
  PROVE  audio' \in [members : SUBSET Users, muted : BOOLEAN] /\ strays' = {} /\ MembersOK' /\ MuteOK'
  <1>1. PICK e \in Event : e = bus[1]
    BY ApplyEffect
  <1>2. /\ view' = Applied(view, e) /\ view' \in Copy /\ audio' = Told(view, view', e)
        /\ me'.room = SelfRoom(e) /\ me'.known = me.known /\ early' = (early \/ ~me.known) /\ strays' = {}
    BY <1>1, ApplyEffect
  <1>3. view \in Copy /\ view.users[Me] \in User \cup {None}
    BY CopyFields, ConstantsOK DEF TypeOK
  <1>4. CASE e.kind = "Full"
    <2>1. view' = e.state /\ e.state \in Snapshot /\ view'.users[Me] # None
      BY <1>2, <1>3, <1>4, AppliedOther, EventFields, SnapshotIsCopy
    <2>2. view'.users[Me] \in User
      BY <1>2, <2>1, CopyFields, ConstantsOK
    <2>3. me'.room = me.room
      BY <1>2, <1>4 DEF SelfRoom, MovesSelf
    <2>4. PICK M : M = IF me.room # None THEN Peers(view'.users, me.room) ELSE audio.members
      OBVIOUS
    <2>5. M \in SUBSET Users
      BY <2>4, PeersIn DEF TypeOK
    <2>6. PICK b : b = IF me.known /\ view'.users[Me] # None THEN view'.users[Me].muted ELSE audio.muted
      OBVIOUS
    <2>7. b \in BOOLEAN
      BY <2>2, <2>6 DEF User, TypeOK
    <2>8. audio' = [members |-> M, muted |-> b]
      <3>1. PICK w : w = view'
        OBVIOUS
      <3>2. Told(view, w, e) = [members |-> IF me.room # None THEN Peers(w.users, me.room) ELSE audio.members,
               muted   |-> IF me.known /\ w.users[Me] # None THEN w.users[Me].muted ELSE audio.muted]
        BY <1>4, ToldFull DEF ToldAll
      <3> QED
        BY <1>2, <2>4, <2>6, <3>1, <3>2
    <2>9. audio' \in [members : SUBSET Users, muted : BOOLEAN] /\ audio'.members = M /\ audio'.muted = b
      BY <2>5, <2>7, <2>8
    <2>10. MembersOK'
      BY <1>2, <2>3, <2>4, <2>9, PeersIn DEF MembersOK, Shown
    <2>11. MuteOK'
      <3>1. ~early' => me.known
        BY <1>2
      <3> QED
        BY <2>1, <2>6, <2>9, <3>1 DEF MuteOK
    <2> QED
      BY <1>2, <2>9, <2>10, <2>11
  <1>5. CASE MovesSelf(e)
    <2>1. e.kind \in {"SelfMoved", "UserMoved"} /\ me'.room = e.room
      BY <1>2, <1>5 DEF SelfRoom, MovesSelf
    <2>2. PICK M \in SUBSET Users : M = Peers(view'.users, e.room)
      BY PeersIn
    <2>3. audio' = [audio EXCEPT !.members = M]
      BY <1>2, <1>5, <2>1, <2>2 DEF Told
    <2>4. /\ audio' \in [members : SUBSET Users, muted : BOOLEAN] /\ audio'.members = M
          /\ audio'.muted = audio.muted
      BY <2>3, AudioSets
    <2>5. MembersOK'
      BY <1>2, <2>1, <2>2, <2>4, PeersIn DEF MembersOK, Shown
    <2>6. /\ view'.users[Me] = None <=> view.users[Me] = None
          /\ view'.users[Me] # None => view'.users[Me].muted = view.users[Me].muted
      <3>1. CASE e.kind = "SelfMoved"
        BY <1>2, <1>3, <3>1, AppliedOther
      <3>2. CASE e.kind = "UserMoved"
        <4>1. e \in Update /\ e.user = Me
          BY <1>5, <3>2, EventFields DEF MovesSelf
        <4>2. UserAfter(view.users[Me], e, view'.users[Me])
          BY <1>2, <1>3, <3>2, <4>1, AppliedUsers
        <4> QED
          BY <3>2, <4>2 DEF UserAfter
      <3> QED
        BY <2>1, <3>1, <3>2
    <2>7. ~early' => ~early
      BY <1>2
    <2>8. MuteOK'
      BY <2>4, <2>6, <2>7 DEF MuteOK
    <2> QED
      BY <1>2, <2>4, <2>5, <2>8
  <1> QED
    BY <1>1, <1>4, <1>5

(* An update of one user, or of rooms or groups: a change is told. *)
LEMMA AudioKept ==
  ASSUME TypeOK, MembersOK, MuteOK, audio' = audio, strays' = strays, me'.room = me.room, view'.users = view.users,
         ~early' => ~early
  PROVE  MembersOK' /\ MuteOK'
  BY DEF MembersOK, MuteOK, Shown

LEMMA OthersKept ==
  ASSUME TypeOK, MembersOK, NEW u \in Users, me'.room = me.room,
         \A p \in Users \ {u} : view'.users[p] = view.users[p] /\ (p \in audio'.members <=> p \in audio.members),
         strays \subseteq strays',
         u # Me /\ u \notin strays' /\ me.room # None => (u \in audio'.members <=> Shown(u)')
  PROVE  MembersOK'
  <1>1. SUFFICES ASSUME me'.room # None, NEW p \in Users \ ({Me} \cup strays')
                 PROVE  p \in audio'.members <=> Shown(p)'
    BY DEF MembersOK
  <1>2. CASE p = u
    BY <1>1, <1>2
  <1>3. CASE p # u
    BY <1>1, <1>3 DEF MembersOK, Shown
  <1> QED
    BY <1>2, <1>3

LEMMA ToldMembers ==
  ASSUME TypeOK, NEW u \in Users, NEW a, a \in {[audio EXCEPT !.members = @ \cup {u}], [audio EXCEPT !.members = @ \ {u}]}
  PROVE  /\ a \in [members : SUBSET Users, muted : BOOLEAN] /\ a.muted = audio.muted
         /\ \A p \in Users \ {u} : p \in a.members <=> p \in audio.members
  <1>1. audio.members \in SUBSET Users
    BY DEF TypeOK
  <1>2. CASE a = [audio EXCEPT !.members = @ \cup {u}]
    <2>1. audio.members \cup {u} \in SUBSET Users
      BY <1>1
    <2>2. a = [audio EXCEPT !.members = audio.members \cup {u}]
      BY <1>2
    <2> QED
      BY <2>1, <2>2, AudioSets
  <1>3. CASE a = [audio EXCEPT !.members = @ \ {u}]
    <2>1. audio.members \ {u} \in SUBSET Users
      BY <1>1
    <2>2. a = [audio EXCEPT !.members = audio.members \ {u}]
      BY <1>3
    <2> QED
      BY <2>1, <2>2, AudioSets
  <1> QED
    BY <1>2, <1>3

Was(v, u) == v.users[u] # None /\ v.users[u].room = me.room
Joins(v, e) ==
    /\ me.room # None
    /\ \/ e.kind = "UserJoined" /\ v.users[e.user] = None /\ e.as.room = me.room
       \/ e.kind = "UserMoved" /\ e.room = me.room
Drops(v, e) ==
    /\ me.room # None /\ Was(v, e.user)
    /\ e.kind = "UserLeft" \/ (e.kind = "UserMoved" /\ e.room # me.room)

LEMMA ToldUser ==
  ASSUME NEW v, NEW w, NEW e, ~MovesSelf(e), e.kind \in {"UserJoined", "UserLeft", "UserMoved"}
  PROVE  /\ Joins(v, e) => Told(v, w, e) = [audio EXCEPT !.members = @ \cup {e.user}]
         /\ Drops(v, e) => Told(v, w, e) = [audio EXCEPT !.members = @ \ {e.user}]
         /\ ~Joins(v, e) /\ ~Drops(v, e) => Told(v, w, e) = audio
  <1>1. CASE e.kind = "UserJoined"
    BY <1>1 DEF Told, Joins, Drops, Was
  <1>2. CASE e.kind = "UserLeft"
    BY <1>2 DEF Told, Joins, Drops, Was
  <1>3. CASE e.kind = "UserMoved"
    BY <1>3 DEF Told, Joins, Drops, Was
  <1> QED
    BY <1>1, <1>2, <1>3

LEMMA ToldUserStep ==
  ASSUME TypeOK, MembersOK, MuteOK, ApplyEvent, ~MovesSelf(bus[1]),
         bus[1].kind \in {"UserJoined", "UserLeft", "UserMoved"}
  PROVE  audio' \in [members : SUBSET Users, muted : BOOLEAN] /\ strays' \subseteq Users /\ MembersOK' /\ MuteOK'
  <1>1. PICK e \in Event : e = bus[1]
    BY ApplyEffect
  <1>2. /\ view' = Applied(view, e) /\ view' \in Copy /\ audio' = Told(view, view', e)
        /\ me'.room = SelfRoom(e) /\ me'.known = me.known /\ early' = (early \/ ~me.known)
        /\ strays' = IF e.kind = "UserMoved" /\ view.users[e.user] = None /\ e.room = me.room
                     THEN strays \cup {e.user} ELSE strays
    BY <1>1, ApplyEffect
  <1>3. view \in Copy /\ strays \subseteq Users /\ audio \in [members : SUBSET Users, muted : BOOLEAN]
    BY DEF TypeOK
  <1>4. e \in Update /\ e.kind \in {"UserJoined", "UserLeft", "UserMoved"}
    BY <1>1, EventFields
  <1>5. PICK u \in Users : u = e.user
    BY <1>4, UpdateFields, ConstantsOK
  <1>6. /\ \A p \in Users \ {u} : view'.users[p] = view.users[p]
        /\ UserAfter(view.users[u], e, view'.users[u])
    BY <1>2, <1>3, <1>4, <1>5, AppliedUsers
  <1>7. me'.room = me.room
    BY <1>1, <1>2 DEF SelfRoom
  <1>8. strays \subseteq strays' /\ strays' \subseteq Users
    BY <1>2, <1>3, <1>5
  <1>9. /\ audio' \in [members : SUBSET Users, muted : BOOLEAN] /\ audio'.muted = audio.muted
        /\ \A p \in Users \ {u} : p \in audio'.members <=> p \in audio.members
        /\ Joins(view, e) => u \in audio'.members
        /\ Drops(view, e) => u \notin audio'.members
        /\ ~Joins(view, e) /\ ~Drops(view, e) => audio' = audio
    <2>1. CASE Joins(view, e)
      <3>1. audio' = [audio EXCEPT !.members = @ \cup {u}]
        BY <1>1, <1>2, <1>4, <1>5, <2>1, ToldUser
      <3>2. u \in audio'.members
        BY <1>3, <3>1
      <3>3. ~Drops(view, e)
        BY <2>1, <1>4 DEF Joins, Drops
      <3> QED
        BY <2>1, <3>1, <3>2, <3>3, ToldMembers
    <2>2. CASE Drops(view, e)
      <3>1. audio' = [audio EXCEPT !.members = @ \ {u}]
        BY <1>1, <1>2, <1>4, <1>5, <2>2, ToldUser
      <3>2. u \notin audio'.members
        BY <1>3, <3>1
      <3>3. ~Joins(view, e)
        BY <2>2, <1>4 DEF Joins, Drops
      <3> QED
        BY <2>2, <3>1, <3>2, <3>3, ToldMembers
    <2>3. CASE ~Joins(view, e) /\ ~Drops(view, e)
      <3>1. audio' = audio
        BY <1>1, <1>2, <1>4, <2>3, ToldUser
      <3> QED
        BY <1>3, <2>3, <3>1
    <2> QED
      BY <2>1, <2>2, <2>3
  <1>10. ASSUME u # Me, u \notin strays', me.room # None
         PROVE  u \in audio'.members <=> Shown(u)'
    <2>1. u \in audio.members <=> Was(view, u)
      BY <1>8, <1>10 DEF MembersOK, Shown, Was
    <2>2. CASE e.kind = "UserJoined"
      <3>1. e.as # None
        BY <1>4, <2>2, UpdateFields, ConstantsOK
      <3>2. view'.users[u] = IF view.users[u] = None THEN e.as ELSE view.users[u]
        BY <1>6, <2>2 DEF UserAfter
      <3> QED
        BY <1>5, <1>7, <1>9, <1>10, <2>1, <2>2, <3>1, <3>2 DEF Joins, Drops, Was, Shown
    <2>3. CASE e.kind = "UserLeft"
      BY <1>5, <1>6, <1>7, <1>9, <1>10, <2>1, <2>3 DEF Joins, Drops, Was, UserAfter, Shown
    <2>4. CASE e.kind = "UserMoved"
      <3>1. e.room = me.room => view.users[u] # None
        BY <1>2, <1>5, <1>10, <2>4
      <3> QED
        BY <1>5, <1>6, <1>7, <1>9, <1>10, <2>1, <2>4, <3>1 DEF Joins, Drops, Was, UserAfter, Shown
    <2> QED
      BY <1>4, <2>2, <2>3, <2>4
  <1>11. MembersOK'
    BY <1>6, <1>7, <1>8, <1>9, <1>10, OthersKept
  <1>12. MuteOK'
    <2>1. SUFFICES ASSUME ~early' PROVE audio'.muted = IF view'.users[Me] = None THEN FALSE ELSE view'.users[Me].muted
      BY DEF MuteOK
    <2>2. ~early /\ me.known
      BY <1>2, <2>1
    <2>3. audio.muted = IF view.users[Me] = None THEN FALSE ELSE view.users[Me].muted
      BY <2>2 DEF MuteOK
    <2>4. CASE u # Me
      BY <1>6, <1>9, <2>3, <2>4, ConstantsOK
    <2>5. CASE u = Me
      <3>1. e.kind = "UserJoined"
        BY <1>1, <1>4, <1>5, <2>2, <2>5, UpdateFields, ConstantsOK DEF MovesSelf
      <3>2. view'.users[Me] = IF view.users[Me] = None THEN e.as ELSE view.users[Me]
        BY <1>6, <2>5, <3>1 DEF UserAfter
      <3>3. e.as # None /\ ~e.as.muted /\ e.as \in User
        BY <1>4, <3>1, UpdateFields, ConstantsOK
      <3>4. e.as.muted \in BOOLEAN
        BY <3>3 DEF User
      <3>5. CASE view.users[Me] = None
        <4>1. view'.users[Me] = e.as /\ audio.muted = FALSE
          BY <2>3, <3>2, <3>5
        <4>2. e.as.muted = FALSE
          BY <3>3, <3>4
        <4> QED
          BY <1>9, <3>3, <4>1, <4>2
      <3>6. CASE view.users[Me] # None
        BY <1>9, <2>3, <3>2, <3>6
      <3> QED
        BY <3>5, <3>6
    <2> QED
      BY <2>4, <2>5
  <1> QED
    BY <1>8, <1>9, <1>11, <1>12

LEMMA ToldStatusStep ==
  ASSUME TypeOK, MembersOK, MuteOK, ApplyEvent, bus[1].kind = "Status"
  PROVE  audio' \in [members : SUBSET Users, muted : BOOLEAN] /\ strays' \subseteq Users /\ MembersOK' /\ MuteOK'
  <1>1. PICK e \in Event : e = bus[1]
    BY ApplyEffect
  <1>2. /\ view' = Applied(view, e) /\ view' \in Copy /\ audio' = Told(view, view', e)
        /\ me'.room = SelfRoom(e) /\ me'.known = me.known /\ early' = (early \/ ~me.known)
        /\ strays' = strays
    BY <1>1, ApplyEffect DEF MovesSelf
  <1>3. view \in Copy /\ strays \subseteq Users /\ audio \in [members : SUBSET Users, muted : BOOLEAN]
    BY DEF TypeOK
  <1>4. e \in Update /\ e.kind = "Status" /\ e.muted \in BOOLEAN
    BY <1>1, EventFields, UpdateFields
  <1>5. PICK u \in Users : u = e.user
    BY <1>4, UpdateFields
  <1>6. /\ \A p \in Users \ {u} : view'.users[p] = view.users[p]
        /\ UserAfter(view.users[u], e, view'.users[u])
    BY <1>2, <1>3, <1>4, <1>5, AppliedUsers
  <1>7. me'.room = me.room
    BY <1>2, <1>4 DEF SelfRoom, MovesSelf
  <1>8. PICK w : w = view'
    OBVIOUS
  <1>9. Told(view, w, e) = IF u = Me /\ me.known /\ view.users[Me] # None /\ view.users[Me].muted # e.muted
                           THEN [audio EXCEPT !.muted = e.muted] ELSE audio
    BY <1>4, <1>5 DEF Told, MovesSelf
  <1>10. /\ audio' \in [members : SUBSET Users, muted : BOOLEAN] /\ audio'.members = audio.members
         /\ u = Me /\ me.known /\ view.users[Me] # None /\ view.users[Me].muted # e.muted => audio'.muted = e.muted
         /\ ~(u = Me /\ me.known /\ view.users[Me] # None /\ view.users[Me].muted # e.muted) => audio' = audio
    BY <1>2, <1>3, <1>4, <1>8, <1>9
  <1>11. MembersOK'
    <2>1. Shown(u)' <=> Shown(u)
      BY <1>4, <1>6, <1>7 DEF UserAfter, Shown
    <2>2. u # Me /\ u \notin strays' /\ me.room # None => (u \in audio'.members <=> Shown(u)')
      BY <1>2, <1>10, <2>1 DEF MembersOK
    <2>3. \A p \in Users \ {u} : view'.users[p] = view.users[p] /\ (p \in audio'.members <=> p \in audio.members)
      BY <1>6, <1>10
    <2> QED
      BY <1>2, <1>7, <2>2, <2>3, OthersKept
  <1>12. MuteOK'
    <2>1. SUFFICES ASSUME ~early' PROVE audio'.muted = IF view'.users[Me] = None THEN FALSE ELSE view'.users[Me].muted
      BY DEF MuteOK
    <2>2. ~early /\ me.known
      BY <1>2, <2>1
    <2>3. audio.muted = IF view.users[Me] = None THEN FALSE ELSE view.users[Me].muted
      BY <2>2 DEF MuteOK
    <2>4. CASE u # Me
      BY <1>6, <1>10, <2>3, <2>4, ConstantsOK
    <2>5. CASE u = Me /\ view.users[Me] = None
      <3>1. view'.users[Me] = None
        BY <1>4, <1>6, <2>5 DEF UserAfter
      <3> QED
        BY <1>10, <2>3, <2>5, <3>1
    <2>6. CASE u = Me /\ view.users[Me] # None
      <3>1. view'.users[Me] # None /\ view'.users[Me].muted = e.muted
        BY <1>4, <1>6, <2>6 DEF UserAfter
      <3>2. CASE view.users[Me].muted # e.muted
        BY <1>10, <2>2, <2>6, <3>1, <3>2
      <3>3. CASE view.users[Me].muted = e.muted
        <4>1. audio' = audio /\ audio.muted = view.users[Me].muted
          BY <1>10, <2>3, <2>6, <3>3
        <4> QED
          BY <3>1, <3>3, <4>1
      <3> QED
        BY <3>2, <3>3
    <2> QED
      BY <2>4, <2>5, <2>6
  <1> QED
    BY <1>2, <1>3, <1>10, <1>11, <1>12

LEMMA ToldNothingStep ==
  ASSUME TypeOK, MembersOK, MuteOK, ApplyEvent,
         bus[1].kind \in {"RoomAdded", "RoomEdited", "RoomRemoved", "Group"}
  PROVE  audio' \in [members : SUBSET Users, muted : BOOLEAN] /\ strays' \subseteq Users /\ MembersOK' /\ MuteOK'
  <1>1. PICK e \in Event : e = bus[1]
    BY ApplyEffect
  <1>2. /\ view' = Applied(view, e) /\ audio' = Told(view, view', e)
        /\ me'.room = SelfRoom(e) /\ early' = (early \/ ~me.known) /\ strays' = strays
    BY <1>1, ApplyEffect DEF MovesSelf
  <1>3. view \in Copy /\ strays \subseteq Users /\ audio \in [members : SUBSET Users, muted : BOOLEAN]
    BY DEF TypeOK
  <1>4. e \in Update
    BY <1>1, EventFields
  <1>5. view'.users = view.users
    BY <1>1, <1>2, <1>3, <1>4, AppliedRooms, AppliedGroup
  <1>6. me'.room = me.room
    BY <1>1, <1>2 DEF SelfRoom, MovesSelf
  <1>7. PICK w : w = view'
    OBVIOUS
  <1>8. Told(view, w, e) = audio
    BY <1>1 DEF Told, MovesSelf
  <1>9. MembersOK' /\ MuteOK'
    BY <1>2, <1>5, <1>6, <1>7, <1>8, AudioKept
  <1> QED
    BY <1>2, <1>3, <1>7, <1>8, <1>9

LEMMA ToldStep ==
  ASSUME TypeOK, MembersOK, MuteOK, ApplyEvent
  PROVE  audio' \in [members : SUBSET Users, muted : BOOLEAN] /\ strays' \subseteq Users /\ MembersOK' /\ MuteOK'
  <1>1. bus[1] \in Event /\ bus[1].kind # "Checkpoint"
    BY ApplyEffect
  <1>2. CASE bus[1].kind = "Full" \/ MovesSelf(bus[1])
    BY <1>2, ToldWhole
  <1>3. CASE bus[1].kind # "Full" /\ ~MovesSelf(bus[1])
    <2>1. bus[1] \in Update
      BY <1>1, <1>3, EventFields DEF MovesSelf
    <2> QED
      BY <1>3, <2>1, UpdateFields, ToldUserStep, ToldStatusStep, ToldNothingStep
  <1> QED
    BY <1>2, <1>3

-----------------------------------------------------------------------------
(* Type correctness *)

ServerTyped ==
    /\ srv \in Copy /\ job \in [Tasks -> Job] /\ \A t \in Tasks : JobSound(t)
    /\ job[Own].pc # "place" => srv.users[Me] # None
LinkTyped == asked \in Nat /\ wire \in Seq(Frame) /\ phase \in {"auth", "up"}
ClientTyped ==
    /\ bus \in Seq(Event) /\ view \in Copy
    /\ me \in [known : BOOLEAN, room : RoomIds \cup {None}]
    /\ audio \in [members : SUBSET Users, muted : BOOLEAN]
    /\ strays \subseteq Users /\ connected \in BOOLEAN /\ lagged \in BOOLEAN /\ early \in BOOLEAN
HistoryTyped == ops \in Nat /\ settled \in BOOLEAN /\ raced \in BOOLEAN

LEMMA TypeParts == TypeOK <=> ServerTyped /\ LinkTyped /\ ClientTyped /\ HistoryTyped
  BY DEF TypeOK, ServerTyped, LinkTyped, ClientTyped, HistoryTyped

LEMMA TypePartsNext == TypeOK' <=> ServerTyped' /\ LinkTyped' /\ ClientTyped' /\ HistoryTyped'
  BY DEF TypeOK, ServerTyped, LinkTyped, ClientTyped, HistoryTyped, JobSound

LEMMA ClientKept ==
  ASSUME TypeOK, UNCHANGED client
  PROVE  ClientTyped'
  BY TypeParts DEF ClientTyped, client

SoundJob(t, j) ==
    /\ j.pc = "idle" => j.read = <<>>
    /\ j.pc = "send" => j.read \in HashOf /\ j.todo # <<>>
    /\ j.pc = "state" => j.read \in Snapshot
    /\ j.pc \in {"place", "full", "state"} => t = Own

LEMMA ServerMoves ==
  ASSUME TypeOK, NEW t \in Tasks, NEW j, Moves(t, j), SoundJob(t, j), j.pc # "place",
         srv' \in Copy, srv.users[Me] # None => srv'.users[Me] # None,
         t = Own => srv'.users[Me] # None
  PROVE  ServerTyped'
  <1>1. /\ job' \in [Tasks -> Job] /\ job'[t] = j
        /\ \A o \in Tasks \ {t} : job'[o] = job[o]
    BY Moved DEF TypeOK
  <1>2. ASSUME NEW o \in Tasks PROVE JobSound(o)'
    <2>1. CASE o = t
      BY <1>1, <2>1 DEF SoundJob, JobSound
    <2>2. CASE o # t
      <3>1. JobSound(o) /\ job'[o] = job[o]
        BY <1>1, <2>2 DEF TypeOK
      <3> QED
        BY <3>1 DEF JobSound
    <2> QED
      BY <2>1, <2>2
  <1>3. job'[Own].pc # "place" => srv'.users[Me] # None
    BY <1>1, ConstantsOK DEF TypeOK
  <1> QED
    BY <1>1, <1>2, <1>3 DEF ServerTyped

LEMMA ServerKept ==
  ASSUME TypeOK, UNCHANGED server
  PROVE  ServerTyped' /\ HistoryTyped'
  BY TypeParts DEF ServerTyped, HistoryTyped, server, JobSound

LEMMA TypeOperation ==
  ASSUME TypeOK, NEW t \in Tasks, NEW new, NEW todo, Starts(t, new, todo)
  PROVE  TypeOK'
  <1>1. PICK j : Moves(t, j) /\ j.todo = todo /\ j.pc = "idle" /\ j.read = <<>>
    BY DEF Starts
  <1>2. job[t] = Idle /\ srv' = new /\ new \in Copy /\ (srv.users[Me] # None => new.users[Me] # None)
    BY DEF Starts
  <1>3. SoundJob(t, j)
    BY <1>1 DEF SoundJob
  <1>4. t = Own => srv'.users[Me] # None
    BY <1>2, IdleFields DEF TypeOK
  <1>5. ServerTyped'
    BY <1>1, <1>2, <1>3, <1>4, ServerMoves
  <1>6. LinkTyped' /\ ClientTyped'
    <2>1. UNCHANGED client /\ UNCHANGED <<asked, wire, phase>>
      BY DEF Starts
    <2> QED
      BY <2>1, TypeParts, ClientKept DEF LinkTyped
  <1>7. HistoryTyped'
    <2>1. settled' \in BOOLEAN
      BY Zenon DEF Starts, Quiet
    <2>2. raced' \in BOOLEAN
      BY Zenon DEF Starts
    <2>3. ops' \in Nat
      BY DEF Starts, TypeOK
    <2> QED
      BY <2>1, <2>2, <2>3 DEF HistoryTyped
  <1> QED
    BY <1>5, <1>6, <1>7, TypePartsNext

LEMMA TypeBroadcast ==
  ASSUME TypeOK, NEW t \in Tasks, Broadcast(t)
  PROVE  TypeOK'
  <1>1. srv \in Copy /\ wire \in Seq(Frame) /\ job[t] \in Job /\ JobSound(t)
    BY DEF TypeOK
  <1>2. CASE Hash(t)
    <2>1. PICK j : Moves(t, j) /\ j.pc = "send" /\ j.todo = job[t].todo /\ j.read = HashInput(srv)
      BY <1>2, HashEffect
    <2>2. job[t].pc = "idle" /\ job[t].todo # <<>> /\ UNCHANGED <<srv, ops, settled, raced, asked, wire, phase, client>>
      BY <1>2, HashEffect
    <2>3. SoundJob(t, j)
      BY <1>1, <2>1, <2>2, CopyFields DEF SoundJob
    <2>4. t = Own => srv'.users[Me] # None
      BY <2>2 DEF TypeOK
    <2>5. ServerTyped'
      BY <1>1, <2>1, <2>2, <2>3, <2>4, ServerMoves
    <2> QED
      BY <2>2, <2>5, TypeParts, TypePartsNext, ClientKept DEF LinkTyped, HistoryTyped
  <1>3. CASE SendUpdate(t)
    <2>1. PICK j : Moves(t, j) /\ j.pc = "idle" /\ j.todo = Tail(job[t].todo) /\ j.read = <<>>
      BY <1>3, SendEffect
    <2>2. job[t].pc = "send" /\ UNCHANGED <<srv, ops, settled, raced, asked, phase, client>>
      BY <1>3, SendEffect
    <2>3. SoundJob(t, j)
      BY <2>1 DEF SoundJob
    <2>4. t = Own => srv'.users[Me] # None
      BY <2>2 DEF TypeOK
    <2>5. ServerTyped'
      BY <1>1, <2>1, <2>2, <2>3, <2>4, ServerMoves
    <2>6. wire' \in Seq(Frame)
      BY <1>1, <1>3, SendEffect, SeqAppend
    <2> QED
      BY <2>2, <2>5, <2>6, TypeParts, TypePartsNext, ClientKept DEF LinkTyped, HistoryTyped
  <1> QED
    BY <1>2, <1>3 DEF Broadcast

LEMMA TypeOwnStep ==
  ASSUME TypeOK, OwnStep
  PROVE  TypeOK'
  <1>1. srv \in Copy /\ wire \in Seq(Frame) /\ job[Own] \in Job /\ JobSound(Own) /\ Own \in Tasks
    BY ConstantsOK DEF TypeOK
  <1>2. CASE Place
    <2>1. PICK j : Moves(Own, j) /\ j.pc = "full" /\ j.read = job[Own].read
      BY <1>2, PlaceEffect
    <2>2. srv' \in Copy /\ srv'.users[Me] # None /\ UNCHANGED <<ops, asked, wire, phase, client>>
      BY <1>2, PlaceEffect
    <2>3. SoundJob(Own, j)
      BY <2>1 DEF SoundJob
    <2>4. ServerTyped'
      BY <1>1, <2>1, <2>2, <2>3, ServerMoves
    <2>5. settled' \in BOOLEAN /\ raced' \in BOOLEAN
      <3>1. settled' = Quiet /\ raced' = (raced \/ \E o \in Handlers : job[o] # Idle)
        BY <1>2, PlaceEffect
      <3> QED
        BY <3>1, Zenon DEF Quiet
    <2> QED
      BY <2>2, <2>4, <2>5, TypeParts, TypePartsNext, ClientKept DEF LinkTyped, HistoryTyped
  <1>3. CASE HandleRequestStateSync
    <2>1. PICK j : Moves(Own, j) /\ j.pc = "full" /\ j.todo = <<>> /\ j.read = <<>>
      BY <1>3, RequestEffect
    <2>2. job[Own] = Idle /\ asked' \in Nat /\ UNCHANGED <<srv, ops, settled, wire, phase, client>>
      BY <1>3, RequestEffect
    <2>3. SoundJob(Own, j)
      BY <2>1 DEF SoundJob
    <2>4. srv'.users[Me] # None
      BY <2>2, IdleFields DEF TypeOK
    <2>5. ServerTyped'
      BY <1>1, <2>1, <2>2, <2>3, <2>4, ServerMoves
    <2>6. raced' \in BOOLEAN
      <3>1. raced' = (raced \/ \E o \in Handlers : job[o] # Idle)
        BY <1>3, RequestEffect
      <3> QED
        BY <3>1, Zenon
    <2> QED
      BY <2>2, <2>5, <2>6, TypeParts, TypePartsNext, ClientKept DEF LinkTyped, HistoryTyped
  <1>4. CASE ReadState
    <2>1. PICK j : Moves(Own, j) /\ j.pc = "state" /\ j.todo = job[Own].todo /\ j.read = srv
      BY <1>4, ReadEffect
    <2>2. srv \in Snapshot /\ UNCHANGED <<srv, ops, settled, raced, asked, wire, phase, client>>
      BY <1>4, ReadEffect
    <2>3. SoundJob(Own, j)
      BY <2>1, <2>2 DEF SoundJob
    <2>4. ServerTyped'
      BY <1>1, <2>1, <2>2, <2>3, SnapshotIsCopy, ServerMoves
    <2> QED
      BY <2>2, <2>4, TypeParts, TypePartsNext, ClientKept DEF LinkTyped, HistoryTyped
  <1>5. CASE SendState
    <2>1. PICK j : Moves(Own, j) /\ j.pc = "idle" /\ j.todo = job[Own].todo /\ j.read = <<>>
      BY <1>5, StateEffect
    <2>2. job[Own].pc = "state" /\ UNCHANGED <<srv, ops, settled, raced, asked, phase, client>>
      BY <1>5, StateEffect
    <2>3. SoundJob(Own, j)
      BY <2>1 DEF SoundJob
    <2>4. srv'.users[Me] # None
      BY <2>2 DEF TypeOK
    <2>5. ServerTyped'
      BY <1>1, <2>1, <2>2, <2>3, <2>4, ServerMoves
    <2>6. wire' \in Seq(Frame)
      BY <1>1, <1>5, StateEffect, SeqAppend
    <2> QED
      BY <2>2, <2>5, <2>6, TypeParts, TypePartsNext, ClientKept DEF LinkTyped, HistoryTyped
  <1> QED
    BY <1>2, <1>3, <1>4, <1>5 DEF OwnStep

LEMMA TypeReceiver ==
  ASSUME TypeOK, Receiver
  PROVE  TypeOK'
  <1>1. wire \in Seq(Frame) /\ ClientTyped /\ LinkTyped
    BY TypeParts DEF TypeOK
  <1>2. CASE AwaitState
    <2>1. /\ wire # <<>> /\ wire' = Tail(wire) /\ UNCHANGED <<server, asked, view, me, audio, early, strays>>
          /\ wire[1].kind \in {"update", "state"}
      BY <1>2, AwaitEffect, FirstFrame
    <2>2. wire' \in Seq(Frame)
      BY <1>1, <2>1, SeqTail
    <2>3. bus' \in Seq(Event) /\ lagged' \in BOOLEAN /\ connected' \in BOOLEAN /\ phase' \in {"auth", "up"}
      <3>1. CASE wire[1].kind = "update"
        BY <1>1, <1>2, <3>1, AwaitEffect DEF ClientTyped, LinkTyped
      <3>2. CASE wire[1].kind = "state"
        BY <1>2, <3>2, AwaitEffect DEF Emitted
      <3> QED
        BY <2>1, <3>1, <3>2
    <2> QED
      BY <1>1, <2>1, <2>2, <2>3, TypePartsNext, ServerKept DEF ClientTyped, LinkTyped
  <1>3. CASE Receive
    <2>1. /\ wire # <<>> /\ wire' = Tail(wire)
          /\ UNCHANGED <<server, asked, phase, view, me, audio, connected, early, strays>>
      BY <1>3, ReceiveEffect
    <2>2. wire' \in Seq(Frame)
      BY <1>1, <2>1, SeqTail
    <2>3. bus' \in Seq(Event) /\ lagged' \in BOOLEAN
      BY <1>3, ReceiveEffect DEF Emitted
    <2> QED
      BY <1>1, <2>1, <2>2, <2>3, TypePartsNext, ServerKept DEF ClientTyped, LinkTyped
  <1> QED
    BY <1>2, <1>3 DEF Receiver

LEMMA VerifyEffect ==
  ASSUME TypeOK, VerifyHash
  PROVE  /\ ~lagged /\ bus # <<>> /\ bus[1] \in Event /\ bus[1].kind = "Checkpoint" /\ bus' = Tail(bus)
         /\ asked' \in Nat /\ asked' >= asked
         /\ HashInput(view) # bus[1].hash => asked' = asked + 1
         /\ UNCHANGED <<server, wire, phase, lagged, view, me, audio, connected, early, strays>>
  <1>1. bus # <<>>
    BY DEF VerifyHash
  <1>2. PICK e \in Event : e = bus[1] /\ e = Head(bus)
    BY <1>1, SeqTail DEF TypeOK
  <1>3. asked \in Nat /\ asked' = IF HashInput(view) = e.hash THEN asked ELSE asked + 1
    BY <1>2 DEF VerifyHash, TypeOK
  <1>4. asked' \in Nat /\ asked' >= asked /\ (HashInput(view) # e.hash => asked' = asked + 1)
    BY <1>3
  <1> QED
    BY <1>1, <1>2, <1>4 DEF VerifyHash

LEMMA TypeProjection ==
  ASSUME TypeOK, MembersOK, MuteOK, Consume \/ OnLag \/ ApplyConnected
  PROVE  TypeOK'
  <1>1. ClientTyped /\ LinkTyped /\ bus \in Seq(Event) /\ asked \in Nat
    BY TypeParts DEF TypeOK
  <1>2. CASE ApplyEvent
    <2>1. /\ bus # <<>> /\ bus' = Tail(bus) /\ view' \in Copy
          /\ me' \in [known : BOOLEAN, room : RoomIds \cup {None}] /\ early' = (early \/ ~me.known)
          /\ UNCHANGED <<server, asked, wire, phase, lagged, connected>>
      BY <1>2, ApplyEffect
    <2>2. bus' \in Seq(Event)
      BY <1>1, <2>1, SeqTail
    <2>3. early' \in BOOLEAN
      BY <2>1, Zenon
    <2>4. audio' \in [members : SUBSET Users, muted : BOOLEAN] /\ strays' \subseteq Users
      BY <1>2, ToldStep
    <2> QED
      BY <1>1, <2>1, <2>2, <2>3, <2>4, TypePartsNext, ServerKept DEF ClientTyped, LinkTyped
  <1>3. CASE VerifyHash
    <2>1. /\ bus # <<>> /\ bus' = Tail(bus) /\ asked' \in Nat
          /\ UNCHANGED <<server, wire, phase, lagged, view, me, audio, connected, early, strays>>
      BY <1>3, VerifyEffect
    <2>2. bus' \in Seq(Event)
      BY <1>1, <2>1, SeqTail
    <2> QED
      BY <1>1, <2>1, <2>2, TypePartsNext, ServerKept DEF ClientTyped, LinkTyped
  <1>4. CASE OnLag
    <2>1. /\ lagged' = FALSE /\ asked' = asked + 1
          /\ UNCHANGED <<server, wire, phase, bus, view, me, audio, connected, early, strays>>
      BY <1>4 DEF OnLag
    <2>2. lagged' \in BOOLEAN
      BY <2>1, Zenon
    <2>3. asked' \in Nat
      BY <1>1, <2>1
    <2> QED
      BY <1>1, <2>1, <2>2, <2>3, TypePartsNext, ServerKept DEF ClientTyped, LinkTyped
  <1>5. CASE ApplyConnected
    <2>1. /\ connected' = FALSE /\ me' = [me EXCEPT !.known = TRUE]
          /\ UNCHANGED <<server, asked, wire, phase, bus, lagged, view, audio, early, strays>>
      BY <1>5 DEF ApplyConnected
    <2>2. me' \in [known : BOOLEAN, room : RoomIds \cup {None}]
      BY <1>1, <2>1 DEF ClientTyped
    <2> QED
      BY <1>1, <2>1, <2>2, TypePartsNext, ServerKept DEF ClientTyped, LinkTyped
  <1> QED
    BY <1>2, <1>3, <1>4, <1>5 DEF Consume

LEMMA TypeNext ==
  ASSUME TypeOK, MembersOK, MuteOK, [Next]_vars
  PROVE  TypeOK'
  <1>1. CASE OwnOperation \/ \E t \in Handlers : Operation(t)
    BY <1>1, OperationStarts, TypeOperation
  <1>2. CASE OwnStep
    BY <1>2, TypeOwnStep
  <1>3. CASE \E t \in Tasks : Broadcast(t)
    BY <1>3, TypeBroadcast
  <1>4. CASE Receiver
    BY <1>4, TypeReceiver
  <1>5. CASE Consume \/ OnLag \/ ApplyConnected
    BY <1>5, TypeProjection
  <1>6. CASE UNCHANGED vars
    <2>1. UNCHANGED server /\ UNCHANGED client /\ UNCHANGED <<asked, wire, phase>>
      BY <1>6 DEF vars, server, client
    <2> QED
      BY <2>1, TypeParts, TypePartsNext, ServerKept, ClientKept DEF LinkTyped
  <1> QED
    BY <1>1, <1>2, <1>3, <1>4, <1>5, <1>6 DEF Next

LEMMA TypeInit == Init => TypeOK /\ MembersOK /\ MuteOK
  <1> SUFFICES ASSUME Init PROVE TypeOK /\ MembersOK /\ MuteOK
    OBVIOUS
  <1>1. PICK l \in Labels, b \in Bits, here \in {{}, Rooms}, on \in SUBSET Others :
          srv = [rooms |-> [r \in RoomIds |-> IF r \in here \cup {Root} THEN <<l>> ELSE <<>>],
                 users |-> [u \in Users |->
                     IF u \in on THEN [room |-> Root, muted |-> FALSE] ELSE None],
                 groups |-> [g \in Groups |-> b]]
    BY DEF Init
  <1>2. srv \in Copy
    <2>1. <<l>> \in Seq(Labels) /\ <<>> \in Seq(Labels)
      OBVIOUS
    <2>2. [r \in RoomIds |-> IF r \in here \cup {Root} THEN <<l>> ELSE <<>>] \in [RoomIds -> Seq(Labels)]
      BY <2>1
    <2>3. PICK x : x = [room |-> Root, muted |-> FALSE]
      OBVIOUS
    <2>4. x \in User
      BY <2>3, ConstantsOK DEF User
    <2>5. [u \in Users |-> IF u \in on THEN x ELSE None] \in [Users -> User \cup {None}]
      BY <2>4
    <2> QED
      BY <1>1, <2>2, <2>3, <2>5 DEF Copy
  <1>3. PICK j : j = [todo |-> <<>>, pc |-> "place", read |-> <<>>]
    OBVIOUS
  <1>4. j \in Job /\ j.pc = "place" /\ j = [Idle EXCEPT !.pc = "place"]
    BY <1>3 DEF Job, Idle
  <1>5. job = [t \in Tasks |-> IF t = Own THEN j ELSE Idle]
    BY <1>4 DEF Init
  <1>6. job \in [Tasks -> Job] /\ \A t \in Tasks : JobSound(t)
    BY <1>4, <1>5, IdleFields DEF JobSound
  <1>7. ServerTyped
    BY <1>2, <1>4, <1>5, <1>6, ConstantsOK DEF ServerTyped
  <1>8. view \in Copy /\ view.users[Me] = None
    <2>1. [r \in RoomIds |-> <<>>] \in [RoomIds -> Seq(Labels)]
      OBVIOUS
    <2> QED
      BY <2>1, ConstantsOK DEF Init, Empty, Copy
  <1>9. /\ LinkTyped
        /\ me \in [known : BOOLEAN, room : RoomIds \cup {None}] /\ me.room = None
        /\ audio \in [members : SUBSET Users, muted : BOOLEAN] /\ audio.muted = FALSE
        /\ bus \in Seq(Event) /\ strays = {}
        /\ connected \in BOOLEAN /\ lagged \in BOOLEAN /\ early \in BOOLEAN
    <2>1. me = [known |-> FALSE, room |-> None] /\ audio = [members |-> {}, muted |-> FALSE]
      BY DEF Init
    <2>2. me \in [known : BOOLEAN, room : RoomIds \cup {None}] /\ me.room = None
      BY <2>1
    <2>3. audio \in [members : SUBSET Users, muted : BOOLEAN] /\ audio.muted = FALSE
      BY <2>1
    <2>4. asked = 0 /\ wire = <<>> /\ phase = "auth" /\ bus = <<>> /\ strays = {}
      BY DEF Init
    <2>5. connected \in BOOLEAN /\ lagged \in BOOLEAN /\ early \in BOOLEAN
      BY Zenon DEF Init
    <2> QED
      BY <2>2, <2>3, <2>4, <2>5 DEF LinkTyped
  <1>10. HistoryTyped
    <2>1. settled \in BOOLEAN /\ raced \in BOOLEAN
      BY Zenon DEF Init
    <2>2. ops \in 0..MaxOps
      BY DEF Init
    <2> QED
      BY <2>1, <2>2, SyncConstants DEF HistoryTyped
  <1>11. TypeOK
    BY <1>7, <1>8, <1>9, <1>10, TypeParts DEF ClientTyped
  <1> QED
    BY <1>8, <1>9, <1>11 DEF MembersOK, MuteOK

LEMMA AudioNext ==
  ASSUME TypeOK, MembersOK, MuteOK, [Next]_vars
  PROVE  MembersOK' /\ MuteOK'
  <1>1. CASE ApplyEvent
    BY <1>1, ToldStep
  <1>2. CASE ~ApplyEvent
    <2>1. UNCHANGED <<view, audio, early, strays>> /\ me'.room = me.room
      <3>1. CASE OwnOperation \/ \E t \in Handlers : Operation(t)
        BY <3>1, OperationStarts DEF Starts, client
      <3>2. CASE OwnStep
        BY <3>2 DEF OwnStep, Place, HandleRequestStateSync, ReadState, SendState, client
      <3>3. CASE \E t \in Tasks : Broadcast(t)
        BY <3>3 DEF Broadcast, Hash, SendUpdate, client
      <3>4. CASE Receiver
        BY <3>4 DEF Receiver, AwaitState, Receive
      <3>5. CASE Consume \/ OnLag
        BY <1>2, <3>5 DEF Consume, VerifyHash, OnLag
      <3>6. CASE ApplyConnected
        BY <3>6 DEF ApplyConnected, TypeOK
      <3>7. CASE UNCHANGED vars
        BY <3>7 DEF vars
      <3> QED
        BY <3>1, <3>2, <3>3, <3>4, <3>5, <3>6, <3>7 DEF Next
    <2> QED
      BY <2>1 DEF MembersOK, MuteOK, Shown
  <1> QED
    BY <1>1, <1>2

(***************************************************************************)
(* Rooms, users and groups keep their shape on the server, on the wire, on *)
(* the room channel and in the client's State, whatever the handlers, the  *)
(* receiver and the projection do and in whatever order: a snapshot names  *)
(* the client it was read for, and a handler sends only what it has read.  *)
(***************************************************************************)
THEOREM SyncTyped == Spec => []TypeOK
  <1>1. Init => TypeOK /\ MembersOK /\ MuteOK
    BY TypeInit
  <1>2. (TypeOK /\ MembersOK /\ MuteOK) /\ [Next]_vars => (TypeOK /\ MembersOK /\ MuteOK)'
    BY TypeNext, AudioNext
  <1> QED
    BY <1>1, <1>2, PTL DEF Spec

(***************************************************************************)
(* The audio task's room members and its server mute are what the client   *)
(* shows, after every event the projection applies (apply_room), for any   *)
(* number of users, handlers and operations and any capacity of the        *)
(* channel, whichever events are dropped, repeated or overtaken: only a    *)
(* user moved while State has not got it is told of and not shown.         *)
(***************************************************************************)
THEOREM AudioAlwaysFollows == Spec => []AudioFollows
  <1>1. Init => TypeOK /\ MembersOK /\ MuteOK
    BY TypeInit
  <1>2. (TypeOK /\ MembersOK /\ MuteOK) /\ [Next]_vars => (TypeOK /\ MembersOK /\ MuteOK)'
    BY TypeNext, AudioNext
  <1>3. TypeOK /\ MembersOK /\ MuteOK => AudioFollows
    BY AudioParts DEF AudioInv
  <1> QED
    BY <1>1, <1>2, <1>3, PTL DEF Spec

-----------------------------------------------------------------------------
(* The hash *)

FreshJobs == \A t \in Tasks : JobFresh(job[t])
FreshWire == \A i \in 1..Len(wire) : FrameFresh(wire[i])
FreshBus ==
    /\ \A i \in 1..Len(bus) : EventFresh(bus[i])
    /\ bus # <<>> => bus[Len(bus)].kind \in {"Full", "Checkpoint"}

LEMMA FreshParts ==
  /\ Fresh <=> (settled /\ phase = "up" => FreshJobs /\ FreshWire /\ FreshBus)
  /\ Fresh' <=> (settled' /\ phase' = "up" => FreshJobs' /\ FreshWire' /\ FreshBus')
  BY DEF Fresh, FreshJobs, FreshWire, FreshBus

LEMMA FreshJobMoves ==
  ASSUME TypeOK, NEW t \in Tasks, NEW j, Moves(t, j), srv' = srv,
         \A o \in Tasks \ {t} : JobFresh(job[o]),
         j.pc = "send" => j.read = HashInput(srv), j.pc = "state" => j.read = srv
  PROVE  FreshJobs'
  <1>1. job'[t] = j /\ \A o \in Tasks \ {t} : job'[o] = job[o]
    BY Moved DEF TypeOK
  <1>2. HashInput(srv)' = HashInput(srv)
    BY DEF HashInput
  <1>3. ASSUME NEW o \in Tasks PROVE JobFresh(job[o])'
    <2>1. CASE o = t
      BY <1>1, <1>2, <2>1 DEF JobFresh
    <2>2. CASE o # t
      BY <1>1, <1>2, <2>2 DEF JobFresh
    <2> QED
      BY <2>1, <2>2
  <1> QED
    BY <1>3 DEF FreshJobs

LEMMA FreshWireKept ==
  ASSUME FreshWire, srv' = srv, wire' = wire
  PROVE  FreshWire'
  BY DEF FreshWire, FrameFresh, HashInput

LEMMA FreshWireSent ==
  ASSUME TypeOK, FreshWire, srv' = srv, NEW f \in Frame, wire' = Append(wire, f), FrameFresh(f)
  PROVE  FreshWire'
  <1>1. /\ Len(wire') = Len(wire) + 1 /\ Len(wire) \in Nat /\ wire'[Len(wire) + 1] = f
        /\ \A i \in 1..Len(wire) : wire'[i] = wire[i]
    BY SeqAppend DEF TypeOK
  <1>2. \A i \in 1..Len(wire') : FrameFresh(wire'[i])
    BY <1>1 DEF FreshWire
  <1> QED
    BY <1>2 DEF FreshWire, FrameFresh, HashInput

LEMMA FreshWireRead ==
  ASSUME TypeOK, FreshWire, srv' = srv, wire # <<>>, wire' = Tail(wire)
  PROVE  FreshWire' /\ FrameFresh(wire[1])
  <1>1. Len(wire') = Len(wire) - 1 /\ Len(wire) \in Nat /\ Len(wire) >= 1 /\ \A i \in 1..Len(wire') : wire'[i] = wire[i + 1]
    BY SeqTail DEF TypeOK
  <1>2. \A i \in 1..Len(wire') : FrameFresh(wire'[i])
    BY <1>1 DEF FreshWire
  <1>3. FrameFresh(wire[1])
    BY <1>1 DEF FreshWire
  <1> QED
    BY <1>2, <1>3 DEF FreshWire, FrameFresh, HashInput

LEMMA FreshBusKept ==
  ASSUME FreshBus, srv' = srv, bus' = bus
  PROVE  FreshBus'
  BY DEF FreshBus, EventFresh, HashInput

LEMMA FreshBusRead ==
  ASSUME TypeOK, FreshBus, srv' = srv, bus # <<>>, bus' = Tail(bus)
  PROVE  FreshBus'
  <1>1. Len(bus') = Len(bus) - 1 /\ Len(bus) \in Nat /\ Len(bus) >= 1 /\ \A i \in 1..Len(bus') : bus'[i] = bus[i + 1]
    BY SeqTail DEF TypeOK
  <1>2. \A i \in 1..Len(bus') : EventFresh(bus'[i])
    BY <1>1 DEF FreshBus
  <1>3. bus' # <<>> => bus'[Len(bus')] = bus[Len(bus)]
    <2>1. bus' \in Seq(Event)
      BY SeqTail DEF TypeOK
    <2>2. bus' # <<>> => Len(bus') >= 1
      BY <2>1
    <2> QED
      BY <1>1, <2>2
  <1> QED
    BY <1>2, <1>3 DEF FreshBus, EventFresh, HashInput

LEMMA FreshBusFilled ==
  ASSUME TypeOK, FreshBus, srv' = srv, wire # <<>>, FrameFresh(wire[1]), NEW all, NEW k, Emitted(all, k), Received(all)
  PROVE  FreshBus'
  <1>1. /\ all \in Seq(Event) /\ k \in Nat /\ k < Len(all) /\ Len(all) \in Nat
        /\ bus' \in Seq(Event) /\ Len(bus') = Len(all) - k /\ bus' # <<>>
        /\ \A i \in 1..Len(bus') : bus'[i] = all[i + k]
    BY DEF Emitted
  <1>2. bus \in Seq(Event) /\ Len(bus) \in Nat /\ wire[1] \in Frame /\ wire[1].kind \in {"update", "state"}
    BY FirstFrame DEF TypeOK
  <1>3. \A i \in 1..Len(bus) : EventFresh(all[i])
    BY DEF FreshBus, Received, Prefix
  <1>4. /\ \A i \in 1..Len(all) : EventFresh(all[i])
        /\ all[Len(all)].kind \in {"Full", "Checkpoint"}
    <2>1. CASE wire[1].kind = "state"
      <3>1. Len(all) = Len(bus) + 1 /\ all[Len(bus) + 1].kind = "Full" /\ all[Len(bus) + 1].state = wire[1].state
        BY <2>1 DEF Received
      <3>2. EventFresh(all[Len(bus) + 1])
        BY <2>1, <3>1 DEF EventFresh, FrameFresh
      <3> QED
        BY <1>2, <1>3, <3>1, <3>2
    <2>2. CASE wire[1].kind = "update"
      <3>1. /\ Len(all) = Len(bus) + 2 /\ all[Len(bus) + 1] = wire[1].update
            /\ all[Len(bus) + 2].kind = "Checkpoint" /\ all[Len(bus) + 2].hash = wire[1].hash
        BY <2>2 DEF Received
      <3>2. EventFresh(all[Len(bus) + 2])
        BY <2>2, <3>1 DEF EventFresh, FrameFresh
      <3>3. wire[1].update \in Update
        BY <1>2, <2>2, FrameFields
      <3>4. EventFresh(all[Len(bus) + 1])
        BY <3>1, <3>3, UpdateFields DEF EventFresh
      <3> QED
        BY <1>2, <1>3, <3>1, <3>2, <3>4
    <2> QED
      BY <1>2, <2>1, <2>2
  <1>5. \A i \in 1..Len(bus') : EventFresh(bus'[i])
    BY <1>1, <1>4
  <1>6. bus'[Len(bus')] = all[Len(all)]
    BY <1>1
  <1> QED
    BY <1>4, <1>5, <1>6 DEF FreshBus, EventFresh, HashInput

LEMMA StillJobs ==
  ASSUME NEW t \in Tasks, job'[t] # Idle \/ wire' # <<>> \/ bus' # <<>>
  PROVE  ~Still'
  BY DEF Still

LEMMA HashOperation ==
  ASSUME TypeOK, HashInv, NEW t \in Tasks, NEW new, NEW todo, Starts(t, new, todo)
  PROVE  HashInv'
  <1>1. PICK j : Moves(t, j) /\ j.todo = todo /\ j.pc = "idle" /\ j.read = <<>>
    BY DEF Starts
  <1>2. job'[t] = j /\ \A o \in Tasks \ {t} : job'[o] = job[o]
    BY <1>1, Moved DEF TypeOK
  <1>3. /\ job[t] = Idle /\ todo # <<>> /\ settled' = Quiet /\ wire' = wire /\ phase' = phase /\ bus' = bus
    BY DEF Starts, client
  <1>4. settled' => Quiet
    BY <1>3
  <1>5. Awaited'
    BY <1>2, <1>3, IdleFields, ConstantsOK DEF HashInv, Awaited
  <1>6. Quiet => phase # "auth"
    BY IdleFields, ConstantsOK DEF Quiet, HashInv, Awaited
  <1>7. BeforeLogin'
    BY <1>3, <1>4, <1>6 DEF BeforeLogin
  <1>8. Fresh'
    <2>1. ASSUME Quiet PROVE FreshJobs' /\ FreshWire' /\ FreshBus'
      <3>1. wire' = <<>> /\ bus' = <<>> /\ \A o \in Tasks : job[o] = Idle
        BY <1>3, <2>1 DEF Quiet
      <3>2. \A o \in Tasks : job'[o].pc = "idle"
        BY <1>1, <1>2, <3>1, IdleFields
      <3> QED
        BY <3>1, <3>2 DEF FreshJobs, JobFresh, FreshWire, FreshBus
    <2> QED
      BY <1>4, <2>1, FreshParts
  <1>9. Matches'
    <2>1. job'[t] # Idle
      BY <1>1, <1>2, <1>3, IdleFields
    <2> QED
      BY <2>1, StillJobs DEF Matches
  <1> QED
    BY <1>5, <1>7, <1>8, <1>9 DEF HashInv

LEMMA HashPlace ==
  ASSUME TypeOK, HashInv, Place
  PROVE  HashInv'
  <1>1. PICK j : Moves(Own, j) /\ j.pc = "full"
    BY PlaceEffect
  <1>2. job'[Own] = j
    BY <1>1, Moved, ConstantsOK DEF TypeOK
  <1>3. job[Own].pc = "place" /\ settled' = Quiet /\ wire' = wire /\ phase' = phase
    BY PlaceEffect
  <1>4. ~settled'
    BY <1>3, IdleFields, ConstantsOK DEF Quiet
  <1> QED
    BY <1>1, <1>2, <1>3, <1>4 DEF HashInv, Awaited, BeforeLogin, Fresh, Matches

(* A step of a task that leaves the server's state alone. *)
LEMMA HashTask ==
  ASSUME TypeOK, HashInv, NEW t \in Tasks, NEW j, Moves(t, j),
         job[t].pc # "place" /\ (t = Own \/ job[t] # Idle),
         UNCHANGED <<srv, settled, phase, bus>>,
         j.pc = "send" => j.read = HashInput(srv), j.pc = "state" => j.read = srv,
         \/ wire' = wire /\ j # Idle
         \/ \E f \in Frame : wire' = Append(wire, f) /\ (settled /\ phase = "up" => FrameFresh(f)),
         t = Own /\ job[t].pc \in {"place", "full", "state"} =>
            j.pc \in {"full", "state"} \/ \E f \in Frame : wire' = Append(wire, f) /\ f.kind = "state"
  PROVE  HashInv'
  <1>1. job'[t] = j /\ \A o \in Tasks \ {t} : job'[o] = job[o]
    BY Moved DEF TypeOK
  <1>2. wire \in Seq(Frame)
    BY DEF TypeOK
  <1>3. \A f \in Frame : /\ Len(Append(wire, f)) = Len(wire) + 1 /\ Append(wire, f)[Len(wire) + 1] = f
                         /\ Append(wire, f) # <<>>
                         /\ \A i \in 1..Len(wire) : Append(wire, f)[i] = wire[i]
    BY <1>2, SeqAppend
  <1>4. Len(wire) \in Nat
    BY <1>2
  <1>5. settled => phase = "up"
    <2>1. SUFFICES ASSUME settled, phase = "auth" PROVE FALSE
      BY DEF TypeOK
    <2>2. job[Own].pc = "place" /\ \A o \in Handlers : job[o] = Idle
      BY <2>1 DEF HashInv, BeforeLogin
    <2> QED
      BY <2>2, ConstantsOK DEF Tasks
  <1>6. BeforeLogin'
    BY <1>5 DEF BeforeLogin
  <1>7. Awaited'
    <2>1. SUFFICES ASSUME phase = "auth"
                   PROVE  job'[Own].pc \in {"place", "full", "state"} \/ \E i \in 1..Len(wire') : wire'[i].kind = "state"
      BY DEF Awaited
    <2>2. CASE \E i \in 1..Len(wire) : wire[i].kind = "state"
      <3>1. PICK i \in 1..Len(wire) : wire[i].kind = "state"
        BY <2>2
      <3>2. wire'[i] = wire[i] /\ i \in 1..Len(wire')
        BY <1>3, <1>4
      <3> QED
        BY <3>1, <3>2
    <2>3. CASE job[Own].pc \in {"place", "full", "state"}
      <3>1. CASE t # Own
        BY <1>1, <2>3, <3>1, ConstantsOK
      <3>2. CASE t = Own /\ j.pc \in {"full", "state"}
        BY <1>1, <3>2
      <3>3. CASE t = Own /\ \E f \in Frame : wire' = Append(wire, f) /\ f.kind = "state"
        <4>1. PICK f \in Frame : wire' = Append(wire, f) /\ f.kind = "state"
          BY <3>3
        <4>2. wire'[Len(wire) + 1] = f /\ Len(wire) + 1 \in 1..Len(wire')
          BY <1>3, <1>4, <4>1
        <4> QED
          BY <4>1, <4>2
      <3> QED
        BY <2>3, <3>1, <3>2, <3>3
    <2> QED
      BY <2>1, <2>2, <2>3 DEF HashInv, Awaited
  <1>8. Fresh'
    <2>1. SUFFICES ASSUME settled, phase = "up" PROVE FreshJobs' /\ FreshWire' /\ FreshBus'
      BY FreshParts
    <2>2. FreshJobs /\ FreshWire /\ FreshBus
      BY <2>1, FreshParts DEF HashInv
    <2>3. FreshJobs'
      BY <2>2, FreshJobMoves DEF FreshJobs
    <2>4. FreshWire'
      BY <2>1, <2>2, FreshWireKept, FreshWireSent
    <2> QED
      BY <2>2, <2>3, <2>4, FreshBusKept
  <1>9. ~Still'
    BY <1>1, <1>3, StillJobs
  <1> QED
    BY <1>6, <1>7, <1>8, <1>9 DEF HashInv, Matches

LEMMA HashBroadcast ==
  ASSUME TypeOK, HashInv, NEW t \in Tasks, Broadcast(t)
  PROVE  HashInv'
  <1>1. job[t] \in Job
    BY DEF TypeOK
  <1>2. CASE Hash(t)
    <2>1. PICK j : Moves(t, j) /\ j.pc = "send" /\ j.read = HashInput(srv)
      BY <1>2, HashEffect
    <2>2. job[t].pc = "idle" /\ job[t] # Idle /\ UNCHANGED <<srv, settled, phase, bus, wire>>
      BY <1>2, HashEffect, IdleFields DEF client
    <2>3. j # Idle
      BY <2>1, IdleFields
    <2> QED
      BY <2>1, <2>2, <2>3, HashTask
  <1>3. CASE SendUpdate(t)
    <2>1. PICK j : Moves(t, j) /\ j.pc = "idle"
      BY <1>3, SendEffect
    <2>2. job[t].pc = "send" /\ job[t] # Idle /\ UNCHANGED <<srv, settled, phase, bus>>
      BY <1>3, SendEffect, IdleFields DEF client
    <2>3. PICK f \in Frame : wire' = Append(wire, f) /\ f.kind = "update" /\ f.hash = job[t].read
      BY <1>3, SendEffect
    <2>4. settled /\ phase = "up" => FrameFresh(f)
      <3>1. settled /\ phase = "up" => JobFresh(job[t])
        BY DEF HashInv, Fresh
      <3> QED
        BY <2>2, <2>3, <3>1 DEF JobFresh, FrameFresh
    <2> QED
      BY <2>1, <2>2, <2>3, <2>4, HashTask
  <1> QED
    BY <1>2, <1>3 DEF Broadcast

LEMMA HashOwnStep ==
  ASSUME TypeOK, HashInv, OwnStep
  PROVE  HashInv'
  <1>1. CASE HandleRequestStateSync
    <2>1. PICK j : Moves(Own, j) /\ j.pc = "full"
      BY <1>1, RequestEffect
    <2>2. job[Own].pc = "idle" /\ UNCHANGED <<srv, settled, phase, bus, wire>>
      BY <1>1, RequestEffect, IdleFields DEF client
    <2>3. j # Idle
      BY <2>1, IdleFields
    <2> QED
      BY <2>1, <2>2, <2>3, HashTask, ConstantsOK
  <1>2. CASE ReadState
    <2>1. PICK j : Moves(Own, j) /\ j.pc = "state" /\ j.read = srv
      BY <1>2, ReadEffect
    <2>2. job[Own].pc = "full" /\ UNCHANGED <<srv, settled, phase, bus, wire>>
      BY <1>2, ReadEffect DEF client
    <2>3. j # Idle
      BY <2>1, IdleFields
    <2> QED
      BY <2>1, <2>2, <2>3, HashTask, ConstantsOK
  <1>3. CASE SendState
    <2>1. PICK j : Moves(Own, j) /\ j.pc = "idle"
      BY <1>3, StateEffect
    <2>2. job[Own].pc = "state" /\ UNCHANGED <<srv, settled, phase, bus>>
      BY <1>3, StateEffect DEF client
    <2>3. PICK f \in Frame : wire' = Append(wire, f) /\ f.kind = "state" /\ f.state = job[Own].read
      BY <1>3, StateEffect
    <2>4. settled /\ phase = "up" => FrameFresh(f)
      <3>1. settled /\ phase = "up" => JobFresh(job[Own])
        BY ConstantsOK DEF HashInv, Fresh
      <3> QED
        BY <2>2, <2>3, <3>1 DEF JobFresh, FrameFresh
    <2> QED
      BY <2>1, <2>2, <2>3, <2>4, HashTask, ConstantsOK
  <1> QED
    BY <1>1, <1>2, <1>3, HashPlace DEF OwnStep

LEMMA HashReceiver ==
  ASSUME TypeOK, HashInv, Receiver
  PROVE  HashInv'
  <1>1. CASE AwaitState
    <2>1. /\ phase = "auth" /\ wire # <<>> /\ wire' = Tail(wire) /\ wire[1].kind \in {"update", "state"}
          /\ job' = job /\ settled' = settled
      BY <1>1, AwaitEffect, FirstFrame DEF server
    <2>2. ~settled'
      BY <2>1 DEF HashInv, BeforeLogin
    <2>3. Awaited'
      <3>1. SUFFICES ASSUME phase' = "auth", job[Own].pc \notin {"place", "full", "state"}
                     PROVE  \E i \in 1..Len(wire') : wire'[i].kind = "state"
        BY <2>1 DEF Awaited
      <3>2. PICK i \in 1..Len(wire) : wire[i].kind = "state"
        BY <2>1, <3>1 DEF HashInv, Awaited
      <3>3. wire[1].kind # "state"
        BY <1>1, <3>1, AwaitEffect
      <3>4. /\ Len(wire) \in Nat /\ Len(wire) >= 1 /\ Len(wire') = Len(wire) - 1
            /\ \A k \in 1..Len(wire') : wire'[k] = wire[k + 1]
        BY <2>1, SeqTail DEF TypeOK
      <3>5. i - 1 \in 1..Len(wire') /\ wire'[i - 1] = wire[i]
        BY <3>2, <3>3, <3>4
      <3> QED
        BY <3>2, <3>5
    <2> QED
      BY <2>2, <2>3 DEF HashInv, Fresh, BeforeLogin, Matches
  <1>2. CASE Receive
    <2>1. /\ phase = "up" /\ wire # <<>> /\ wire' = Tail(wire)
          /\ srv' = srv /\ job' = job /\ settled' = settled /\ phase' = phase
      BY <1>2, ReceiveEffect DEF server
    <2>2. PICK all, k : Emitted(all, k) /\ Received(all)
      BY <1>2, ReceiveEffect
    <2>3. ~Still'
      BY <2>2 DEF Emitted, Still
    <2>4. Fresh'
      <3>1. SUFFICES ASSUME settled PROVE FreshJobs' /\ FreshWire' /\ FreshBus'
        BY <2>1, FreshParts
      <3>2. FreshJobs /\ FreshWire /\ FreshBus
        BY <2>1, <3>1, FreshParts DEF HashInv
      <3>3. FreshJobs'
        BY <2>1, <3>2 DEF FreshJobs, JobFresh, HashInput
      <3>4. FreshWire' /\ FrameFresh(wire[1])
        BY <2>1, <3>2, FreshWireRead
      <3> QED
        BY <2>1, <2>2, <3>2, <3>3, <3>4, FreshBusFilled
    <2> QED
      BY <2>1, <2>3, <2>4 DEF HashInv, Awaited, BeforeLogin, Matches
  <1> QED
    BY <1>1, <1>2 DEF Receiver

LEMMA EmptyHasNone == Len(<<>>) = 0
  OBVIOUS

LEMMA LastOne ==
  ASSUME TypeOK, bus # <<>>, NEW s, s = Tail(bus), s = <<>>
  PROVE  Len(bus) = 1
  <1>1. Len(bus) \in Nat /\ Len(s) = Len(bus) - 1
    BY SeqTail DEF TypeOK
  <1>2. Len(s) = 0
    BY EmptyHasNone, Zenon
  <1>3. PICK n : n = Len(bus)
    OBVIOUS
  <1>4. n \in Nat /\ n - 1 = 0
    BY <1>1, <1>2, <1>3
  <1> QED
    BY <1>3, <1>4

LEMMA HashProjection ==
  ASSUME TypeOK, HashInv, Consume \/ OnLag \/ ApplyConnected
  PROVE  HashInv'
  <1>1. UNCHANGED <<server, wire, phase>>
    BY DEF Consume, ApplyEvent, VerifyHash, OnLag, ApplyConnected
  <1>2. srv' = srv /\ job' = job /\ settled' = settled /\ HashInput(srv)' = HashInput(srv)
    BY <1>1 DEF server, HashInput
  <1>3. Awaited' /\ BeforeLogin'
    BY <1>1, <1>2 DEF HashInv, Awaited, BeforeLogin
  <1>4. bus' = bus \/ (bus # <<>> /\ bus' = Tail(bus))
    BY DEF Consume, ApplyEvent, VerifyHash, OnLag, ApplyConnected
  <1>5. Fresh'
    <2>1. SUFFICES ASSUME settled, phase = "up" PROVE FreshJobs' /\ FreshWire' /\ FreshBus'
      BY <1>1, <1>2, FreshParts
    <2>2. FreshJobs /\ FreshWire /\ FreshBus
      BY <2>1, FreshParts DEF HashInv
    <2>3. FreshJobs'
      BY <1>2, <2>2 DEF FreshJobs, JobFresh, HashInput
    <2> QED
      BY <1>1, <1>2, <1>4, <2>2, <2>3, FreshWireKept, FreshBusKept, FreshBusRead
  <1>6. Matches'
    <2>1. SUFFICES ASSUME settled, phase = "up", Still' PROVE HashInput(view)' = HashInput(srv)
      BY <1>1, <1>2 DEF Matches
    <2>2. /\ \A t \in Tasks : job[t] = Idle
          /\ asked' = 0 /\ wire = <<>> /\ bus' = <<>> /\ ~lagged'
      BY <1>1, <1>2, <2>1 DEF Still
    <2>3. FreshBus
      BY <2>1, FreshParts DEF HashInv
    <2>4. CASE ApplyEvent
      <3>1. bus # <<>> /\ bus' = Tail(bus) /\ bus[1] \in Event /\ bus[1].kind # "Checkpoint" /\ view' = Applied(view, bus[1])
        BY <2>4, ApplyEffect
      <3>2. Len(bus) = 1
        BY <2>2, <3>1, LastOne
      <3>3. bus[1].kind = "Full" /\ bus[1].state = srv
        BY <2>3, <3>1, <3>2 DEF FreshBus, EventFresh
      <3>4. view \in Copy
        BY DEF TypeOK
      <3>5. view' = srv
        BY <3>1, <3>3, <3>4, AppliedOther
      <3> QED
        BY <3>5 DEF HashInput
    <2>5. CASE VerifyHash
      <3>1. /\ bus # <<>> /\ bus' = Tail(bus) /\ bus[1].kind = "Checkpoint" /\ view' = view
            /\ HashInput(view) # bus[1].hash => asked' = asked + 1
        BY <2>5, VerifyEffect
      <3>2. Len(bus) = 1
        BY <2>2, <3>1, LastOne
      <3>3. bus[1].hash = HashInput(srv)
        BY <2>3, <3>1, <3>2 DEF FreshBus, EventFresh
      <3>4. asked \in Nat
        BY DEF TypeOK
      <3>5. HashInput(view) = bus[1].hash
        BY <2>2, <3>1, <3>4
      <3> QED
        BY <3>1, <3>3, <3>5 DEF HashInput
    <2>6. CASE OnLag
      <3>1. asked' = asked + 1 /\ asked \in Nat
        BY <2>6 DEF OnLag, TypeOK
      <3> QED
        BY <2>2, <3>1
    <2>7. CASE ApplyConnected
      <3>1. view' = view /\ asked' = asked /\ bus' = bus /\ lagged' = lagged
        BY <2>7 DEF ApplyConnected
      <3>2. Still
        BY <2>2, <3>1 DEF Still
      <3>3. HashInput(view) = HashInput(srv)
        BY <2>1, <3>2 DEF HashInv, Matches
      <3> QED
        BY <3>1, <3>3 DEF HashInput
    <2> QED
      BY <2>4, <2>5, <2>6, <2>7 DEF Consume
  <1> QED
    BY <1>3, <1>5, <1>6 DEF HashInv

LEMMA HashNext ==
  ASSUME TypeOK, HashInv, [Next]_vars
  PROVE  HashInv'
  <1>1. CASE OwnOperation \/ \E t \in Handlers : Operation(t)
    BY <1>1, OperationStarts, HashOperation
  <1>2. CASE OwnStep
    BY <1>2, HashOwnStep
  <1>3. CASE \E t \in Tasks : Broadcast(t)
    BY <1>3, HashBroadcast
  <1>4. CASE Receiver
    BY <1>4, HashReceiver
  <1>5. CASE Consume \/ OnLag \/ ApplyConnected
    BY <1>5, HashProjection
  <1>6. CASE UNCHANGED vars
    BY <1>6 DEF vars, HashInv, Awaited, BeforeLogin, Fresh, JobFresh, FrameFresh, EventFresh, Matches, Still, HashInput
  <1> QED
    BY <1>1, <1>2, <1>3, <1>4, <1>5, <1>6 DEF Next

LEMMA HashInit == Init => HashInv
  <1> SUFFICES ASSUME Init PROVE HashInv
    OBVIOUS
  <1>1. phase = "auth" /\ wire = <<>>
    BY DEF Init
  <1>2. PICK j : j = [todo |-> <<>>, pc |-> "place", read |-> <<>>]
    OBVIOUS
  <1>3. j.pc = "place" /\ j = [Idle EXCEPT !.pc = "place"]
    BY <1>2 DEF Idle
  <1>4. job = [t \in Tasks |-> IF t = Own THEN j ELSE Idle]
    BY <1>3 DEF Init
  <1>5. job[Own].pc = "place" /\ \A t \in Handlers : job[t] = Idle
    BY <1>3, <1>4, ConstantsOK
  <1> QED
    BY <1>1, <1>5 DEF HashInv, Awaited, BeforeLogin, Fresh, Matches

-----------------------------------------------------------------------------
(* The groups: whoever speaks last of a group *)

WireOK(g, x) == \A i \in 1..Len(wire) : LastFrame(i, g) => FrameSays(wire[i], g) = x
BusOK(g, x) == \A i \in 1..Len(bus) : LastEvent(i, g) => EventSays(bus[i], g) = x

LEMMA WireSent ==
  ASSUME TypeOK, NEW f \in Frame, wire' = Append(wire, f), NEW g, NEW x
  PROVE  /\ InWire(g)' <=> InWire(g) \/ Frames(f, g)
         /\ Frames(f, g) /\ FrameSays(f, g) = x => WireOK(g, x)'
         /\ ~Frames(f, g) /\ WireOK(g, x) => WireOK(g, x)'
  <1>1. PICK n : n = Len(wire)
    OBVIOUS
  <1>2. /\ n \in Nat /\ Len(wire') = n + 1 /\ wire'[n + 1] = f
        /\ \A i \in 1..n : wire'[i] = wire[i]
    BY <1>1, SeqAppend DEF TypeOK
  <1>3. InWire(g)' <=> InWire(g) \/ Frames(f, g)
    <2>1. InWire(g)' <=> \E i \in 1..(n + 1) : Frames(wire'[i], g)
      BY <1>2 DEF InWire, Frames
    <2>2. InWire(g) <=> \E i \in 1..n : Frames(wire[i], g)
      BY <1>1 DEF InWire
    <2>3. \A i \in 1..(n + 1) : i \in 1..n \/ i = n + 1
      BY <1>2
    <2>4. \A i \in 1..n : i \in 1..(n + 1)
      BY <1>2
    <2>5. n + 1 \in 1..(n + 1)
      BY <1>2
    <2> QED
      BY <1>2, <2>1, <2>2, <2>3, <2>4, <2>5
  <1>4. \A i \in 1..(n + 1) : LastFrame(i, g)' <=> Frames(wire'[i], g) /\ \A k \in 1..(n + 1) : k > i => ~Frames(wire'[k], g)
    BY <1>2 DEF LastFrame, Frames
  <1>5. WireOK(g, x)' <=> \A i \in 1..(n + 1) : LastFrame(i, g)' => FrameSays(wire'[i], g) = x
    BY <1>2 DEF WireOK, FrameSays
  <1>6. Frames(f, g) /\ FrameSays(f, g) = x => WireOK(g, x)'
    <2>1. SUFFICES ASSUME Frames(f, g), FrameSays(f, g) = x, NEW i \in 1..(n + 1), LastFrame(i, g)'
                   PROVE  FrameSays(wire'[i], g) = x
      BY <1>5
    <2>2. i = n + 1
      BY <1>2, <1>4, <2>1
    <2> QED
      BY <1>2, <2>1, <2>2
  <1>7. ~Frames(f, g) /\ WireOK(g, x) => WireOK(g, x)'
    <2>1. SUFFICES ASSUME ~Frames(f, g), WireOK(g, x), NEW i \in 1..(n + 1), LastFrame(i, g)'
                   PROVE  FrameSays(wire'[i], g) = x
      BY <1>5
    <2>2. i \in 1..n /\ wire'[i] = wire[i]
      BY <1>2, <1>4, <2>1
    <2>3. LastFrame(i, g)
      BY <1>1, <1>2, <1>4, <2>1, <2>2 DEF LastFrame
    <2> QED
      BY <1>1, <2>1, <2>2, <2>3 DEF WireOK
  <1> QED
    BY <1>3, <1>6, <1>7

LEMMA WireRead ==
  ASSUME TypeOK, wire # <<>>, wire' = Tail(wire), NEW g, NEW x
  PROVE  /\ InWire(g) <=> Frames(wire[1], g) \/ InWire(g)'
         /\ WireOK(g, x) => WireOK(g, x)'
         /\ WireOK(g, x) /\ Frames(wire[1], g) /\ ~InWire(g)' => FrameSays(wire[1], g) = x
  <1>1. PICK n : n = Len(wire')
    OBVIOUS
  <1>2. n \in Nat /\ Len(wire) = n + 1 /\ \A i \in 1..n : wire'[i] = wire[i + 1]
    BY <1>1, SeqTail DEF TypeOK
  <1>3. \A i \in 1..(n + 1) : i = 1 \/ (i - 1 \in 1..n /\ (i - 1) + 1 = i)
    BY <1>2
  <1>4. \A i \in 1..n : i + 1 \in 1..(n + 1)
    BY <1>2
  <1>5. 1 \in 1..(n + 1)
    BY <1>2
  <1>6. \A i \in 1..n : Frames(wire'[i], g) <=> Frames(wire[i + 1], g)
    BY <1>2
  <1>7. InWire(g)' <=> \E i \in 1..n : Frames(wire[i + 1], g)
    BY <1>1, <1>6 DEF InWire, Frames
  <1>8. InWire(g) <=> \E i \in 1..(n + 1) : Frames(wire[i], g)
    BY <1>2 DEF InWire
  <1>9. InWire(g) <=> Frames(wire[1], g) \/ InWire(g)'
    BY <1>3, <1>4, <1>5, <1>7, <1>8
  <1>10. \A i \in 1..(n + 1) : LastFrame(i, g) <=> Frames(wire[i], g) /\ \A k \in 1..(n + 1) : k > i => ~Frames(wire[k], g)
    BY <1>2 DEF LastFrame
  <1>11. WireOK(g, x) <=> \A i \in 1..(n + 1) : LastFrame(i, g) => FrameSays(wire[i], g) = x
    BY <1>2 DEF WireOK
  <1>12. WireOK(g, x) => WireOK(g, x)'
    <2>1. SUFFICES ASSUME WireOK(g, x), NEW i \in 1..n, LastFrame(i, g)' PROVE FrameSays(wire'[i], g) = x
      BY <1>1 DEF WireOK, FrameSays
    <2>2. Frames(wire[i + 1], g) /\ \A k \in 1..n : k > i => ~Frames(wire[k + 1], g)
      BY <1>1, <1>6, <2>1 DEF LastFrame, Frames
    <2>3. ASSUME NEW k \in 1..(n + 1), k > i + 1 PROVE ~Frames(wire[k], g)
      <3>1. k - 1 \in 1..n /\ k - 1 > i /\ (k - 1) + 1 = k
        BY <1>2, <2>3
      <3> QED
        BY <2>2, <3>1
    <2>4. LastFrame(i + 1, g)
      BY <1>4, <1>10, <2>2, <2>3
    <2> QED
      BY <1>2, <1>4, <1>11, <2>1, <2>4
  <1>13. WireOK(g, x) /\ Frames(wire[1], g) /\ ~InWire(g)' => FrameSays(wire[1], g) = x
    <2>1. SUFFICES ASSUME WireOK(g, x), Frames(wire[1], g), ~InWire(g)' PROVE FrameSays(wire[1], g) = x
      OBVIOUS
    <2>2. ASSUME NEW k \in 1..(n + 1), k > 1 PROVE ~Frames(wire[k], g)
      <3>1. k - 1 \in 1..n /\ (k - 1) + 1 = k
        BY <1>2, <2>2
      <3> QED
        BY <1>7, <2>1, <3>1
    <2> QED
      BY <1>5, <1>10, <1>11, <2>1, <2>2
  <1> QED
    BY <1>9, <1>12, <1>13

LEMMA BusRead ==
  ASSUME TypeOK, bus # <<>>, bus' = Tail(bus), NEW g, NEW x
  PROVE  /\ InBus(g) <=> Events(bus[1], g) \/ InBus(g)'
         /\ BusOK(g, x) => BusOK(g, x)'
         /\ BusOK(g, x) /\ Events(bus[1], g) /\ ~InBus(g)' => EventSays(bus[1], g) = x
  <1>1. PICK n : n = Len(bus')
    OBVIOUS
  <1>2. n \in Nat /\ Len(bus) = n + 1 /\ \A i \in 1..n : bus'[i] = bus[i + 1]
    BY <1>1, SeqTail DEF TypeOK
  <1>3. \A i \in 1..(n + 1) : i = 1 \/ (i - 1 \in 1..n /\ (i - 1) + 1 = i)
    BY <1>2
  <1>4. \A i \in 1..n : i + 1 \in 1..(n + 1)
    BY <1>2
  <1>5. 1 \in 1..(n + 1)
    BY <1>2
  <1>6. \A i \in 1..n : Events(bus'[i], g) <=> Events(bus[i + 1], g)
    BY <1>2
  <1>7. InBus(g)' <=> \E i \in 1..n : Events(bus[i + 1], g)
    BY <1>1, <1>6 DEF InBus, Events
  <1>8. InBus(g) <=> \E i \in 1..(n + 1) : Events(bus[i], g)
    BY <1>2 DEF InBus
  <1>9. InBus(g) <=> Events(bus[1], g) \/ InBus(g)'
    BY <1>3, <1>4, <1>5, <1>7, <1>8
  <1>10. \A i \in 1..(n + 1) : LastEvent(i, g) <=> Events(bus[i], g) /\ \A k \in 1..(n + 1) : k > i => ~Events(bus[k], g)
    BY <1>2 DEF LastEvent
  <1>11. BusOK(g, x) <=> \A i \in 1..(n + 1) : LastEvent(i, g) => EventSays(bus[i], g) = x
    BY <1>2 DEF BusOK
  <1>12. BusOK(g, x) => BusOK(g, x)'
    <2>1. SUFFICES ASSUME BusOK(g, x), NEW i \in 1..n, LastEvent(i, g)' PROVE EventSays(bus'[i], g) = x
      BY <1>1 DEF BusOK, EventSays
    <2>2. Events(bus[i + 1], g) /\ \A k \in 1..n : k > i => ~Events(bus[k + 1], g)
      BY <1>1, <1>6, <2>1 DEF LastEvent, Events
    <2>3. ASSUME NEW k \in 1..(n + 1), k > i + 1 PROVE ~Events(bus[k], g)
      <3>1. k - 1 \in 1..n /\ k - 1 > i /\ (k - 1) + 1 = k
        BY <1>2, <2>3
      <3> QED
        BY <2>2, <3>1
    <2>4. LastEvent(i + 1, g)
      BY <1>4, <1>10, <2>2, <2>3
    <2> QED
      BY <1>2, <1>4, <1>11, <2>1, <2>4
  <1>13. BusOK(g, x) /\ Events(bus[1], g) /\ ~InBus(g)' => EventSays(bus[1], g) = x
    <2>1. SUFFICES ASSUME BusOK(g, x), Events(bus[1], g), ~InBus(g)' PROVE EventSays(bus[1], g) = x
      OBVIOUS
    <2>2. ASSUME NEW k \in 1..(n + 1), k > 1 PROVE ~Events(bus[k], g)
      <3>1. k - 1 \in 1..n /\ (k - 1) + 1 = k
        BY <1>2, <2>2
      <3> QED
        BY <1>7, <2>1, <3>1
    <2> QED
      BY <1>5, <1>10, <1>11, <2>1, <2>2
  <1> QED
    BY <1>9, <1>12, <1>13

(* One event about which something may be said, and perhaps one about      *)
(* which nothing is, are added and none is dropped.                        *)
LEMMA BusFilled ==
  ASSUME TypeOK, NEW all, Emitted(all, 0), Prefix(all), NEW e, e = all[Len(bus) + 1], NEW g, NEW x,
         Len(all) \in {Len(bus) + 1, Len(bus) + 2},
         Len(all) = Len(bus) + 2 => all[Len(bus) + 2].kind \in {"Checkpoint", "SelfMoved"}
  PROVE  /\ InBus(g)' <=> InBus(g) \/ Events(e, g)
         /\ Events(e, g) /\ EventSays(e, g) = x => BusOK(g, x)'
         /\ ~Events(e, g) /\ BusOK(g, x) => BusOK(g, x)'
  <1>1. PICK n : n = Len(bus)
    OBVIOUS
  <1>2. PICK m : m = Len(all)
    OBVIOUS
  <1>3. n \in Nat /\ m \in {n + 1, n + 2} /\ Len(bus') = m
    BY <1>1, <1>2 DEF Emitted, TypeOK
  <1>4. \A i \in 1..m : bus'[i] = all[i]
    <2>1. \A i \in 1..m : bus'[i] = all[i + 0]
      BY <1>3 DEF Emitted
    <2>2. \A i \in 1..m : i + 0 = i
      BY <1>3
    <2> QED
      BY <2>1, <2>2
  <1>5. \A i \in 1..n : bus'[i] = bus[i] /\ i \in 1..m
    BY <1>1, <1>3, <1>4 DEF Prefix
  <1>6. bus'[n + 1] = e /\ n + 1 \in 1..m
    BY <1>1, <1>3, <1>4
  <1>7. \A i \in 1..m : i \in 1..n \/ i = n + 1 \/ (i = n + 2 /\ ~Events(bus'[i], g))
    <2>1. m = n + 2 => bus'[n + 2].kind \in {"Checkpoint", "SelfMoved"}
      BY <1>1, <1>2, <1>3, <1>4
    <2>2. m = n + 2 => ~Events(bus'[n + 2], g)
      BY <2>1 DEF Events
    <2> QED
      BY <1>3, <2>2
  <1>8. InBus(g)' <=> \E i \in 1..m : Events(bus'[i], g)
    BY <1>3 DEF InBus, Events
  <1>9. InBus(g)' <=> InBus(g) \/ Events(e, g)
    <2>1. InBus(g) <=> \E i \in 1..n : Events(bus[i], g)
      BY <1>1 DEF InBus
    <2> QED
      BY <1>5, <1>6, <1>7, <1>8, <2>1
  <1>10. \A i \in 1..m : LastEvent(i, g)' <=> Events(bus'[i], g) /\ \A k \in 1..m : k > i => ~Events(bus'[k], g)
    BY <1>3 DEF LastEvent, Events
  <1>11. BusOK(g, x)' <=> \A i \in 1..m : LastEvent(i, g)' => EventSays(bus'[i], g) = x
    BY <1>3 DEF BusOK, EventSays
  <1>12. Events(e, g) /\ EventSays(e, g) = x => BusOK(g, x)'
    <2>1. SUFFICES ASSUME Events(e, g), EventSays(e, g) = x, NEW i \in 1..m, LastEvent(i, g)'
                   PROVE  EventSays(bus'[i], g) = x
      BY <1>11
    <2>2. i \notin 1..n
      BY <1>3, <1>6, <1>10, <2>1
    <2>3. i = n + 1
      BY <1>7, <1>10, <2>1, <2>2
    <2> QED
      BY <1>6, <2>1, <2>3
  <1>13. ~Events(e, g) /\ BusOK(g, x) => BusOK(g, x)'
    <2>1. SUFFICES ASSUME ~Events(e, g), BusOK(g, x), NEW i \in 1..m, LastEvent(i, g)'
                   PROVE  EventSays(bus'[i], g) = x
      BY <1>11
    <2>2. i \in 1..n /\ bus'[i] = bus[i]
      BY <1>5, <1>6, <1>7, <1>10, <2>1
    <2>3. LastEvent(i, g)
      BY <1>1, <1>5, <1>10, <2>1, <2>2 DEF LastEvent
    <2> QED
      BY <1>1, <2>1, <2>2, <2>3 DEF BusOK
  <1> QED
    BY <1>9, <1>12, <1>13

Last(g, x) ==
    /\ ~InTodo(g) => WireOK(g, x)
    /\ ~InTodo(g) /\ ~InWire(g) => BusOK(g, x)
    /\ ~InTodo(g) /\ ~InWire(g) /\ ~InBus(g) => view.groups[g] = x

OneBusy == \A t, o \in Tasks : job[t] # Idle /\ job[o] # Idle => t = o
TodoOK ==
    \A t \in Tasks : \A i \in 1..Len(job[t].todo) :
        job[t].todo[i].kind = "Group" => job[t].todo[i].bits = srv.groups[job[t].todo[i].group]
ReadOK == job[Own].pc = "state" => job[Own].read.groups = srv.groups

LEMMA FollowsLast ==
  ASSUME NEW g, NEW x
  PROVE  /\ x = srv.groups[g] => (Follows(g) <=> Last(g, x))
         /\ x = srv'.groups[g] => (Follows(g)' <=> Last(g, x)')
  BY DEF Follows, Last, WireOK, BusOK

LEMMA GroupParts ==
  /\ GroupInv <=> (~raced => OneBusy /\ TodoOK /\ ReadOK /\ (~SnapshotDue => \A g \in Groups : Follows(g)))
  /\ GroupInv' <=>
       (~raced' => OneBusy' /\ TodoOK' /\ ReadOK' /\ (~SnapshotDue' => \A g \in Groups : Follows(g)'))
  BY DEF GroupInv, OneBusy, TodoOK, ReadOK

(* Once a task is at work without a race the others are not. *)
LEMMA OneBusyMoves ==
  ASSUME TypeOK, NEW t \in Tasks, NEW j, Moves(t, j), \A o \in Tasks \ {t} : job[o] = Idle
  PROVE  OneBusy'
  <1>1. \A o \in Tasks \ {t} : job'[o] = Idle
    BY Moved DEF TypeOK
  <1>2. Idle' = Idle
    BY DEF Idle
  <1> QED
    BY <1>1, <1>2 DEF OneBusy

LEMMA TodoMoves ==
  ASSUME TypeOK, NEW t \in Tasks, NEW j, Moves(t, j), \A o \in Tasks \ {t} : job[o] = Idle,
         \A i \in 1..Len(j.todo) : j.todo[i].kind = "Group" => j.todo[i].bits = srv'.groups[j.todo[i].group]
  PROVE  TodoOK'
  <1>1. job'[t] = j /\ \A o \in Tasks \ {t} : job'[o].todo = <<>>
    BY Moved, IdleFields DEF TypeOK
  <1>2. ASSUME NEW o \in Tasks \ {t} PROVE 1..Len(job'[o].todo) = {}
    BY <1>1
  <1> QED
    BY <1>1, <1>2 DEF TodoOK

LEMMA TodoOf ==
  ASSUME TypeOK, NEW t \in Tasks, NEW j, Moves(t, j), \A o \in Tasks \ {t} : job[o] = Idle, NEW g
  PROVE  /\ InTodo(g)' <=> \E i \in 1..Len(j.todo) : j.todo[i].kind = "Group" /\ j.todo[i].group = g
         /\ InTodo(g) <=> \E i \in 1..Len(job[t].todo) : job[t].todo[i].kind = "Group" /\ job[t].todo[i].group = g
  <1>1. /\ job'[t] = j
        /\ \A o \in Tasks \ {t} : job'[o].todo = <<>> /\ job[o].todo = <<>>
    BY Moved, IdleFields DEF TypeOK
  <1>2. ASSUME NEW o \in Tasks \ {t} PROVE 1..Len(job'[o].todo) = {} /\ 1..Len(job[o].todo) = {}
    BY <1>1
  <1> QED
    BY <1>1, <1>2 DEF InTodo

LEMMA GroupOperation ==
  ASSUME TypeOK, GroupInv, NEW t \in Tasks, NEW new, NEW todo, Starts(t, new, todo),
         Plain(new, todo) \/ Regroups(new, todo)
  PROVE  GroupInv'
  <1>1. PICK j : Moves(t, j) /\ j.todo = todo /\ j.pc = "idle" /\ j.read = <<>>
    BY DEF Starts
  <1>2. job'[t] = j /\ \A o \in Tasks \ {t} : job'[o] = job[o]
    BY <1>1, Moved DEF TypeOK
  <1>3. /\ job[t] = Idle /\ srv' = new /\ new \in Copy
        /\ UNCHANGED <<asked, wire, bus, lagged, view>>
        /\ raced' = (raced \/ \E o \in Tasks \ {t} : job[o] # Idle)
    BY DEF Starts, client
  <1>4. SUFFICES ASSUME ~raced'
                 PROVE  OneBusy' /\ TodoOK' /\ ReadOK' /\ (~SnapshotDue' => \A g \in Groups : Follows(g)')
    BY GroupParts
  <1>5. ~raced /\ \A o \in Tasks : job[o] = Idle
    BY <1>3, <1>4
  <1>6. OneBusy'
    BY <1>1, <1>5, OneBusyMoves
  <1>7. job'[Own].pc = "idle" /\ job[Own].pc = "idle"
    BY <1>1, <1>2, <1>5, IdleFields, ConstantsOK
  <1>8. ReadOK' /\ (SnapshotDue' <=> SnapshotDue)
    BY <1>3, <1>7 DEF ReadOK, SnapshotDue
  <1>9. \A g : ~InTodo(g)
    <2>1. \A o \in Tasks : job[o].todo = <<>>
      BY <1>5, IdleFields
    <2>2. \A o \in Tasks : 1..Len(job[o].todo) = {}
      BY <2>1
    <2> QED
      BY <2>2 DEF InTodo
  <1>10. srv.groups \in [Groups -> Bits \cup {None}]
    BY CopyFields DEF TypeOK
  <1>11. TodoOK' /\ \A g \in Groups : InTodo(g)' \/ srv'.groups[g] = srv.groups[g]
    <2>1. CASE Plain(new, todo)
      BY <1>1, <1>3, <1>5, <2>1, TodoMoves DEF Plain
    <2>2. CASE Regroups(new, todo)
      <3>1. PICK g0 \in Groups, b \in Bits \cup {None} :
              /\ new.groups = [srv.groups EXCEPT ![g0] = b]
              /\ Len(todo) = 1 /\ todo[1].kind = "Group" /\ todo[1].group = g0 /\ todo[1].bits = b
        BY <2>2 DEF Regroups
      <3>2. new.groups[g0] = b /\ \A g \in Groups \ {g0} : new.groups[g] = srv.groups[g]
        BY <1>10, <3>1
      <3>3. \A i \in 1..Len(todo) : i = 1
        BY <3>1
      <3>4. \A i \in 1..Len(j.todo) : j.todo[i].kind = "Group" => j.todo[i].bits = srv'.groups[j.todo[i].group]
        BY <1>1, <1>3, <3>1, <3>2, <3>3
      <3>5. TodoOK'
        BY <1>1, <1>5, <3>4, TodoMoves
      <3>6. 1 \in 1..Len(j.todo)
        BY <1>1, <3>1
      <3>7. InTodo(g0)'
        BY <1>1, <1>5, <3>1, <3>6, TodoOf
      <3> QED
        BY <1>3, <3>2, <3>5, <3>7
    <2> QED
      BY <2>1, <2>2
  <1>12. ASSUME ~SnapshotDue', NEW g \in Groups PROVE Follows(g)'
    <2>1. CASE InTodo(g)'
      BY <2>1 DEF Follows
    <2>2. CASE srv'.groups[g] = srv.groups[g]
      <3>1. PICK x : x = srv.groups[g]
        OBVIOUS
      <3>2. Last(g, x)
        BY <1>5, <1>8, <1>12, <3>1, GroupParts, FollowsLast
      <3>3. WireOK(g, x) /\ (~InWire(g) => BusOK(g, x)) /\ (~InWire(g) /\ ~InBus(g) => view.groups[g] = x)
        BY <1>9, <3>2 DEF Last
      <3>4. Last(g, x)'
        BY <1>3, <3>3 DEF Last, WireOK, BusOK, InWire, InBus, LastFrame, LastEvent, Frames, Events, FrameSays, EventSays
      <3> QED
        BY <2>2, <3>1, <3>4, FollowsLast
    <2> QED
      BY <1>11, <2>1, <2>2
  <1> QED
    BY <1>6, <1>8, <1>11, <1>12

LEMMA OthersIdle ==
  ASSUME OneBusy, NEW t \in Tasks, job[t] # Idle
  PROVE  \A o \in Tasks \ {t} : job[o] = Idle
  BY DEF OneBusy

LEMMA OthersAreHandlers == \A o \in Tasks \ {Own} : o \in Handlers
  BY DEF Tasks

(* A snapshot is due: nothing is said of what the client has. *)
LEMMA GroupDue ==
  ASSUME TypeOK, NEW j, Moves(Own, j), j.pc \in {"full", "state"}, \A o \in Tasks \ {Own} : job[o] = Idle,
         \A i \in 1..Len(j.todo) : j.todo[i].kind = "Group" => j.todo[i].bits = srv'.groups[j.todo[i].group],
         j.pc = "state" => j.read.groups = srv'.groups
  PROVE  GroupInv'
  <1>1. Own \in Tasks
    BY ConstantsOK
  <1>2. job'[Own] = j
    BY <1>1, Moved DEF TypeOK
  <1>3. OneBusy' /\ TodoOK'
    BY <1>1, OneBusyMoves, TodoMoves
  <1>4. ReadOK' /\ SnapshotDue'
    BY <1>2 DEF ReadOK, SnapshotDue
  <1> QED
    BY <1>3, <1>4, GroupParts

LEMMA GroupRaced ==
  ASSUME raced'
  PROVE  GroupInv'
  BY GroupParts

LEMMA TodoHere ==
  ASSUME TypeOK, TodoOK, NEW t \in Tasks
  PROVE  /\ \A i \in 1..Len(job[t].todo) :
              job[t].todo[i].kind = "Group" => job[t].todo[i].bits = srv.groups[job[t].todo[i].group]
         /\ job[t].todo \in Seq(Update)
  <1>1. job[t] \in Job
    BY DEF TypeOK
  <1> QED
    BY <1>1, JobFields DEF TodoOK

LEMMA GroupOwnStep ==
  ASSUME TypeOK, GroupInv, OwnStep
  PROVE  GroupInv'
  <1>1. CASE Place
    <2>1. PICK j : Moves(Own, j) /\ j.pc = "full" /\ \A i \in 1..Len(j.todo) : j.todo[i].kind # "Group"
      BY <1>1, PlaceEffect
    <2>2. raced' = (raced \/ \E o \in Handlers : job[o] # Idle)
      BY <1>1, PlaceEffect
    <2>3. ~raced' => \A o \in Tasks \ {Own} : job[o] = Idle
      BY <2>2, OthersAreHandlers
    <2> QED
      BY <2>1, <2>3, GroupDue, GroupRaced
  <1>2. CASE HandleRequestStateSync
    <2>1. PICK j : Moves(Own, j) /\ j.pc = "full" /\ j.todo = <<>>
      BY <1>2, RequestEffect
    <2>2. raced' = (raced \/ \E o \in Handlers : job[o] # Idle)
      BY <1>2, RequestEffect
    <2>3. ~raced' => \A o \in Tasks \ {Own} : job[o] = Idle
      BY <2>2, OthersAreHandlers
    <2>4. 1..Len(j.todo) = {}
      BY <2>1
    <2> QED
      BY <2>1, <2>3, <2>4, GroupDue, GroupRaced
  <1>3. CASE ReadState
    <2>1. PICK j : Moves(Own, j) /\ j.pc = "state" /\ j.todo = job[Own].todo /\ j.read = srv
      BY <1>3, ReadEffect
    <2>2. job[Own].pc = "full" /\ srv' = srv /\ raced' = raced
      BY <1>3, ReadEffect
    <2>3. ASSUME ~raced PROVE GroupInv'
      <3>1. OneBusy /\ TodoOK
        BY <2>3, GroupParts
      <3>2. \A o \in Tasks \ {Own} : job[o] = Idle
        BY <2>2, <3>1, OthersIdle, IdleFields, ConstantsOK
      <3>3. \A i \in 1..Len(j.todo) : j.todo[i].kind = "Group" => j.todo[i].bits = srv'.groups[j.todo[i].group]
        BY <2>1, <2>2, <3>1, TodoHere, ConstantsOK
      <3> QED
        BY <2>1, <2>2, <3>2, <3>3, GroupDue
    <2> QED
      BY <2>2, <2>3, GroupRaced
  <1>4. CASE SendState
    <2>1. PICK j : Moves(Own, j) /\ j.pc = "idle" /\ j.todo = job[Own].todo /\ j.read = <<>>
      BY <1>4, StateEffect
    <2>2. job[Own].pc = "state" /\ srv' = srv /\ raced' = raced
      BY <1>4, StateEffect
    <2>3. PICK f \in Frame : wire' = Append(wire, f) /\ f.kind = "state" /\ f.state = job[Own].read
      BY <1>4, StateEffect
    <2>4. ASSUME ~raced PROVE OneBusy' /\ TodoOK' /\ ReadOK' /\ \A g \in Groups : Follows(g)'
      <3>1. OneBusy /\ TodoOK /\ ReadOK
        BY <2>4, GroupParts
      <3>2. \A o \in Tasks \ {Own} : job[o] = Idle
        BY <2>2, <3>1, OthersIdle, IdleFields, ConstantsOK
      <3>3. \A i \in 1..Len(j.todo) : j.todo[i].kind = "Group" => j.todo[i].bits = srv'.groups[j.todo[i].group]
        BY <2>1, <2>2, <3>1, TodoHere, ConstantsOK
      <3>4. job'[Own] = j
        BY <2>1, Moved, ConstantsOK DEF TypeOK
      <3>5. ReadOK'
        BY <2>1, <3>4 DEF ReadOK
      <3>6. ASSUME NEW g \in Groups PROVE Follows(g)'
        <4>1. PICK x : x = srv.groups[g]
          OBVIOUS
        <4>2. Frames(f, g) /\ FrameSays(f, g) = x
          BY <2>2, <2>3, <3>1, <4>1 DEF Frames, FrameSays, ReadOK
        <4>3. InWire(g)' /\ WireOK(g, x)'
          BY <2>3, <4>2, WireSent
        <4>4. Last(g, x)'
          BY <4>3 DEF Last
        <4> QED
          BY <2>2, <4>1, <4>4, FollowsLast
      <3> QED
        BY <2>1, <3>2, <3>3, <3>5, <3>6, OneBusyMoves, TodoMoves, ConstantsOK
    <2> QED
      BY <2>2, <2>4, GroupParts
  <1> QED
    BY <1>1, <1>2, <1>3, <1>4 DEF OwnStep

LEMMA GroupBroadcast ==
  ASSUME TypeOK, GroupInv, NEW t \in Tasks, Broadcast(t)
  PROVE  GroupInv'
  <1>1. /\ srv' = srv /\ raced' = raced /\ asked' = asked /\ bus' = bus /\ lagged' = lagged /\ view' = view
    BY HashEffect, SendEffect DEF Broadcast, client
  <1>2. SUFFICES ASSUME ~raced
                 PROVE  OneBusy' /\ TodoOK' /\ ReadOK' /\ (~SnapshotDue' => \A g \in Groups : Follows(g)')
    BY <1>1, GroupParts
  <1>3. OneBusy /\ TodoOK /\ ReadOK /\ (~SnapshotDue => \A g \in Groups : Follows(g))
    BY <1>2, GroupParts
  <1>4. job[t] # Idle
    BY HashEffect, SendEffect, IdleFields DEF Broadcast
  <1>5. \A o \in Tasks \ {t} : job[o] = Idle
    BY <1>3, <1>4, OthersIdle
  <1>6. PICK q : q = job[t].todo
    OBVIOUS
  <1>7. q \in Seq(Update) /\ \A i \in 1..Len(q) : q[i].kind = "Group" => q[i].bits = srv.groups[q[i].group]
    BY <1>3, <1>6, TodoHere
  <1>8. CASE Hash(t)
    <2>1. PICK j : Moves(t, j) /\ j.pc = "send" /\ j.todo = q
      BY <1>6, <1>8, HashEffect
    <2>2. job[t].pc = "idle" /\ wire' = wire
      BY <1>8, HashEffect
    <2>3. job'[t] = j /\ \A o \in Tasks \ {t} : job'[o] = job[o]
      BY <2>1, Moved DEF TypeOK
    <2>4. ReadOK' /\ (SnapshotDue' <=> SnapshotDue)
      BY <1>1, <1>3, <2>1, <2>2, <2>3, ConstantsOK DEF ReadOK, SnapshotDue
    <2>5. OneBusy' /\ TodoOK'
      BY <1>1, <1>5, <1>7, <2>1, OneBusyMoves, TodoMoves
    <2>6. ASSUME ~SnapshotDue', NEW g \in Groups PROVE Follows(g)'
      <3>1. Follows(g)
        BY <1>3, <2>4, <2>6
      <3>2. InTodo(g)' <=> InTodo(g)
        BY <1>5, <1>6, <2>1, TodoOf
      <3>3. UNCHANGED <<srv, wire, bus, view>>
        BY <1>1, <2>2
      <3> QED
        BY <3>1, <3>2, <3>3 DEF Follows, InWire, InBus, LastFrame, LastEvent, Frames, Events, FrameSays, EventSays
    <2> QED
      BY <2>4, <2>5, <2>6
  <1>9. CASE SendUpdate(t)
    <2>1. PICK j : Moves(t, j) /\ j.pc = "idle" /\ j.todo = Tail(q)
      BY <1>6, <1>9, SendEffect
    <2>2. job[t].pc = "send" /\ q # <<>>
      BY <1>6, <1>9, SendEffect
    <2>3. PICK f \in Frame : wire' = Append(wire, f) /\ f.kind = "update" /\ f.update = q[1]
      BY <1>6, <1>9, SendEffect
    <2>4. job'[t] = j /\ \A o \in Tasks \ {t} : job'[o] = job[o]
      BY <2>1, Moved DEF TypeOK
    <2>5. ReadOK' /\ (SnapshotDue' <=> SnapshotDue)
      BY <1>1, <1>3, <2>1, <2>2, <2>4, ConstantsOK DEF ReadOK, SnapshotDue
    <2>6. PICK n : n = Len(j.todo)
      OBVIOUS
    <2>7. n \in Nat /\ Len(q) = n + 1 /\ \A i \in 1..n : j.todo[i] = q[i + 1]
      BY <1>7, <2>1, <2>2, <2>6, SeqTail
    <2>8. \A i \in 1..n : i + 1 \in 1..Len(q)
      BY <2>7
    <2>9. OneBusy' /\ TodoOK'
      BY <1>1, <1>5, <1>7, <2>1, <2>6, <2>7, <2>8, OneBusyMoves, TodoMoves
    <2>10. ASSUME ~SnapshotDue', NEW g \in Groups PROVE Follows(g)'
      <3>1. PICK x : x = srv.groups[g]
        OBVIOUS
      <3>2. Last(g, x)
        BY <1>3, <2>5, <2>10, <3>1, FollowsLast
      <3>3. Frames(f, g) <=> q[1].kind = "Group" /\ q[1].group = g
        BY <2>3 DEF Frames
      <3>4. CASE Frames(f, g)
        <4>1. 1 \in 1..Len(q)
          BY <2>7
        <4>2. FrameSays(f, g) = x
          BY <1>7, <2>3, <3>1, <3>3, <3>4, <4>1 DEF FrameSays
        <4>3. InWire(g)' /\ WireOK(g, x)'
          BY <2>3, <3>4, <4>2, WireSent
        <4> QED
          BY <1>1, <3>1, <4>3, FollowsLast DEF Last
      <3>5. CASE ~Frames(f, g)
        <4>1. InTodo(g)' <=> InTodo(g)
          <5>1. InTodo(g)' <=> \E i \in 1..n : q[i + 1].kind = "Group" /\ q[i + 1].group = g
            <6>1. InTodo(g)' <=> \E i \in 1..n : j.todo[i].kind = "Group" /\ j.todo[i].group = g
              <7>1. Moves(t, j)
                BY <2>1
              <7>2. InTodo(g)' <=> \E i \in 1..Len(j.todo) : j.todo[i].kind = "Group" /\ j.todo[i].group = g
                BY <1>5, <7>1, TodoOf
              <7> QED
                BY <2>6, <7>2
            <6> QED
              BY <2>7, <6>1
          <5>2. InTodo(g) <=> \E i \in 1..(n + 1) : q[i].kind = "Group" /\ q[i].group = g
            BY <1>5, <1>6, <2>1, <2>7, TodoOf
          <5>3. \A i \in 1..(n + 1) : i = 1 \/ (i - 1 \in 1..n /\ (i - 1) + 1 = i)
            BY <2>7
          <5>4. \A i \in 1..n : i + 1 \in 1..(n + 1)
            BY <2>7
          <5>5. InTodo(g)' => InTodo(g)
            BY <5>1, <5>2, <5>4
          <5>6. ASSUME InTodo(g) PROVE InTodo(g)'
            <6>1. PICK i \in 1..(n + 1) : q[i].kind = "Group" /\ q[i].group = g
              BY <5>2, <5>6
            <6>2. i - 1 \in 1..n /\ (i - 1) + 1 = i
              BY <3>3, <3>5, <5>3, <6>1
            <6> QED
              BY <5>1, <6>1, <6>2
          <5> QED
            BY <5>5, <5>6
        <4>2. (InWire(g)' <=> InWire(g)) /\ (WireOK(g, x) => WireOK(g, x)')
          BY <2>3, <3>5, WireSent
        <4>3. (InBus(g)' <=> InBus(g)) /\ (BusOK(g, x)' <=> BusOK(g, x))
          BY <1>1 DEF InBus, BusOK, LastEvent, Events, EventSays
        <4>4. Last(g, x)'
          BY <1>1, <3>2, <4>1, <4>2, <4>3 DEF Last
        <4> QED
          BY <1>1, <3>1, <4>4, FollowsLast
      <3> QED
        BY <3>4, <3>5
    <2> QED
      BY <2>5, <2>9, <2>10
  <1> QED
    BY <1>8, <1>9 DEF Broadcast

(* The tasks and the server's state stand still. *)
LEMMA GroupServerKept ==
  ASSUME TypeOK, GroupInv, srv' = srv, job' = job, raced' = raced,
         ~raced /\ ~SnapshotDue' /\ (~SnapshotDue => \A g \in Groups : Follows(g)) =>
            \A g \in Groups : Follows(g)'
  PROVE  GroupInv'
  <1>1. Idle' = Idle
    BY DEF Idle
  <1>2. ASSUME ~raced PROVE OneBusy' /\ TodoOK' /\ ReadOK'
    <2>1. OneBusy /\ TodoOK /\ ReadOK
      BY <1>2, GroupParts
    <2> QED
      BY <1>1, <2>1 DEF OneBusy, TodoOK, ReadOK
  <1> QED
    BY <1>2, GroupParts

LEMMA TodoKept ==
  ASSUME job' = job, NEW g
  PROVE  InTodo(g)' <=> InTodo(g)
  BY DEF InTodo

LEMMA GroupReceiver ==
  ASSUME TypeOK, HashInv, GroupInv, Receiver
  PROVE  GroupInv'
  <1>1. /\ srv' = srv /\ job' = job /\ raced' = raced /\ asked' = asked /\ view' = view
        /\ wire # <<>> /\ wire' = Tail(wire)
    BY AwaitEffect, ReceiveEffect DEF Receiver, server
  <1>2. wire[1] \in Frame /\ wire[1].kind \in {"update", "state"}
    BY <1>1, FirstFrame
  <1>3. ASSUME ~SnapshotDue', ~SnapshotDue => \A g \in Groups : Follows(g), NEW g \in Groups
        PROVE  Follows(g)'
    <2>1. PICK x : x = srv.groups[g]
      OBVIOUS
    <2>2. job[Own].pc \notin {"place", "full", "state"} /\ ~lagged' /\ ~(asked > 0)
      BY <1>1, <1>3 DEF SnapshotDue
    <2>3. /\ InWire(g) <=> Frames(wire[1], g) \/ InWire(g)'
          /\ WireOK(g, x) => WireOK(g, x)'
          /\ WireOK(g, x) /\ Frames(wire[1], g) /\ ~InWire(g)' => FrameSays(wire[1], g) = x
      BY <1>1, WireRead
    <2>4. InTodo(g)' <=> InTodo(g)
      BY <1>1, TodoKept
    <2>5. CASE AwaitState /\ wire[1].kind = "update"
      <3>1. bus' = bus /\ lagged' = lagged /\ phase = "auth"
        BY <2>5, AwaitEffect
      <3>2. Last(g, x)
        BY <1>3, <2>1, <2>2, <3>1, FollowsLast DEF SnapshotDue
      <3>3. InWire(g)'
        <4>1. PICK i \in 1..Len(wire) : wire[i].kind = "state"
          BY <2>2, <3>1 DEF HashInv, Awaited
        <4>2. /\ Len(wire) \in Nat /\ Len(wire) >= 1 /\ Len(wire') = Len(wire) - 1
              /\ \A k \in 1..Len(wire') : wire'[k] = wire[k + 1]
          BY <1>1, SeqTail DEF TypeOK
        <4>3. i # 1
          BY <2>5, <4>1
        <4>4. i - 1 \in 1..Len(wire') /\ wire'[i - 1] = wire[i]
          BY <4>1, <4>2, <4>3
        <4>5. wire'[i - 1].kind = "state"
          BY <4>1, <4>4
        <4> QED
          BY <4>4, <4>5 DEF InWire, Frames
      <3>4. Last(g, x)'
        BY <2>3, <2>4, <3>2, <3>3 DEF Last
      <3> QED
        BY <1>1, <2>1, <3>4, FollowsLast
    <2>6. CASE Receive \/ (AwaitState /\ wire[1].kind = "state")
      <3>1. PICK all, k : Emitted(all, k) /\ (Received(all) \/ (wire[1].kind = "state" /\ Awoken(all)))
        BY <2>6, ReceiveEffect, AwaitEffect
      <3>2. ~lagged /\ k = 0
        BY <2>2, <3>1 DEF Emitted
      <3>3. Last(g, x)
        BY <1>3, <2>1, <2>2, <3>2, FollowsLast DEF SnapshotDue
      <3>4. PICK e : e = all[Len(bus) + 1]
        OBVIOUS
      <3>5. /\ Prefix(all) /\ Len(all) \in {Len(bus) + 1, Len(bus) + 2}
            /\ Len(all) = Len(bus) + 2 => all[Len(bus) + 2].kind \in {"Checkpoint", "SelfMoved"}
        <4>1. CASE wire[1].kind = "state" /\ Awoken(all)
          BY <4>1 DEF Awoken
        <4>2. CASE Received(all) /\ wire[1].kind = "state"
          <5>1. Prefix(all) /\ Len(all) = Len(bus) + 1 /\ Len(bus) \in Nat
            BY <4>2 DEF Received, TypeOK
          <5> QED
            BY <5>1
        <4>3. CASE Received(all) /\ wire[1].kind = "update"
          BY <4>3 DEF Received
        <4> QED
          BY <1>2, <3>1, <4>1, <4>2, <4>3
      <3>6. (Events(e, g) <=> Frames(wire[1], g)) /\ (Events(e, g) => EventSays(e, g) = FrameSays(wire[1], g))
        <4>1. CASE wire[1].kind = "state"
          <5>1. e.kind = "Full" /\ e.state = wire[1].state
            BY <3>1, <3>4, <4>1 DEF Received, Awoken
          <5> QED
            BY <4>1, <5>1 DEF Events, Frames, EventSays, FrameSays
        <4>2. CASE wire[1].kind = "update"
          <5>1. e = wire[1].update
            BY <3>1, <3>4, <4>2 DEF Received
          <5>2. e \in Update
            BY <1>2, <4>2, <5>1, FrameFields
          <5>3. e.kind # "Full"
            BY <5>2, UpdateFields
          <5> QED
            BY <4>2, <5>1, <5>3 DEF Events, Frames, EventSays, FrameSays
        <4> QED
          BY <1>2, <4>1, <4>2
      <3>7. Emitted(all, 0)
        BY <3>1, <3>2
      <3>8. /\ InBus(g)' <=> InBus(g) \/ Events(e, g)
            /\ Events(e, g) /\ EventSays(e, g) = x => BusOK(g, x)'
            /\ ~Events(e, g) /\ BusOK(g, x) => BusOK(g, x)'
        BY <3>4, <3>5, <3>7, BusFilled
      <3>9. Last(g, x)'
        BY <1>1, <2>3, <2>4, <3>3, <3>6, <3>8 DEF Last
      <3> QED
        BY <1>1, <2>1, <3>9, FollowsLast
    <2> QED
      BY <1>2, <2>5, <2>6 DEF Receiver
  <1> QED
    BY <1>1, <1>3, GroupServerKept

LEMMA AppliedSays ==
  ASSUME NEW v \in Copy, NEW e \in Event, e.kind # "Checkpoint", NEW g \in Groups
  PROVE  Applied(v, e).groups[g] = IF Events(e, g) THEN EventSays(e, g) ELSE v.groups[g]
  <1>1. v.groups \in [Groups -> Bits \cup {None}]
    BY CopyFields
  <1>2. CASE e.kind \in {"Full", "SelfMoved"}
    BY <1>2, AppliedOther DEF Events, EventSays
  <1>3. CASE e \in Update
    <2>1. e.kind # "Full"
      BY <1>3, UpdateFields
    <2>2. CASE e.kind = "Group"
      <3>1. Applied(v, e).groups = [v.groups EXCEPT ![e.group] = e.bits]
        BY <1>3, <2>2, AppliedGroup
      <3> QED
        BY <1>1, <2>1, <2>2, <3>1 DEF Events, EventSays
    <2>3. CASE e.kind # "Group"
      <3>1. Applied(v, e).groups = v.groups
        BY <1>3, <2>3, UpdateFields, AppliedRooms, AppliedUsers
      <3> QED
        BY <2>1, <2>3, <3>1 DEF Events
    <2> QED
      BY <2>2, <2>3
  <1> QED
    BY <1>2, <1>3, EventFields

LEMMA GroupProjection ==
  ASSUME TypeOK, GroupInv, Consume \/ OnLag \/ ApplyConnected
  PROVE  GroupInv'
  <1>1. UNCHANGED <<server, wire>>
    BY DEF Consume, ApplyEvent, VerifyHash, OnLag, ApplyConnected
  <1>2. srv' = srv /\ job' = job /\ raced' = raced /\ wire' = wire
    BY <1>1 DEF server
  <1>3. asked \in Nat /\ view \in Copy
    BY DEF TypeOK
  <1>4. ASSUME ~SnapshotDue', ~SnapshotDue => \A g \in Groups : Follows(g), NEW g \in Groups
        PROVE  Follows(g)'
    <2>1. PICK x : x = srv.groups[g]
      OBVIOUS
    <2>2. job[Own].pc \notin {"place", "full", "state"} /\ ~lagged' /\ ~(asked' > 0)
      BY <1>2, <1>4 DEF SnapshotDue
    <2>3. (InTodo(g)' <=> InTodo(g)) /\ (InWire(g)' <=> InWire(g)) /\ (WireOK(g, x)' <=> WireOK(g, x))
      BY <1>2 DEF InTodo, InWire, WireOK, LastFrame, Frames, FrameSays
    <2>4. CASE ApplyEvent
      <3>1. /\ ~lagged /\ asked' = asked /\ bus # <<>> /\ bus' = Tail(bus)
            /\ bus[1] \in Event /\ bus[1].kind # "Checkpoint" /\ view' = Applied(view, bus[1])
        BY <2>4, ApplyEffect
      <3>2. Last(g, x)
        BY <1>4, <2>1, <2>2, <3>1, FollowsLast DEF SnapshotDue
      <3>3. /\ InBus(g) <=> Events(bus[1], g) \/ InBus(g)'
            /\ BusOK(g, x) => BusOK(g, x)'
            /\ BusOK(g, x) /\ Events(bus[1], g) /\ ~InBus(g)' => EventSays(bus[1], g) = x
        BY <3>1, BusRead
      <3>4. view'.groups[g] = IF Events(bus[1], g) THEN EventSays(bus[1], g) ELSE view.groups[g]
        BY <1>3, <3>1, AppliedSays
      <3>5. Last(g, x)'
        BY <2>3, <3>2, <3>3, <3>4 DEF Last
      <3> QED
        BY <1>2, <2>1, <3>5, FollowsLast
    <2>5. CASE VerifyHash
      <3>1. /\ ~lagged /\ asked' \in Nat /\ asked' >= asked /\ bus # <<>> /\ bus' = Tail(bus)
            /\ bus[1].kind = "Checkpoint" /\ view' = view
        BY <2>5, VerifyEffect
      <3>2. ~(asked > 0)
        BY <1>3, <2>2, <3>1
      <3>3. Last(g, x)
        BY <1>4, <2>1, <2>2, <3>1, <3>2, FollowsLast DEF SnapshotDue
      <3>4. ~Events(bus[1], g)
        BY <3>1 DEF Events
      <3>5. (InBus(g) <=> Events(bus[1], g) \/ InBus(g)') /\ (BusOK(g, x) => BusOK(g, x)')
        BY <3>1, BusRead
      <3>6. Last(g, x)'
        BY <2>3, <3>1, <3>3, <3>4, <3>5 DEF Last
      <3> QED
        BY <1>2, <2>1, <3>6, FollowsLast
    <2>6. CASE OnLag
      <3>1. asked' = asked + 1
        BY <2>6 DEF OnLag
      <3> QED
        BY <1>3, <2>2, <3>1
    <2>7. CASE ApplyConnected
      <3>1. asked' = asked /\ lagged' = lagged /\ bus' = bus /\ view' = view
        BY <2>7 DEF ApplyConnected
      <3>2. Last(g, x)
        BY <1>4, <2>1, <2>2, <3>1, FollowsLast DEF SnapshotDue
      <3>3. (InBus(g)' <=> InBus(g)) /\ (BusOK(g, x)' <=> BusOK(g, x))
        BY <3>1 DEF InBus, BusOK, LastEvent, Events, EventSays
      <3>4. Last(g, x)'
        BY <2>3, <3>1, <3>2, <3>3 DEF Last
      <3> QED
        BY <1>2, <2>1, <3>4, FollowsLast
    <2> QED
      BY <2>4, <2>5, <2>6, <2>7 DEF Consume
  <1> QED
    BY <1>2, <1>4, GroupServerKept

LEMMA GroupNext ==
  ASSUME TypeOK, HashInv, GroupInv, [Next]_vars
  PROVE  GroupInv'
  <1>1. CASE OwnOperation \/ \E t \in Handlers : Operation(t)
    BY <1>1, OperationStarts, GroupOperation
  <1>2. CASE OwnStep
    BY <1>2, GroupOwnStep
  <1>3. CASE \E t \in Tasks : Broadcast(t)
    BY <1>3, GroupBroadcast
  <1>4. CASE Receiver
    BY <1>4, GroupReceiver
  <1>5. CASE Consume \/ OnLag \/ ApplyConnected
    BY <1>5, GroupProjection
  <1>6. CASE UNCHANGED vars
    <2>1. UNCHANGED <<srv, job, raced, wire, bus, view, asked, lagged>>
      BY <1>6 DEF vars
    <2>2. SnapshotDue' <=> SnapshotDue
      BY <2>1 DEF SnapshotDue
    <2>3. ASSUME NEW g PROVE Follows(g) => Follows(g)'
      BY <2>1 DEF Follows, InTodo, InWire, InBus, LastFrame, LastEvent, Frames, Events, FrameSays, EventSays
    <2> QED
      BY <2>1, <2>2, <2>3, GroupServerKept
  <1> QED
    BY <1>1, <1>2, <1>3, <1>4, <1>5, <1>6 DEF Next

LEMMA GroupInit == Init => GroupInv
  <1> SUFFICES ASSUME Init PROVE GroupInv
    OBVIOUS
  <1>1. PICK j : j = [todo |-> <<>>, pc |-> "place", read |-> <<>>]
    OBVIOUS
  <1>2. j.pc = "place" /\ j.todo = <<>> /\ j = [Idle EXCEPT !.pc = "place"]
    BY <1>1 DEF Idle
  <1>3. job = [t \in Tasks |-> IF t = Own THEN j ELSE Idle]
    BY <1>2 DEF Init
  <1>4. job[Own].pc = "place" /\ \A t \in Tasks : job[t].todo = <<>> /\ (job[t] # Idle => t = Own)
    BY <1>2, <1>3, IdleFields, ConstantsOK
  <1>5. \A t \in Tasks : 1..Len(job[t].todo) = {}
    BY <1>4
  <1> QED
    BY <1>4, <1>5 DEF GroupInv, SnapshotDue

(***************************************************************************)
(* Divergence heals, for any number of rooms, users, groups, handlers and  *)
(* operations and any capacity of the channel: when nothing is in flight,  *)
(* a client that is up has the server's rooms and users if the last        *)
(* operation began with nothing in flight, whatever was dropped or         *)
(* reordered before, and the server's groups if handlers never overlapped. *)
(***************************************************************************)
THEOREM DivergenceHeals == Spec => []Healed
  <1> DEFINE Inv == TypeOK /\ MembersOK /\ MuteOK /\ HashInv /\ GroupInv
  <1>1. Init => Inv
    BY TypeInit, HashInit, GroupInit
  <1>2. Inv /\ [Next]_vars => Inv'
    BY TypeNext, AudioNext, HashNext, GroupNext
  <1>3. Inv => Healed
    <2>1. SUFFICES ASSUME Inv, Quiet, phase = "up"
                   PROVE  /\ settled => HashInput(view) = HashInput(srv)
                          /\ ~raced => view.groups = srv.groups
      BY DEF Healed
    <2>2. Still
      BY <2>1 DEF Quiet, Still
    <2>3. settled => HashInput(view) = HashInput(srv)
      BY <2>1, <2>2 DEF HashInv, Matches
    <2>4. ASSUME ~raced PROVE view.groups = srv.groups
      <3>1. ~SnapshotDue
        BY <2>1, IdleFields, ConstantsOK DEF Quiet, SnapshotDue
      <3>2. \A g \in Groups : Follows(g)
        BY <2>1, <2>4, <3>1, GroupParts
      <3>3. wire = <<>> /\ bus = <<>> /\ \A t \in Tasks : job[t].todo = <<>>
        BY <2>1, IdleFields DEF Quiet
      <3>4. 1..Len(wire) = {} /\ 1..Len(bus) = {} /\ \A t \in Tasks : 1..Len(job[t].todo) = {}
        BY <3>3
      <3>5. \A g \in Groups : ~InTodo(g) /\ ~InWire(g) /\ ~InBus(g)
        BY <3>4 DEF InTodo, InWire, InBus
      <3>6. \A g \in Groups : view.groups[g] = srv.groups[g]
        BY <3>2, <3>5 DEF Follows
      <3>7. view.groups \in [Groups -> Bits \cup {None}] /\ srv.groups \in [Groups -> Bits \cup {None}]
        BY <2>1, CopyFields DEF TypeOK
      <3> QED
        BY <3>6, <3>7
    <2> QED
      BY <2>3, <2>4
  <1> QED
    BY <1>1, <1>2, <1>3, PTL DEF Spec
================================================================================
