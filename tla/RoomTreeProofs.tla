---------------------------- MODULE RoomTreeProofs ----------------------------
(***************************************************************************)
(* What the room handlers guarantee for every number of rooms, users and   *)
(* tasks.                                                                  *)
(***************************************************************************)
EXTENDS RoomTree, TLAPS

Assumptions ==
    /\ Root \in RoomIds /\ NewLabel \in Labels /\ Offline \notin RoomIds

LEMMA ConstantsOK == Assumptions
  BY RootIsRoom, LabelAssumption, OfflineIsNoRoom DEF Assumptions

LEMMA IdleTaskType == IdleTask \in TaskState
  BY ConstantsOK DEF Assumptions, IdleTask, TaskState, Ops, Points, Record, BlankRecord

(* Storing a well-typed record in one task keeps the table well typed. *)
LEMMA TaskUpdateType ==
  ASSUME NEW tbl \in [Tasks -> TaskState], NEW t \in Tasks, NEW s \in TaskState
  PROVE  [tbl EXCEPT ![t] = s] \in [Tasks -> TaskState]
  OBVIOUS

(* A task neither comes to a new write nor becomes a delete in this step. *)
Keeps(s) ==
    /\ task'[s].at = "save" => task[s].at = "save" /\ task'[s].key = task[s].key
    /\ task'[s].op = "delete" => task[s].op = "delete" /\ task'[s].room = task[s].room

LEMMA InitType == Init => TypeOK /\ StoreSound
  <1> SUFFICES ASSUME Init PROVE TypeOK /\ StoreSound
    OBVIOUS
  <1>1. task \in [Tasks -> TaskState]
    BY IdleTaskType DEF Init
  <1>2. TypeOK
    BY <1>1, ConstantsOK DEF Init, TypeOK, Live, Assumptions, Record
  <1>3. StoreSound
    BY DEF Init, StoreSound, Live, IdleTask
  <1> QED
    BY <1>2, <1>3

LEMMA BeginType ==
  ASSUME TypeOK, StoreSound, NEW t \in Tasks, Begin(t)
  PROVE  TypeOK' /\ StoreSound'
  <1> USE ConstantsOK, IdleTaskType DEF Assumptions
  <1>1. ASSUME NEW p \in RoomIds, CreateCheckParent(t, p) PROVE TypeOK' /\ StoreSound'
    <2>1. [IdleTask EXCEPT !.op = "create", !.at = "insert", !.to = p] \in TaskState
      BY DEF IdleTask, TaskState, Ops, Points
    <2> QED
      BY <1>1, <2>1 DEF CreateCheckParent, Start, TypeOK, StoreSound, memory, Live, IdleTask
  <1>2. ASSUME NEW r \in RoomIds, NEW l \in Labels, RenameApply(t, r, l)
        PROVE TypeOK' /\ StoreSound'
    <2>1. [IdleTask EXCEPT !.op = "rename", !.at = "load", !.key = r, !.text = l] \in TaskState
      BY DEF IdleTask, TaskState, Ops, Points
    <2> QED
      BY <1>2, <2>1 DEF RenameApply, Start, TypeOK, StoreSound, Live, IdleTask
  <1>3. ASSUME NEW r \in RoomIds, NEW p \in RoomIds, MoveCheck(t, r, p)
        PROVE TypeOK' /\ StoreSound'
    <2>1. [IdleTask EXCEPT !.op = "move", !.at = "apply", !.room = r, !.to = p] \in TaskState
      BY DEF IdleTask, TaskState, Ops, Points
    <2> QED
      BY <1>3, <2>1 DEF MoveCheck, Start, TypeOK, StoreSound, memory, Live, IdleTask
  <1>4. ASSUME NEW r \in RoomIds, DeleteSnapshot(t, r) PROVE TypeOK' /\ StoreSound'
    <2>1. [IdleTask EXCEPT !.op = "delete", !.at = "apply", !.room = r, !.to = parent[r],
              !.kids = {c \in Live : parent[c] = r}] \in TaskState
      BY <1>4 DEF DeleteSnapshot, TypeOK, IdleTask, TaskState, Ops, Points
    <2> QED
      BY <1>4, <2>1 DEF DeleteSnapshot, Start, TypeOK, StoreSound, memory, Live, IdleTask
  <1>5. ASSUME NEW u \in Users, NEW r \in RoomIds, JoinCheck(t, u, r)
        PROVE TypeOK' /\ StoreSound'
    <2>1. [IdleTask EXCEPT !.op = "join", !.at = "enter", !.room = r, !.who = u] \in TaskState
      BY DEF IdleTask, TaskState, Ops, Points
    <2> QED
      BY <1>5, <2>1 DEF JoinCheck, Start, TypeOK, StoreSound, memory, Live, IdleTask
  <1>6. ASSUME NEW u \in Users, LoginCheck(t, u) PROVE TypeOK' /\ StoreSound'
    <2>1. [IdleTask EXCEPT !.op = "login", !.at = "enter", !.who = u,
              !.room = IF lastRoom[u] \in Live THEN lastRoom[u] ELSE Root] \in TaskState
      BY DEF TypeOK, IdleTask, TaskState, Ops, Points
    <2> QED
      BY <1>6, <2>1 DEF LoginCheck, Start, TypeOK, StoreSound, memory, Live, IdleTask
  <1> QED
    BY <1>1, <1>2, <1>3, <1>4, <1>5, <1>6 DEF Begin

(* The record that follows a written one is well typed. *)
LEMMA AfterRecordType ==
  ASSUME TypeOK, NEW t \in Tasks, AfterRecord(t)
  PROVE  /\ task' \in [Tasks -> TaskState]
         /\ task'[t].at # "save"
         /\ Keeps(t)
         /\ \A s \in Tasks \ {t} : task'[s] = task[s]
  BY IdleTaskType DEF Keeps, AfterRecord, TypeOK, Done, IdleTask, TaskState, Points

LEMMA StepType ==
  ASSUME TypeOK, StoreSound, NEW t \in Tasks, Step(t)
  PROVE  TypeOK' /\ StoreSound'
  <1> USE ConstantsOK, IdleTaskType DEF Assumptions, history
  <1>1. ASSUME NEW r \in RoomIds, CreateInsert(t, r) PROVE TypeOK' /\ StoreSound'
    <2>1. [parent |-> task[t].to, label |-> NewLabel] \in Record
      BY DEF TypeOK, TaskState, Record
    <2>2. task' \in [Tasks -> TaskState]
      BY <1>1, <2>1 DEF CreateInsert, TypeOK, TaskState, Points
    <2>3. \A s \in Tasks : task'[s].at = "save" =>
             task'[s].key \in (used \cup {r}) \ {Root}
      BY <1>1 DEF CreateInsert, TypeOK, StoreSound, TaskState
    <2>5. \A s \in Tasks : task'[s].op = "delete" => task'[s].room # Root
      BY <1>1 DEF CreateInsert, TypeOK, StoreSound, TaskState
    <2>4. task[t].to \in RoomIds
      BY DEF TypeOK, TaskState
    <2> QED
      BY <1>1, <2>2, <2>3, <2>4, <2>5 DEF CreateInsert, TypeOK, StoreSound, Live
  <1>2. CASE MoveApply(t)
    <2>1. task' \in [Tasks -> TaskState]
      BY <1>2 DEF MoveApply, TypeOK, Done, TaskState, Points
    <2>2. \A s \in Tasks : Keeps(s)
      BY <1>2 DEF Keeps, MoveApply, TypeOK, Done, IdleTask, TaskState
    <2>3. task[t].to \in RoomIds /\ task[t].room \in RoomIds
      BY DEF TypeOK, TaskState
    <2> QED
      BY <1>2, <2>1, <2>2, <2>3 DEF Keeps, MoveApply, TypeOK, StoreSound, Live
  <1>3. ASSUME NEW c \in RoomIds, DeleteMoveChild(t, c) PROVE TypeOK' /\ StoreSound'
    <2>0. "load" \in Points
      BY DEF Points
    <2>1. task' \in [Tasks -> TaskState]
      BY <1>3, <2>0 DEF DeleteMoveChild, TypeOK, TaskState
    <2>2. \A s \in Tasks : Keeps(s)
      BY <1>3 DEF Keeps, DeleteMoveChild, TypeOK, TaskState
    <2>3. task[t].to \in RoomIds
      BY DEF TypeOK, TaskState
    <2> QED
      BY <1>3, <2>1, <2>2, <2>3 DEF Keeps, DeleteMoveChild, TypeOK, StoreSound, Live
  <1>4. CASE DeleteApply(t)
    <2>1. task' \in [Tasks -> TaskState]
      BY <1>4 DEF DeleteApply, TypeOK, Done, Goto, TaskState, Points
    <2>2. \A s \in Tasks : Keeps(s)
      BY <1>4 DEF Keeps, DeleteApply, TypeOK, Done, Goto, IdleTask, TaskState
    <2>3. task[t].op = "delete" /\ task[t].room \in RoomIds
      BY <1>4 DEF DeleteApply, TypeOK, TaskState
    <2> QED
      BY <1>4, <2>1, <2>2, <2>3 DEF Keeps, DeleteApply, TypeOK, StoreSound, Live, memory
  <1>5. CASE DeleteErase(t)
    <2>1. task' \in [Tasks -> TaskState]
      BY <1>5 DEF DeleteErase, TypeOK, Done
    <2>2. \A s \in Tasks : Keeps(s)
      BY <1>5 DEF Keeps, DeleteErase, TypeOK, Done, IdleTask
    <2> QED
      BY <1>5, <2>1, <2>2 DEF Keeps, DeleteErase, TypeOK, StoreSound, Live, memory
  <1>6. CASE LoadRecord(t)
    <2>1. CASE task[t].key \in DOMAIN store
      <3>1. Patched(t) \in Record
        BY <2>1 DEF Patched, TypeOK, TaskState, Record
      <3>2. task' \in [Tasks -> TaskState]
        BY <1>6, <2>1, <3>1 DEF LoadRecord, TypeOK, TaskState, Points
      <3>3. \A s \in Tasks : task'[s].at = "save" => task'[s].key \in used \ {Root}
        BY <1>6, <2>1 DEF LoadRecord, TypeOK, StoreSound, TaskState
      <3>4. \A s \in Tasks : task'[s].op = "delete" => task'[s].room # Root
        BY <1>6, <2>1 DEF LoadRecord, TypeOK, StoreSound, TaskState
      <3> QED
        BY <1>6, <2>1, <3>2, <3>3, <3>4 DEF LoadRecord, TypeOK, StoreSound, Live, memory
    <2>2. CASE task[t].key \notin DOMAIN store
      BY <1>6, <2>2, AfterRecordType DEF Keeps, LoadRecord, TypeOK, StoreSound, Live, memory
    <2> QED
      BY <2>1, <2>2
  <1>7. CASE SaveRecord(t)
    <2>1. task[t].rec \in Record /\ task[t].key \in RoomIds
      BY DEF TypeOK, TaskState
    <2>2. task[t].key \in used \ {Root}
      BY <1>7 DEF SaveRecord, StoreSound
    <2> QED
      BY <1>7, <2>1, <2>2, AfterRecordType DEF Keeps, SaveRecord, TypeOK, StoreSound, Live, memory
  <1>8. CASE Enter(t)
    <2>1. task' \in [Tasks -> TaskState]
      BY <1>8 DEF Enter, TypeOK, Done, Goto, TaskState, Points
    <2>2. \A s \in Tasks : Keeps(s)
      BY <1>8 DEF Keeps, Enter, TypeOK, Done, Goto, IdleTask, TaskState
    <2>3. task[t].room \in RoomIds
      BY DEF TypeOK, TaskState
    <2> QED
      BY <1>8, <2>1, <2>2, <2>3 DEF Keeps, Enter, TypeOK, StoreSound, Live
  <1>9. CASE RememberRoom(t)
    <2>1. task' \in [Tasks -> TaskState]
      BY <1>9 DEF RememberRoom, TypeOK, Done
    <2>2. \A s \in Tasks : Keeps(s)
      BY <1>9 DEF Keeps, RememberRoom, TypeOK, Done, IdleTask
    <2>3. task[t].room \in RoomIds
      BY DEF TypeOK, TaskState
    <2> QED
      BY <1>9, <2>1, <2>2, <2>3 DEF Keeps, RememberRoom, TypeOK, StoreSound, Live, memory
  <1> QED
    BY <1>1, <1>2, <1>3, <1>4, <1>5, <1>6, <1>7, <1>8, <1>9 DEF Step

LEMMA RestartType ==
  ASSUME TypeOK, StoreSound, Restart
  PROVE  TypeOK' /\ StoreSound'
  <1> USE ConstantsOK, IdleTaskType DEF Assumptions, history
  <1>1. LoadedParent \in [DOMAIN store \cup {Root} -> RoomIds]
    BY DEF LoadedParent, TypeOK, Record
  <1>2. LoadedLabel \in [DOMAIN store \cup {Root} -> Labels]
    BY DEF LoadedLabel, TypeOK, Record
  <1>3. Root \in used
    BY DEF TypeOK, StoreSound
  <1> QED
    BY <1>1, <1>2, <1>3 DEF Restart, TypeOK, StoreSound, Live, IdleTask

(***************************************************************************)
(* The handlers keep the rooms, memberships, records and task tables well  *)
(* typed, and never write Root, or a room that was not created, to the     *)
(* store - under every interleaving, with crashes.                         *)
(***************************************************************************)
THEOREM TypeCorrect == Spec => [](TypeOK /\ StoreSound)
  <1>1. ASSUME TypeOK, StoreSound, [Next]_vars PROVE TypeOK' /\ StoreSound'
    <2>1. CASE UNCHANGED vars
      BY <1>1, <2>1 DEF vars, TypeOK, StoreSound, Live
    <2>2. CASE Restart
      BY <1>1, <2>2, RestartType
    <2>3. ASSUME NEW u \in Users, Leave(u) PROVE TypeOK' /\ StoreSound'
      BY <1>1, <2>3 DEF Leave, TypeOK, StoreSound, Live, history
    <2>4. ASSUME NEW t \in Tasks, Begin(t) PROVE TypeOK' /\ StoreSound'
      BY <1>1, <2>4, BeginType
    <2>5. ASSUME NEW t \in Tasks, Step(t) PROVE TypeOK' /\ StoreSound'
      BY <1>1, <2>5, StepType
    <2> QED
      BY <1>1, <2>1, <2>2, <2>3, <2>4, <2>5 DEF Next
  <1> QED
    BY <1>1, InitType, PTL DEF Spec

-----------------------------------------------------------------------------
(* Four facts about parent functions, one per way the tree changes. *)

LEMMA AddLeaf ==
  ASSUME NEW par, Root \in DOMAIN par, Acyclic(par),
         NEW r, r \notin DOMAIN par, \A x \in DOMAIN par : par[x] # r,
         NEW p \in DOMAIN par
  PROVE  LET new == [x \in DOMAIN par \cup {r} |-> IF x = r THEN p ELSE par[x]]
         IN  Acyclic(new) /\ (Healthy(par) => Healthy(new))
  <1> DEFINE new == [x \in DOMAIN par \cup {r} |-> IF x = r THEN p ELSE par[x]]
  <1>1. ASSUME NEW S \in SUBSET (DOMAIN new \ {Root}), S # {}
        PROVE  \E x \in S : new[x] \notin S
    <2>1. CASE S = {r}
      BY <2>1
    <2>2. CASE S # {r}
      <3>1. S \ {r} # {} /\ S \ {r} \in SUBSET (DOMAIN par \ {Root})
        BY <1>1, <2>2
      <3>2. PICK x \in S \ {r} : par[x] \notin S \ {r}
        BY <3>1 DEF Acyclic
      <3>3. par[x] # r /\ new[x] = par[x]
        BY <3>1, <3>2
      <3> QED
        BY <3>2, <3>3
    <2> QED
      BY <2>1, <2>2
  <1>2. Acyclic(new)
    BY <1>1 DEF Acyclic
  <1>3. Healthy(par) => new[Root] = Root /\ NoDangling(new)
    BY DEF Healthy, NoDangling
  <1> QED
    BY <1>2, <1>3 DEF Healthy

LEMMA RemoveLeaf ==
  ASSUME NEW par, Root \in DOMAIN par, Acyclic(par),
         NEW r \in DOMAIN par \ {Root}, \A c \in DOMAIN par : par[c] # r
  PROVE  LET new == [x \in DOMAIN par \ {r} |-> par[x]]
         IN  Acyclic(new) /\ (Healthy(par) => Healthy(new))
  BY DEF Healthy, NoDangling, Acyclic

(* Moving r under p closes no cycle beside Root when some set that is      *)
(* closed under the parent link holds p and not r: p is not below r.       *)
LEMMA Reparent ==
  ASSUME NEW par, Root \in DOMAIN par, Acyclic(par),
         NEW r \in DOMAIN par, NEW p, NEW W, p \in W, r \notin W,
         \A x \in W : x \in DOMAIN par /\ par[x] # Root => par[x] \in W
  PROVE  LET new == [par EXCEPT ![r] = p]
         IN  /\ Acyclic(new)
             /\ Healthy(par) /\ r # Root /\ p \in DOMAIN par => Healthy(new)
  <1> DEFINE new == [par EXCEPT ![r] = p]
  <1>1. ASSUME NEW S \in SUBSET (DOMAIN new \ {Root}), S # {}, \A x \in S : new[x] \in S
        PROVE  FALSE
    <2>1. PICK y \in S : par[y] \notin S
      BY <1>1 DEF Acyclic
    <2>2. y = r /\ p \in S
      BY <1>1, <2>1
    <2>3. PICK x \in S \cap W : par[x] \notin S \cap W
      <3>1. S \cap W # {} /\ S \cap W \in SUBSET (DOMAIN par \ {Root})
        BY <1>1, <2>2
      <3> QED
        BY <3>1 DEF Acyclic
    <2>4. new[x] = par[x]
      BY <2>3
    <2> QED
      BY <1>1, <2>3, <2>4
  <1>2. DOMAIN new = DOMAIN par
    OBVIOUS
  <1>3. Acyclic(new)
    BY <1>1, <1>2 DEF Acyclic
  <1>4. Healthy(par) /\ r # Root /\ p \in DOMAIN par => new[Root] = Root /\ NoDangling(new)
    BY DEF Healthy, NoDangling
  <1> QED
    BY <1>3, <1>4 DEF Healthy

(* Moving a child up to its grandparent. *)
LEMMA Promote ==
  ASSUME NEW par, Root \in DOMAIN par, Acyclic(par),
         NEW r \in DOMAIN par \ {Root}, NEW c \in DOMAIN par, par[c] = r
  PROVE  LET new == [x \in DOMAIN par |-> IF x = c THEN par[r] ELSE par[x]]
         IN  Acyclic(new) /\ (Healthy(par) => Healthy(new))
  <1> DEFINE new == [x \in DOMAIN par |-> IF x = c THEN par[r] ELSE par[x]]
  <1>1. ASSUME NEW S \in SUBSET (DOMAIN new \ {Root}), S # {}, \A x \in S : new[x] \in S
        PROVE  FALSE
    <2>1. PICK y \in S : par[y] \notin S
      BY <1>1 DEF Acyclic
    <2>2. y = c /\ par[r] \in S
      BY <1>1, <2>1
    <2>3. S \cup {r} \in SUBSET (DOMAIN par \ {Root}) /\ S \cup {r} # {}
      BY <1>1
    <2>4. PICK x \in S \cup {r} : par[x] \notin S \cup {r}
      BY <2>3 DEF Acyclic
    <2> QED
      BY <1>1, <2>2, <2>4
  <1>2. Acyclic(new)
    BY <1>1 DEF Acyclic
  <1>3. Healthy(par) => new[Root] = Root /\ NoDangling(new)
    BY DEF Healthy, NoDangling
  <1> QED
    BY <1>2, <1>3 DEF Healthy

-----------------------------------------------------------------------------
(* The soundness of the tree and of what tasks checked, step by step. *)

Sound == TreeRooted /\ MembersPlaced /\ Solo /\ \A t \in Tasks : TaskSound(t)

(* A task that holds no check of the tree is sound whatever the tree is. *)
LEMMA CheckFree ==
  ASSUME NEW t \in Tasks,
         \/ task[t].op \in {"idle", "rename"}
         \/ task[t].op = "create" /\ task[t].at # "insert"
         \/ task[t].op \in {"join", "login"} /\ task[t].at # "enter"
         \/ task[t].op = "move" /\ task[t].at # "apply"
         \/ task[t].op = "delete" /\ task[t].at \notin {"apply", "load", "save"}
  PROVE  TaskSound(t)
  BY DEF TaskSound

(* A request taken up without a race: the tree is as before, the other     *)
(* tasks too, and a move or delete found everybody else idle.              *)
LEMMA StartSound ==
  ASSUME TypeOK, ~raced, ~raced', Sound, NEW t \in Tasks, NEW req,
         Start(t, req), UNCHANGED <<parent, member>>
  PROVE  /\ TreeRooted' /\ MembersPlaced' /\ Solo'
         /\ \A s \in Tasks \ {t} : TaskSound(s)'
         /\ task'[t] = req
  <1>1. task'[t] = req /\ \A s \in Tasks \ {t} : task'[s] = task[s]
    BY DEF Start, TypeOK
  <1>2. TreeRooted' /\ MembersPlaced'
    BY DEF Start, Sound, TreeRooted, Rooted, MembersPlaced, Live
  <1>3. Solo'
    <2> SUFFICES ASSUME NEW s \in Tasks, task'[s].op \in Structural, NEW q \in Tasks \ {s}
                 PROVE  task'[q].op = "idle"
      BY DEF Solo, Alone, Idle
    <2>1. Alone(t)
      BY DEF Start
    <2>2. CASE s = t
      BY <1>1, <2>1, <2>2 DEF Alone, Idle
    <2>3. CASE s # t
      BY <1>1, <2>1, <2>3 DEF Alone, Idle, Structural
    <2> QED
      BY <2>2, <2>3
  <1>4. ASSUME NEW s \in Tasks \ {t} PROVE TaskSound(s)'
    BY <1>1, <1>4 DEF Sound, TaskSound, Live, WalkReaches, WalkClosed
  <1> QED
    BY <1>1, <1>2, <1>3, <1>4

LEMMA BeginSound ==
  ASSUME TypeOK, ~raced, ~raced', Sound, NEW t \in Tasks, Begin(t)
  PROVE  Sound'
  <1> USE ConstantsOK DEF Assumptions
  <1>1. ASSUME NEW p \in RoomIds, CreateCheckParent(t, p) PROVE Sound'
    <2> DEFINE req == [IdleTask EXCEPT !.op = "create", !.at = "insert", !.to = p]
    <2>1. req.op = "create" /\ req.to = p
      BY DEF IdleTask
    <2>2. Start(t, req) /\ UNCHANGED <<parent, member>>
      BY <1>1 DEF CreateCheckParent, memory
    <2> HIDE DEF req
    <2>3. TaskSound(t)'
      BY <1>1, <2>1, <2>2, StartSound DEF CreateCheckParent, TaskSound, Live
    <2> QED
      BY <2>2, <2>3, StartSound DEF Sound
  <1>2. ASSUME NEW r \in RoomIds, NEW l \in Labels, RenameApply(t, r, l) PROVE Sound'
    <2> DEFINE req == [IdleTask EXCEPT !.op = "rename", !.at = "load", !.key = r, !.text = l]
    <2>1. req.op = "rename"
      BY DEF IdleTask
    <2>2. Start(t, req) /\ UNCHANGED <<parent, member>>
      BY <1>2 DEF RenameApply
    <2> HIDE DEF req
    <2>3. TaskSound(t)'
      BY <1>2, <2>1, <2>2, StartSound DEF RenameApply, TaskSound, Live
    <2> QED
      BY <2>2, <2>3, StartSound DEF Sound
  <1>3. ASSUME NEW r \in RoomIds, NEW p \in RoomIds, MoveCheck(t, r, p) PROVE Sound'
    <2> DEFINE req == [IdleTask EXCEPT !.op = "move", !.at = "apply", !.room = r, !.to = p]
    <2>1. req.op = "move" /\ req.room = r /\ req.to = p
      BY DEF IdleTask
    <2>2. Start(t, req) /\ UNCHANGED <<parent, member>>
      BY <1>3 DEF MoveCheck, memory
    <2> HIDE DEF req
    <2>3. TaskSound(t)'
      BY <1>3, <2>1, <2>2, StartSound DEF MoveCheck, TaskSound, Live, WalkReaches, WalkClosed
    <2> QED
      BY <2>2, <2>3, StartSound DEF Sound
  <1>4. ASSUME NEW r \in RoomIds, DeleteSnapshot(t, r) PROVE Sound'
    <2> DEFINE req == [IdleTask EXCEPT !.op = "delete", !.at = "apply", !.room = r,
                      !.to = parent[r], !.kids = {c \in Live : parent[c] = r}]
    <2>1. /\ req.op = "delete" /\ req.at = "apply" /\ req.room = r
          /\ req.to = parent[r] /\ req.kids = {c \in Live : parent[c] = r}
      BY DEF IdleTask
    <2>2. Start(t, req) /\ UNCHANGED <<parent, member>>
      BY <1>4 DEF DeleteSnapshot, memory
    <2> HIDE DEF req
    <2>3. TaskSound(t)'
      BY <1>4, <2>1, <2>2, StartSound DEF DeleteSnapshot, TaskSound, Live
    <2> QED
      BY <2>2, <2>3, StartSound DEF Sound
  <1>5. ASSUME NEW u \in Users, NEW r \in RoomIds, JoinCheck(t, u, r) PROVE Sound'
    <2> DEFINE req == [IdleTask EXCEPT !.op = "join", !.at = "enter", !.room = r, !.who = u]
    <2>1. req.op = "join" /\ req.room = r
      BY DEF IdleTask
    <2>2. Start(t, req) /\ UNCHANGED <<parent, member>>
      BY <1>5 DEF JoinCheck, memory
    <2> HIDE DEF req
    <2>3. TaskSound(t)'
      BY <1>5, <2>1, <2>2, StartSound DEF JoinCheck, TaskSound, Live
    <2> QED
      BY <2>2, <2>3, StartSound DEF Sound
  <1>6. ASSUME NEW u \in Users, LoginCheck(t, u) PROVE Sound'
    <2> DEFINE req == [IdleTask EXCEPT !.op = "login", !.at = "enter", !.who = u,
                      !.room = IF lastRoom[u] \in Live THEN lastRoom[u] ELSE Root]
    <2>1. req.op = "login" /\ req.room = IF lastRoom[u] \in Live THEN lastRoom[u] ELSE Root
      BY DEF IdleTask
    <2>2. Start(t, req) /\ UNCHANGED <<parent, member>>
      BY <1>6 DEF LoginCheck, memory
    <2> HIDE DEF req
    <2>3. TaskSound(t)'
      BY <1>6, <2>1, <2>2, StartSound DEF LoginCheck, TaskSound, Live, TypeOK
    <2> QED
      BY <2>2, <2>3, StartSound DEF Sound
  <1> QED
    BY <1>1, <1>2, <1>3, <1>4, <1>5, <1>6 DEF Begin

(* A step of a task that is neither a move nor a delete: nobody else is in *)
(* a move or delete either, so the others stay sound while rooms are only  *)
(* added.                                                                  *)
LEMMA GrowSound ==
  ASSUME TypeOK, Sound, NEW t \in Tasks, task[t].op # "idle",
         task'[t].op \in {task[t].op, "idle"},
         \A s \in Tasks \ {t} : task'[s] = task[s],
         Live \subseteq Live', task[t].op \notin Structural
  PROVE  Solo' /\ \A s \in Tasks \ {t} : TaskSound(s)'
  <1>1. \A s \in Tasks : task[s].op \notin Structural
    BY DEF Sound, Solo, Alone, Idle
  <1>2. Solo'
    BY <1>1 DEF Solo, Structural
  <1> QED
    BY <1>1, <1>2 DEF Sound, TaskSound, Structural

(* A step of a move or delete: everybody else is idle. *)
LEMMA SoloSound ==
  ASSUME TypeOK, Sound, NEW t \in Tasks, task[t].op \in Structural,
         task'[t].op \in {task[t].op, "idle"},
         \A s \in Tasks \ {t} : task'[s] = task[s]
  PROVE  Solo' /\ \A s \in Tasks \ {t} : TaskSound(s)'
  <1>1. \A s \in Tasks \ {t} : task'[s].op = "idle"
    BY DEF Sound, Solo, Alone, Idle
  <1>2. Solo'
    BY <1>1 DEF Solo, Alone, Idle, Structural
  <1> QED
    BY <1>1, <1>2 DEF TaskSound

LEMMA InsertSound ==
  ASSUME TypeOK, StoreSound, Sound, NEW t \in Tasks, NEW r \in RoomIds, CreateInsert(t, r)
  PROVE  Sound'
  <1>1. /\ task'[t].op = "create" /\ task'[t].at = "save"
        /\ \A s \in Tasks \ {t} : task'[s] = task[s]
    BY DEF CreateInsert, TypeOK, TaskState
  <1>2. r \notin Live /\ task[t].to \in Live /\ Live' = Live \cup {r}
    BY DEF CreateInsert, Fresh, StoreSound, Sound, TaskSound, Live
  <1>3. TreeRooted'
    <2>1. /\ parent' = [x \in Live \cup {r} |-> IF x = r THEN task[t].to ELSE parent[x]]
          /\ UNCHANGED misplaced /\ \A x \in Live : parent[x] # r
      BY DEF CreateInsert, Fresh, history
    <2>2. Acyclic(parent) /\ (~misplaced => Healthy(parent)) /\ Root \in Live
      BY DEF Sound, TreeRooted, Rooted, TypeOK
    <2>3. Acyclic(parent') /\ (Healthy(parent) => Healthy(parent'))
      BY <1>2, <2>1, <2>2, AddLeaf DEF Live
    <2> QED
      BY <2>1, <2>2, <2>3 DEF TreeRooted, Rooted
  <1>4. MembersPlaced'
    BY <1>2 DEF CreateInsert, Sound, MembersPlaced
  <1>5. Solo' /\ \A s \in Tasks \ {t} : TaskSound(s)'
    <2>1. task[t].op = "create"
      BY DEF CreateInsert
    <2> QED
      BY <1>1, <1>2, <2>1, GrowSound DEF Structural
  <1>6. TaskSound(t)'
    BY <1>1 DEF TaskSound
  <1> QED
    BY <1>3, <1>4, <1>5, <1>6 DEF Sound

(* A step that leaves rooms and memberships alone. *)
LEMMA QuietSound ==
  ASSUME TypeOK, Sound, NEW t \in Tasks, UNCHANGED <<parent, member>>,
         task'[t].op \in {task[t].op, "idle"},
         \A s \in Tasks \ {t} : task'[s] = task[s],
         misplaced => misplaced', TaskSound(t)'
  PROVE  Sound'
  <1>1. TreeRooted' /\ MembersPlaced'
    BY DEF Sound, TreeRooted, Rooted, MembersPlaced, Live
  <1>2. Solo'
    BY DEF Sound, Solo, Alone, Idle, Structural
  <1>3. ASSUME NEW s \in Tasks \ {t} PROVE TaskSound(s)'
    BY <1>3 DEF Sound, TaskSound, Live, WalkReaches, WalkClosed
  <1> QED
    BY <1>1, <1>2, <1>3 DEF Sound

LEMMA DoneSound ==
  ASSUME TypeOK, Sound, NEW t \in Tasks, UNCHANGED <<parent, member, misplaced>>, Done(t)
  PROVE  Sound'
  <1>1. task'[t].op = "idle" /\ \A s \in Tasks \ {t} : task'[s] = task[s]
    BY DEF Done, TypeOK, IdleTask
  <1>2. TaskSound(t)'
    BY <1>1 DEF TaskSound
  <1> QED
    BY <1>1, <1>2, QuietSound

LEMMA MoveSound ==
  ASSUME TypeOK, Sound, NEW t \in Tasks, MoveApply(t)
  PROVE  Sound'
  <1>1. task[t].op = "move" /\ ~WalkReaches(task[t].to, task[t].room) /\ UNCHANGED member
    BY DEF MoveApply, Sound, TaskSound
  <1>2. CASE task[t].room \in Live
    <2>1. /\ task'[t].op = "move" /\ task'[t].at = "load"
          /\ \A s \in Tasks \ {t} : task'[s] = task[s]
      BY <1>1, <1>2 DEF MoveApply, TypeOK, TaskState
    <2>2. /\ parent' = [parent EXCEPT ![task[t].room] = task[t].to] /\ Live' = Live
          /\ misplaced' = (misplaced \/ task[t].room = Root \/ task[t].to \notin Live)
      BY <1>2 DEF MoveApply, Live
    <2>3. TreeRooted'
      <3>1. PICK W \in SUBSET RoomIds :
               task[t].to \in W /\ WalkClosed(W) /\ task[t].room \notin W
        BY <1>1 DEF WalkReaches
      <3>2. Acyclic(parent) /\ (~misplaced => Healthy(parent)) /\ Root \in Live
        BY DEF Sound, TreeRooted, Rooted, TypeOK
      <3>3. /\ Acyclic(parent')
            /\ Healthy(parent) /\ task[t].room # Root /\ task[t].to \in Live => Healthy(parent')
        BY <1>2, <2>2, <3>1, <3>2, Reparent DEF WalkClosed, Live
      <3> QED
        BY <2>2, <3>2, <3>3 DEF TreeRooted, Rooted
    <2>4. MembersPlaced'
      BY <1>1, <2>2 DEF Sound, MembersPlaced
    <2>5. Solo' /\ \A s \in Tasks \ {t} : TaskSound(s)'
      BY <1>1, <2>1, SoloSound DEF Structural
    <2>6. TaskSound(t)'
      BY <2>1 DEF TaskSound
    <2> QED
      BY <2>3, <2>4, <2>5, <2>6 DEF Sound
  <1>3. CASE task[t].room \notin Live
    BY <1>1, <1>3, DoneSound DEF MoveApply
  <1> QED
    BY <1>2, <1>3

LEMMA PromoteSound ==
  ASSUME TypeOK, Sound, NEW t \in Tasks, NEW c \in RoomIds, DeleteMoveChild(t, c)
  PROVE  Sound'
  <1> DEFINE r == task[t].room
  <1>1. /\ task[t].op = "delete" /\ r \in Live \ {Root} /\ task[t].to = parent[r]
        /\ c \in task[t].kids /\ {x \in Live : parent[x] = r} = task[t].kids
    BY DEF DeleteMoveChild, Sound, TaskSound
  <1>2. /\ task'[t].op = "delete" /\ task'[t].at = "load" /\ task'[t].key = c
        /\ task'[t].room = r /\ task'[t].to = task[t].to /\ task'[t].kids = task[t].kids
        /\ \A s \in Tasks \ {t} : task'[s] = task[s]
    BY DEF DeleteMoveChild, TypeOK, TaskState
  <1>3. parent' = [x \in Live |-> IF x = c THEN parent[r] ELSE parent[x]] /\ Live' = Live
    BY <1>1 DEF DeleteMoveChild, Live
  <1>4. c \in Live /\ parent[c] = r /\ UNCHANGED misplaced
    BY <1>1 DEF DeleteMoveChild, history
  <1>5. TreeRooted'
    <2>1. Acyclic(parent) /\ (~misplaced => Healthy(parent)) /\ Root \in Live
      BY DEF Sound, TreeRooted, Rooted, TypeOK
    <2>2. Acyclic(parent') /\ (Healthy(parent) => Healthy(parent'))
      BY <1>1, <1>3, <1>4, <2>1, Promote DEF Live
    <2> QED
      BY <1>4, <2>1, <2>2 DEF TreeRooted, Rooted
  <1>6. MembersPlaced'
    BY <1>3 DEF DeleteMoveChild, Sound, MembersPlaced
  <1>7. Solo' /\ \A s \in Tasks \ {t} : TaskSound(s)'
    BY <1>1, <1>2, SoloSound DEF Structural
  <1>8. TaskSound(t)'
    <2>1. parent[r] # r
      <3>1. {r} \in SUBSET (Live \ {Root}) /\ {r} # {}
        BY <1>1
      <3> QED
        BY <3>1 DEF Sound, TreeRooted, Rooted, Acyclic, Live
    <2>2. {x \in Live : parent'[x] = r} = task[t].kids \ {c}
      BY <1>1, <1>3, <2>1
    <2>3. parent'[r] = parent[r]
      BY <1>1, <1>3, <1>4, <2>1
    <2> QED
      BY <1>1, <1>2, <1>3, <2>2, <2>3 DEF TaskSound
  <1> QED
    BY <1>5, <1>6, <1>7, <1>8 DEF Sound

LEMMA RemoveSound ==
  ASSUME TypeOK, Sound, NEW t \in Tasks, DeleteApply(t)
  PROVE  Sound'
  <1> DEFINE r == task[t].room
  <1>1. /\ task[t].op = "delete" /\ r \in Live \ {Root}
        /\ \A c \in Live : parent[c] # r
    BY DEF DeleteApply, Sound, TaskSound
  <1>2. /\ task'[t].op = "delete" /\ task'[t].at = "erase"
        /\ \A s \in Tasks \ {t} : task'[s] = task[s]
    BY <1>1 DEF DeleteApply, Goto, TypeOK, TaskState
  <1>3. parent' = [x \in Live \ {r} |-> parent[x]] /\ Live' = Live \ {r}
    BY <1>1 DEF DeleteApply, Live
  <1>4. TreeRooted'
    <2>1. Acyclic(parent) /\ (~misplaced => Healthy(parent)) /\ Root \in Live
      BY DEF Sound, TreeRooted, Rooted, TypeOK
    <2>2. Acyclic(parent') /\ (Healthy(parent) => Healthy(parent'))
      BY <1>1, <1>3, <2>1, RemoveLeaf DEF Live
    <2>3. UNCHANGED misplaced
      BY DEF DeleteApply, history
    <2> QED
      BY <2>1, <2>2, <2>3 DEF TreeRooted, Rooted
  <1>5. MembersPlaced'
    BY <1>1, <1>3 DEF DeleteApply, Sound, MembersPlaced, TypeOK
  <1>6. Solo' /\ \A s \in Tasks \ {t} : TaskSound(s)'
    BY <1>1, <1>2, SoloSound DEF Structural
  <1>7. TaskSound(t)'
    BY <1>2 DEF TaskSound
  <1> QED
    BY <1>4, <1>5, <1>6, <1>7 DEF Sound

LEMMA AfterRecordSound ==
  ASSUME TypeOK, Sound, NEW t \in Tasks, UNCHANGED <<parent, member, misplaced>>,
         task[t].at \in {"load", "save"}, AfterRecord(t)
  PROVE  Sound'
  <1>1. CASE task[t].op = "delete"
    <2>1. /\ task'[t].op = "delete" /\ task'[t].at = "apply"
          /\ task'[t].kids = task[t].kids \ {task[t].key}
          /\ task'[t].room = task[t].room /\ task'[t].to = task[t].to
          /\ \A s \in Tasks \ {t} : task'[s] = task[s]
      BY <1>1 DEF AfterRecord, TypeOK, TaskState
    <2>2. /\ task[t].room \in Live \ {Root} /\ task[t].to = parent[task[t].room]
          /\ {c \in Live : parent[c] = task[t].room} = task[t].kids \ {task[t].key}
      BY <1>1 DEF Sound, TaskSound
    <2>3. TaskSound(t)'
      BY <2>1, <2>2 DEF TaskSound, Live
    <2> QED
      BY <1>1, <2>1, <2>3, QuietSound
  <1>2. CASE task[t].op # "delete"
    BY <1>2, DoneSound DEF AfterRecord
  <1> QED
    BY <1>1, <1>2

LEMMA LoadSound ==
  ASSUME TypeOK, Sound, NEW t \in Tasks, LoadRecord(t)
  PROVE  Sound'
  <1>1. CASE task[t].key \in DOMAIN store
    <2>1. /\ task'[t].op = task[t].op /\ task'[t].at = "save"
          /\ task'[t].kids = task[t].kids /\ task'[t].key = task[t].key
          /\ task'[t].room = task[t].room /\ task'[t].to = task[t].to
          /\ \A s \in Tasks \ {t} : task'[s] = task[s]
      BY <1>1 DEF LoadRecord, TypeOK, TaskState
    <2>2. task[t].at = "load" /\ UNCHANGED <<parent, member, misplaced>>
      BY DEF LoadRecord, memory, history
    <2>3. TaskSound(t)'
      BY <2>1, <2>2 DEF Sound, TaskSound, Live
    <2> QED
      BY <2>1, <2>2, <2>3, QuietSound
  <1>2. CASE task[t].key \notin DOMAIN store
    BY <1>2, AfterRecordSound DEF LoadRecord, memory, history
  <1> QED
    BY <1>1, <1>2

LEMMA EnterSound ==
  ASSUME TypeOK, Sound, NEW t \in Tasks, Enter(t)
  PROVE  Sound'
  <1>1. task[t].op \in {"join", "login"} /\ task[t].room \in Live
    BY DEF Enter, Sound, TaskSound
  <1>2. /\ task'[t].op \in {task[t].op, "idle"}
        /\ task'[t].op = "idle" \/ task'[t].at = "last"
        /\ \A s \in Tasks \ {t} : task'[s] = task[s]
    BY DEF Enter, Goto, Done, TypeOK, TaskState, IdleTask
  <1>3. TreeRooted' /\ MembersPlaced' /\ Live' = Live
    BY <1>1 DEF Enter, Sound, TreeRooted, Rooted, MembersPlaced, Live, TypeOK, history
  <1>4. Solo' /\ \A s \in Tasks \ {t} : TaskSound(s)'
    BY <1>1, <1>2, <1>3, GrowSound DEF Structural
  <1>5. TaskSound(t)'
    BY <1>1, <1>2 DEF TaskSound
  <1> QED
    BY <1>3, <1>4, <1>5 DEF Sound

LEMMA LeaveSound ==
  ASSUME TypeOK, Sound, NEW u \in Users, Leave(u)
  PROVE  Sound'
  <1>1. TreeRooted' /\ Solo'
    BY DEF Leave, Sound, TreeRooted, Rooted, Solo, Alone, Idle, history
  <1>2. MembersPlaced'
    BY DEF Leave, Sound, MembersPlaced, Live, TypeOK
  <1>3. ASSUME NEW t \in Tasks PROVE TaskSound(t)'
    BY <1>3 DEF Leave, Sound, TaskSound, Live, WalkReaches, WalkClosed
  <1> QED
    BY <1>1, <1>2, <1>3 DEF Sound

LEMMA StepSound ==
  ASSUME TypeOK, StoreSound, Sound, NEW t \in Tasks, Step(t)
  PROVE  Sound'
  <1>1. CASE DeleteErase(t)
    BY <1>1, DoneSound DEF DeleteErase, memory, history
  <1>2. CASE SaveRecord(t)
    BY <1>2, AfterRecordSound DEF SaveRecord, memory, history
  <1>3. CASE RememberRoom(t)
    BY <1>3, DoneSound DEF RememberRoom, memory, history
  <1> QED
    BY <1>1, <1>2, <1>3, InsertSound, MoveSound, PromoteSound, RemoveSound, LoadSound,
       EnterSound DEF Step

LEMMA BeginStarts ==
  ASSUME NEW t \in Tasks, Begin(t)
  PROVE  (\E req : Start(t, req)) /\ UNCHANGED <<parent, member, store, used>>
  BY DEF Begin, CreateCheckParent, RenameApply, MoveCheck, DeleteSnapshot, JoinCheck, LoginCheck,
     memory

(* No history is lost, and only a request taken up, a misplaced move or a  *)
(* restart adds to it.                                                     *)
LEMMA HistoryStays ==
  ASSUME [Next]_vars
  PROVE  /\ raced => raced'
         /\ lapped => lapped'
         /\ misplaced => misplaced'
         /\ (\A t \in Tasks : ~Begin(t)) => UNCHANGED lapped /\ (raced' => raced \/ lapped)
  <1> USE DEF history
  <1>1. ASSUME NEW t \in Tasks, Begin(t)
        PROVE  (raced => raced') /\ (lapped => lapped') /\ (misplaced => misplaced')
    BY <1>1, BeginStarts DEF Start
  <1>2. ASSUME NEW t \in Tasks, Step(t) PROVE UNCHANGED <<raced, lapped>> /\ (misplaced => misplaced')
    <2>1. CASE MoveApply(t)
      <3>1. \/ misplaced' = (misplaced \/ task[t].room = Root \/ task[t].to \notin Live)
            \/ misplaced' = misplaced
        BY <2>1, Zenon DEF MoveApply
      <3>2. misplaced => misplaced'
        BY <3>1, Zenon
      <3>3. UNCHANGED <<raced, lapped>>
        BY <2>1 DEF MoveApply
      <3> QED
        BY <3>2, <3>3
    <2>2. CASE ~MoveApply(t)
      <3>1. UNCHANGED <<raced, lapped, misplaced>>
        BY <1>2, <2>2 DEF Step, CreateInsert, DeleteMoveChild, DeleteApply, DeleteErase, LoadRecord,
           SaveRecord, Enter, RememberRoom
      <3> QED
        BY <3>1
    <2> QED
      BY <2>1, <2>2
  <1>3. CASE Restart
    BY <1>3, Zenon DEF Restart
  <1>4. CASE (\E u \in Users : Leave(u)) \/ UNCHANGED vars
    BY <1>4 DEF Leave, vars
  <1> QED
    BY <1>1, <1>2, <1>3, <1>4 DEF Next

LEMMA TaskIsNext ==
  ASSUME NEW t \in Tasks, Step(t) \/ Begin(t)
  PROVE  [Next]_vars
  BY DEF Next

LEMMA RacedStays ==
  ASSUME [Next]_vars, ~raced'
  PROVE  ~raced
  BY HistoryStays

-----------------------------------------------------------------------------
(* SerialInv is inductive, with crashes. *)

Serial ==
    /\ TreeRooted /\ MembersPlaced /\ OneHandler /\ ReloadRooted /\ StoreFollows
    /\ \A t \in Tasks : TaskSound(t) /\ RecordSound(t)

OthersIdle(t) == \A s \in Tasks \ {t} : task[s] = IdleTask

(* StoreFollows, as it reads while t is the only handler in flight. *)
Follows(t) ==
    /\ \A r \in Live \ {Root} : ~(Writing(t) /\ task[t].key = r) =>
          r \in DOMAIN store /\ store[r] = Current(r)
    /\ \A r \in DOMAIN store \ Live : task[t].at = "erase" /\ task[t].room = r

LEMMA SerialIsSound == Serial => Sound
  BY DEF Serial, Sound, Solo, Alone, Idle, OneHandler, Structural

LEMMA IdleFields == IdleTask.op = "idle" /\ IdleTask.at = "start"
  BY DEF IdleTask

LEMMA FollowsHere ==
  ASSUME NEW t \in Tasks, OthersIdle(t), StoreFollows
  PROVE  Follows(t)
  BY IdleFields DEF OthersIdle, StoreFollows, Follows, Writing

LEMMA FollowsThere ==
  ASSUME NEW t \in Tasks, OthersIdle(t)', Follows(t)'
  PROVE  StoreFollows'
  BY IdleFields DEF OthersIdle, StoreFollows, Follows, Writing

(* A step of the one handler in flight: what it leaves to show. *)
LEMMA SerialStep ==
  ASSUME NEW t \in Tasks, OthersIdle(t)', Sound', ReloadRooted', Follows(t)', RecordSound(t)'
  PROVE  Serial'
  <1>1. StoreFollows'
    BY FollowsThere
  <1>2. OneHandler'
    BY IdleFields DEF OthersIdle, OneHandler, Idle
  <1>3. ASSUME NEW s \in Tasks \ {t} PROVE RecordSound(s)'
    BY <1>3, IdleFields DEF OthersIdle, RecordSound, Writing
  <1> QED
    BY <1>1, <1>2, <1>3 DEF Serial, Sound

LEMMA ReloadKept ==
  ASSUME ReloadRooted, UNCHANGED store, [Next]_vars
  PROVE  ReloadRooted'
  BY HistoryStays DEF ReloadRooted, Rooted, LoadedParent

(* Once nothing is being written or erased, a reload gives the live tree. *)
LEMMA CaughtUp ==
  ASSUME NEW t \in Tasks, TypeOK', StoreSound', TreeRooted', Follows(t)', ~Writing(t)',
         task'[t].at # "erase"
  PROVE  ReloadRooted'
  <1>1. DOMAIN store' = DOMAIN parent' \ {Root}
    <2>1. \A r \in DOMAIN parent' \ {Root} : r \in DOMAIN store'
      BY DEF Follows, Live
    <2>2. \A r \in DOMAIN store' : r \in DOMAIN parent'
      BY DEF Follows, Live
    <2>3. Root \notin DOMAIN store'
      BY DEF StoreSound
    <2> QED
      BY <2>1, <2>2, <2>3
  <1>2. ASSUME NEW r \in DOMAIN parent' \ {Root} PROVE store'[r].parent = parent'[r]
    <2>1. store'[r] = Current(r)'
      BY <1>2 DEF Follows, Live
    <2>2. Current(r)' = [parent |-> parent'[r], label |-> label'[r]]
      BY DEF Current
    <2> QED
      BY <2>1, <2>2
  <1>3. parent' = [x \in DOMAIN parent' |-> parent'[x]] /\ Root \in DOMAIN parent'
    BY DEF TypeOK, Live
  <1>4. /\ DOMAIN LoadedParent' = DOMAIN parent'
        /\ \A r \in DOMAIN parent' \ {Root} : LoadedParent'[r] = parent'[r]
        /\ LoadedParent'[Root] = Root
    BY <1>1, <1>2, <1>3 DEF LoadedParent
  <1>5. Acyclic(LoadedParent')
    <2> SUFFICES ASSUME NEW S \in SUBSET (DOMAIN LoadedParent' \ {Root}), S # {}
                 PROVE  \E r \in S : LoadedParent'[r] \notin S
      BY DEF Acyclic
    <2>1. PICK r \in S : parent'[r] \notin S
      BY <1>4 DEF TreeRooted, Rooted, Acyclic
    <2> QED
      BY <1>4, <2>1
  <1>6. ASSUME ~misplaced' PROVE Healthy(LoadedParent')
    BY <1>4, <1>5, <1>6 DEF TreeRooted, Rooted, Healthy, NoDangling
  <1> QED
    BY <1>5, <1>6 DEF ReloadRooted, Rooted

(* A task that takes a step has a request, and the others have none. *)
LEMMA StepAlone ==
  ASSUME TypeOK, Serial, NEW t \in Tasks, Step(t)
  PROVE  OthersIdle(t) /\ OthersIdle(t)' /\ ~Idle(t)
  <1>1. task[t].at # "start"
    BY DEF Step, CreateInsert, MoveApply, DeleteMoveChild, DeleteApply, DeleteErase, LoadRecord,
       SaveRecord, Enter, RememberRoom
  <1>2. ~Idle(t)
    BY <1>1, IdleFields DEF Serial, RecordSound
  <1>3. OthersIdle(t)
    BY <1>2 DEF Serial, OneHandler, RecordSound, OthersIdle
  <1>4. \A s \in Tasks \ {t} : task'[s] = task[s]
    BY DEF Step, CreateInsert, MoveApply, DeleteMoveChild, DeleteApply, DeleteErase, LoadRecord,
       SaveRecord, Enter, RememberRoom, AfterRecord, Goto, Done, TypeOK
  <1> QED
    BY <1>2, <1>3, <1>4 DEF OthersIdle

(* A request: the store is as the memory, but for the label of a rename. *)
LEMMA BeginAlone ==
  ASSUME TypeOK, Serial, NEW t \in Tasks, Begin(t), ~lapped'
  PROVE  /\ OthersIdle(t) /\ OthersIdle(t)' /\ UNCHANGED store
         /\ task[t] = IdleTask /\ Follows(t) /\ ReloadRooted'
  <1>1. PICK req : Start(t, req)
    BY BeginStarts
  <1>2. task[t] = IdleTask /\ Alone(t)
    BY <1>1 DEF Start, Serial, RecordSound
  <1>3. OthersIdle(t)
    BY <1>2 DEF Serial, RecordSound, OthersIdle, Alone
  <1>4. OthersIdle(t)'
    BY <1>1, <1>3 DEF Start, OthersIdle, TypeOK
  <1>5. UNCHANGED store
    BY BeginStarts
  <1> QED
    BY <1>2, <1>3, <1>4, <1>5, FollowsHere, ReloadKept, TaskIsNext DEF Serial

(* A request that changes no room keeps the store in step. *)
LEMMA BeginPlain ==
  ASSUME TypeOK, Serial, NEW t \in Tasks, Begin(t), ~lapped', Sound',
         UNCHANGED <<parent, label>>, task'[t].op # "idle",
         task'[t].at \in {"insert", "apply", "enter"}
  PROVE  Serial'
  <1>1. Follows(t)'
    BY BeginAlone, IdleFields DEF Follows, Writing, Live, Current
  <1>2. RecordSound(t)'
    BY DEF RecordSound, Idle, Writing
  <1> QED
    BY <1>1, <1>2, BeginAlone, SerialStep

LEMMA BeginSerial ==
  ASSUME TypeOK, ~raced, ~raced', ~lapped', Serial, NEW t \in Tasks, Begin(t)
  PROVE  Serial'
  <1>1. Sound'
    BY SerialIsSound, BeginSound
  <1>2. ASSUME NEW r \in RoomIds, NEW l \in Labels, RenameApply(t, r, l) PROVE Serial'
    <2>1. PICK req : req = [IdleTask EXCEPT !.op = "rename", !.at = "load", !.key = r, !.text = l]
      OBVIOUS
    <2>2. req.op = "rename" /\ req.at = "load" /\ req.key = r /\ req.text = l
      BY <2>1 DEF IdleTask
    <2>3. task'[t] = req
      BY <1>2, <2>1 DEF RenameApply, Start, TypeOK
    <2>4. /\ UNCHANGED <<parent, store>> /\ label' = [label EXCEPT ![r] = l] /\ r \in Live
          /\ Live' = Live
      BY <1>2 DEF RenameApply, Live
    <2>5. Follows(t) /\ task[t] = IdleTask
      BY BeginAlone
    <2>6. ASSUME NEW x \in Live \ {Root}, x # r PROVE x \in DOMAIN store /\ store[x] = Current(x)'
      BY <2>4, <2>5, <2>6, IdleFields DEF Follows, Writing, Current, TypeOK
    <2>7. Follows(t)'
      BY <2>2, <2>3, <2>4, <2>5, <2>6, IdleFields DEF Follows, Writing
    <2>8. ASSUME r # Root PROVE r \in DOMAIN store /\ Patched(t)' = Current(r)'
      <3>1. r \in DOMAIN store /\ store[r] = Current(r)
        BY <2>4, <2>5, <2>8, IdleFields DEF Follows, Writing
      <3>2. Patched(t)' = [store[r] EXCEPT !.label = l]
        BY <2>2, <2>3, <2>4 DEF Patched
      <3>3. label'[r] = l /\ parent'[r] = parent[r]
        BY <2>4 DEF TypeOK
      <3> QED
        BY <3>1, <3>2, <3>3 DEF Current
    <2>9. RecordSound(t)'
      BY <2>2, <2>3, <2>4, <2>8 DEF RecordSound, Idle, Writing
    <2> QED
      BY <1>1, <2>7, <2>9, BeginAlone, SerialStep
  <1>3. ASSUME NEW p \in RoomIds, CreateCheckParent(t, p) PROVE Serial'
    <2>1. task'[t].op = "create" /\ task'[t].at = "insert" /\ UNCHANGED <<parent, label>>
      BY <1>3 DEF CreateCheckParent, Start, TypeOK, IdleTask, memory
    <2> QED
      BY <1>1, <2>1, BeginPlain
  <1>4. ASSUME NEW r \in RoomIds, NEW p \in RoomIds, MoveCheck(t, r, p) PROVE Serial'
    <2>1. task'[t].op = "move" /\ task'[t].at = "apply" /\ UNCHANGED <<parent, label>>
      BY <1>4 DEF MoveCheck, Start, TypeOK, IdleTask, memory
    <2> QED
      BY <1>1, <2>1, BeginPlain
  <1>5. ASSUME NEW r \in RoomIds, DeleteSnapshot(t, r) PROVE Serial'
    <2>1. task'[t].op = "delete" /\ task'[t].at = "apply" /\ UNCHANGED <<parent, label>>
      BY <1>5 DEF DeleteSnapshot, Start, TypeOK, IdleTask, memory
    <2> QED
      BY <1>1, <2>1, BeginPlain
  <1>6. ASSUME NEW u \in Users, NEW r \in RoomIds, JoinCheck(t, u, r) PROVE Serial'
    <2>1. task'[t].op = "join" /\ task'[t].at = "enter" /\ UNCHANGED <<parent, label>>
      BY <1>6 DEF JoinCheck, Start, TypeOK, IdleTask, memory
    <2> QED
      BY <1>1, <2>1, BeginPlain
  <1>7. ASSUME NEW u \in Users, LoginCheck(t, u) PROVE Serial'
    <2>1. task'[t].op = "login" /\ task'[t].at = "enter" /\ UNCHANGED <<parent, label>>
      BY <1>7 DEF LoginCheck, Start, TypeOK, IdleTask, memory
    <2> QED
      BY <1>1, <2>1, BeginPlain
  <1> QED
    BY <1>2, <1>3, <1>4, <1>5, <1>6, <1>7 DEF Begin


(* A step that changes neither a room nor the store, and writes nothing. *)
LEMMA QuietStep ==
  ASSUME TypeOK, StoreSound, Serial, NEW t \in Tasks, Step(t), UNCHANGED <<parent, label, store>>,
         task[t].at \notin {"load", "save", "erase"},
         task'[t] = IdleTask \/ (task'[t].op # "idle" /\ task'[t].at \in {"apply", "last"})
  PROVE  Serial'
  <1>1. Follows(t) /\ OthersIdle(t)' /\ Sound'
    BY StepAlone, FollowsHere, StepSound, SerialIsSound DEF Serial
  <1>2. Follows(t)'
    BY <1>1, IdleFields DEF Follows, Writing, Live, Current
  <1>3. RecordSound(t)'
    BY IdleFields DEF RecordSound, Idle, Writing
  <1>4. ReloadRooted'
    BY ReloadKept, TaskIsNext DEF Serial
  <1> QED
    BY <1>1, <1>2, <1>3, <1>4, SerialStep

LEMMA InsertSerial ==
  ASSUME TypeOK, StoreSound, Serial, NEW t \in Tasks, NEW r \in RoomIds, CreateInsert(t, r)
  PROVE  Serial'
  <1>1. Follows(t) /\ OthersIdle(t)' /\ Sound' /\ ReloadRooted'
    BY StepAlone, FollowsHere, StepSound, SerialIsSound, ReloadKept, TaskIsNext DEF Serial, Step, CreateInsert
  <1>2. /\ task[t].at = "insert" /\ UNCHANGED store
        /\ r \notin Live /\ r # Root /\ Live' = Live \cup {r}
    BY DEF CreateInsert, Fresh, StoreSound, TypeOK, Live
  <1>3. task[t].to \in RoomIds
    BY DEF TypeOK, TaskState
  <1>4. /\ task'[t].op = "create" /\ task'[t].at = "save" /\ task'[t].key = r
        /\ task'[t].rec = [parent |-> task[t].to, label |-> NewLabel]
    BY DEF CreateInsert, TypeOK, TaskState
  <1>5. /\ \A x \in Live : parent'[x] = parent[x] /\ label'[x] = label[x]
        /\ parent'[r] = task[t].to /\ label'[r] = NewLabel
    BY <1>2 DEF CreateInsert
  <1>6. Follows(t)'
    BY <1>1, <1>2, <1>4, <1>5 DEF Follows, Writing, Current
  <1>7. RecordSound(t)'
    BY <1>2, <1>4, <1>5 DEF RecordSound, Idle, Writing, Current
  <1> QED
    BY <1>1, <1>6, <1>7, SerialStep

(* One room gets a new parent in memory; its record is looked up next. *)
LEMMA ReparentSerial ==
  ASSUME TypeOK, StoreSound, Serial, NEW t \in Tasks, Step(t), NEW r \in Live \ {Root},
         task[t].at = "apply", task[t].op \in {"move", "delete"},
         UNCHANGED <<label, store>>, Live' = Live,
         parent'[r] = task[t].to, \A x \in Live \ {r} : parent'[x] = parent[x],
         task'[t].op = task[t].op, task'[t].at = "load", task'[t].key = r,
         task'[t].to = task[t].to
  PROVE  Serial'
  <1>1. Follows(t) /\ OthersIdle(t)' /\ Sound' /\ ReloadRooted'
    BY StepAlone, FollowsHere, StepSound, SerialIsSound, ReloadKept, TaskIsNext DEF Serial
  <1>2. Follows(t)'
    BY <1>1 DEF Follows, Writing, Current
  <1>3. r \in DOMAIN store /\ store[r] = Current(r)
    BY <1>1 DEF Follows, Writing
  <1>4. Patched(t)' = [store[r] EXCEPT !.parent = task[t].to]
    BY DEF Patched
  <1>5. Patched(t)' = Current(r)'
    BY <1>3, <1>4 DEF Current
  <1>6. RecordSound(t)'
    BY <1>3, <1>5 DEF RecordSound, Idle, Writing
  <1> QED
    BY <1>1, <1>2, <1>6, SerialStep

(* The same for Root, which has no record to look up. *)
LEMMA ReparentRootSerial ==
  ASSUME TypeOK, StoreSound, Serial, NEW t \in Tasks, Step(t),
         task[t].at = "apply", task[t].op \in {"move", "delete"},
         UNCHANGED <<label, store>>, Live' = Live,
         \A x \in Live \ {Root} : parent'[x] = parent[x],
         task'[t].op = task[t].op, task'[t].at = "load", task'[t].key = Root
  PROVE  Serial'
  <1>1. Follows(t) /\ OthersIdle(t)' /\ Sound' /\ ReloadRooted'
    BY StepAlone, FollowsHere, StepSound, SerialIsSound, ReloadKept, TaskIsNext DEF Serial
  <1>2. Follows(t)'
    BY <1>1 DEF Follows, Writing, Current
  <1>3. RecordSound(t)'
    BY DEF RecordSound, Idle, Writing, TypeOK
  <1> QED
    BY <1>1, <1>2, <1>3, SerialStep

LEMMA MoveSerial ==
  ASSUME TypeOK, StoreSound, Serial, NEW t \in Tasks, MoveApply(t)
  PROVE  Serial'
  <1>1. Step(t) /\ task[t].op = "move" /\ task[t].at = "apply" /\ UNCHANGED <<label, store>>
    BY DEF Step, MoveApply
  <1>2. CASE task[t].room \in Live
    <2>1. /\ parent' = [parent EXCEPT ![task[t].room] = task[t].to]
          /\ task' = [task EXCEPT ![t].at = "load", ![t].key = task[t].room]
      BY <1>2 DEF MoveApply
    <2>2. /\ Live' = Live /\ parent'[task[t].room] = task[t].to
          /\ \A x \in Live \ {task[t].room} : parent'[x] = parent[x]
      BY <1>2, <2>1 DEF Live
    <2>3. /\ task'[t].op = task[t].op /\ task'[t].at = "load" /\ task'[t].key = task[t].room
          /\ task'[t].to = task[t].to
      BY <2>1 DEF TypeOK, TaskState
    <2>4. CASE task[t].room = Root
      BY <1>1, <2>2, <2>3, <2>4, ReparentRootSerial
    <2>5. CASE task[t].room # Root
      BY <1>1, <1>2, <2>2, <2>3, <2>5, ReparentSerial
    <2> QED
      BY <2>4, <2>5
  <1>3. CASE task[t].room \notin Live
    <2>1. UNCHANGED parent /\ task'[t] = IdleTask
      BY <1>3 DEF MoveApply, Done, TypeOK
    <2> QED
      BY <1>1, <2>1, QuietStep
  <1> QED
    BY <1>2, <1>3

LEMMA PromoteSerial ==
  ASSUME TypeOK, StoreSound, Serial, NEW t \in Tasks, NEW c \in RoomIds, DeleteMoveChild(t, c)
  PROVE  Serial'
  <1>1. Step(t) /\ task[t].op = "delete" /\ task[t].at = "apply" /\ UNCHANGED <<label, store>>
    BY DEF Step, DeleteMoveChild
  <1>2. c \in Live
    BY <1>1 DEF DeleteMoveChild, Serial, TaskSound
  <1>3. /\ Live' = Live /\ parent'[c] = task[t].to
        /\ \A x \in Live \ {c} : parent'[x] = parent[x]
    BY <1>2 DEF DeleteMoveChild, Live
  <1>4. /\ task'[t].op = task[t].op /\ task'[t].at = "load" /\ task'[t].key = c
        /\ task'[t].to = task[t].to
    BY DEF DeleteMoveChild, TypeOK, TaskState
  <1>5. CASE c = Root
    BY <1>1, <1>3, <1>4, <1>5, ReparentRootSerial
  <1>6. CASE c # Root
    BY <1>1, <1>2, <1>3, <1>4, <1>6, ReparentSerial
  <1> QED
    BY <1>5, <1>6

LEMMA RemoveSerial ==
  ASSUME TypeOK, StoreSound, Serial, NEW t \in Tasks, DeleteApply(t)
  PROVE  Serial'
  <1>1. /\ Follows(t) /\ OthersIdle(t)' /\ Sound' /\ ReloadRooted' /\ UNCHANGED store
        /\ task[t].at = "apply" /\ task[t].op = "delete"
    BY StepAlone, FollowsHere, StepSound, SerialIsSound, ReloadKept, TaskIsNext DEF Serial, Step, DeleteApply
  <1>2. task[t].room \in Live
    BY <1>1 DEF Serial, TaskSound
  <1>3. /\ parent' = [x \in Live \ {task[t].room} |-> parent[x]]
        /\ label' = [x \in Live \ {task[t].room} |-> label[x]]
        /\ Goto(t, "erase")
    BY <1>2 DEF DeleteApply
  <1>4. Live' = Live \ {task[t].room}
    BY <1>3 DEF Live
  <1>5. task'[t].op = "delete" /\ task'[t].at = "erase" /\ task'[t].room = task[t].room
    BY <1>1, <1>3 DEF Goto, TypeOK, TaskState
  <1>6. Follows(t)'
    BY <1>1, <1>3, <1>4, <1>5 DEF Follows, Writing, Current
  <1>7. RecordSound(t)'
    BY <1>4, <1>5 DEF RecordSound, Idle, Writing
  <1> QED
    BY <1>1, <1>6, <1>7, SerialStep

(* What a task is after its record was written, or had nothing to write. *)
LEMMA AfterRecordIdleOrNext ==
  ASSUME TypeOK, NEW t \in Tasks, AfterRecord(t)
  PROVE  task'[t] = IdleTask \/ (task'[t].op = "delete" /\ task'[t].at = "apply")
  BY DEF AfterRecord, Done, TypeOK, TaskState

(* The task has written its record; the store is in step again. *)
LEMMA WrittenSerial ==
  ASSUME TypeOK, StoreSound, TypeOK', StoreSound', Serial, NEW t \in Tasks, Step(t), Follows(t)',
         task'[t] = IdleTask \/ (task'[t].op = "delete" /\ task'[t].at = "apply")
  PROVE  Serial'
  <1>1. OthersIdle(t)' /\ Sound'
    BY StepAlone, StepSound, SerialIsSound
  <1>2. ~Writing(t)' /\ task'[t].at # "erase" /\ RecordSound(t)'
    BY IdleFields DEF RecordSound, Idle, Writing
  <1>3. ReloadRooted'
    BY <1>1, <1>2, CaughtUp DEF Sound
  <1> QED
    BY <1>1, <1>2, <1>3, SerialStep

LEMMA LoadSerial ==
  ASSUME TypeOK, StoreSound, TypeOK', StoreSound', Serial, NEW t \in Tasks, LoadRecord(t)
  PROVE  Serial'
  <1>1. /\ Step(t) /\ Follows(t) /\ OthersIdle(t)' /\ Sound' /\ ReloadRooted'
        /\ task[t].at = "load" /\ UNCHANGED <<parent, label, store>>
    BY StepAlone, FollowsHere, StepSound, SerialIsSound, ReloadKept, TaskIsNext DEF Serial, Step, LoadRecord, memory
  <1>2. RecordSound(t) /\ ~Idle(t)
    BY <1>1, StepAlone DEF Serial
  <1>3. CASE task[t].key \in DOMAIN store
    <2>1. PICK rec : rec = Patched(t)
      OBVIOUS
    <2>2. task' = [task EXCEPT ![t].at = "save", ![t].rec = rec]
      BY <1>3, <2>1 DEF LoadRecord
    <2>3. /\ task'[t].op = task[t].op /\ task'[t].at = "save" /\ task'[t].key = task[t].key
          /\ task'[t].rec = rec
      BY <2>2 DEF TypeOK, TaskState
    <2>4. task[t].key # Root
      BY <1>3 DEF StoreSound
    <2>5. Follows(t)'
      BY <1>1, <2>3 DEF Follows, Writing, Current, Live
    <2>6. task[t].key \in Live /\ rec = Current(task[t].key)
      BY <1>1, <1>2, <2>1, <2>4 DEF RecordSound, Writing
    <2>7. RecordSound(t)'
      BY <1>1, <1>2, <2>3, <2>6 DEF RecordSound, Idle, Writing, Current, Live
    <2> QED
      BY <1>1, <2>5, <2>7, SerialStep
  <1>4. CASE task[t].key \notin DOMAIN store
    <2>1. task[t].key = Root /\ AfterRecord(t)
      BY <1>1, <1>2, <1>4 DEF RecordSound, LoadRecord
    <2>2. task'[t] = IdleTask \/ (task'[t].op = "delete" /\ task'[t].at = "apply")
      BY <2>1, AfterRecordIdleOrNext
    <2>3. Follows(t)'
      BY <1>1, <2>1, <2>2, IdleFields DEF Follows, Writing, Current, Live
    <2> QED
      BY <1>1, <2>2, <2>3, WrittenSerial
  <1> QED
    BY <1>3, <1>4

LEMMA SaveSerial ==
  ASSUME TypeOK, StoreSound, TypeOK', StoreSound', Serial, NEW t \in Tasks, SaveRecord(t)
  PROVE  Serial'
  <1>1. /\ Step(t) /\ Follows(t) /\ RecordSound(t) /\ task[t].at = "save"
        /\ UNCHANGED <<parent, label>> /\ AfterRecord(t)
    BY StepAlone, FollowsHere DEF Serial, Step, SaveRecord, memory
  <1>2. task'[t] = IdleTask \/ (task'[t].op = "delete" /\ task'[t].at = "apply")
    BY <1>1, AfterRecordIdleOrNext
  <1>3. /\ DOMAIN store' = DOMAIN store \cup {task[t].key}
        /\ store'[task[t].key] = task[t].rec
        /\ \A x \in DOMAIN store \ {task[t].key} : store'[x] = store[x]
    BY DEF SaveRecord
  <1>4. task[t].key \in Live /\ task[t].rec = Current(task[t].key)
    BY <1>1 DEF RecordSound, Writing
  <1>5. ASSUME NEW r \in Live \ {Root} PROVE r \in DOMAIN store' /\ store'[r] = Current(r)
    <2>1. CASE r = task[t].key
      BY <1>3, <1>4, <2>1
    <2>2. CASE r # task[t].key
      <3>1. r \in DOMAIN store /\ store[r] = Current(r)
        BY <1>1, <1>5, <2>2 DEF Follows
      <3> QED
        BY <1>3, <2>2, <3>1
    <2> QED
      BY <2>1, <2>2
  <1>6. \A r \in DOMAIN store' : r \in Live
    BY <1>1, <1>3, <1>4 DEF Follows
  <1>7. Follows(t)'
    BY <1>1, <1>5, <1>6 DEF Follows, Current, Live
  <1> QED
    BY <1>1, <1>2, <1>7, WrittenSerial

LEMMA EraseSerial ==
  ASSUME TypeOK, StoreSound, TypeOK', StoreSound', Serial, NEW t \in Tasks, DeleteErase(t)
  PROVE  Serial'
  <1>1. /\ Step(t) /\ Follows(t) /\ RecordSound(t) /\ task[t].at = "erase"
        /\ UNCHANGED <<parent, label>> /\ Done(t)
    BY StepAlone, FollowsHere DEF Serial, Step, DeleteErase, memory
  <1>2. task'[t] = IdleTask
    BY <1>1 DEF Done, TypeOK
  <1>3. /\ DOMAIN store' = DOMAIN store \ {task[t].room}
        /\ \A x \in DOMAIN store' : store'[x] = store[x]
    BY DEF DeleteErase
  <1>4. task[t].room \notin Live
    BY <1>1 DEF RecordSound
  <1>5. Follows(t)'
    BY <1>1, <1>2, <1>3, <1>4, IdleFields DEF Follows, Writing, Current, Live
  <1> QED
    BY <1>1, <1>2, <1>5, WrittenSerial

LEMMA StepSerial ==
  ASSUME TypeOK, StoreSound, TypeOK', StoreSound', Serial, NEW t \in Tasks, Step(t)
  PROVE  Serial'
  <1>1. CASE Enter(t)
    <2>1. UNCHANGED <<parent, label, store>> /\ task[t].at = "enter"
      BY <1>1 DEF Enter
    <2>2. task'[t] = IdleTask \/ (task'[t].op = "join" /\ task'[t].at = "last")
      BY <1>1 DEF Enter, Goto, Done, TypeOK, TaskState
    <2> QED
      BY <2>1, <2>2, QuietStep
  <1>2. CASE RememberRoom(t)
    <2>1. UNCHANGED <<parent, label, store>> /\ task[t].at = "last" /\ task'[t] = IdleTask
      BY <1>2 DEF RememberRoom, Done, TypeOK, memory
    <2> QED
      BY <2>1, QuietStep
  <1> QED
    BY <1>1, <1>2, InsertSerial, MoveSerial, PromoteSerial, RemoveSerial, LoadSerial, SaveSerial,
       EraseSerial DEF Step

LEMMA LeaveSerial ==
  ASSUME TypeOK, Serial, NEW u \in Users, Leave(u)
  PROVE  Serial'
  <1>1. Sound'
    BY SerialIsSound, LeaveSound
  <1>2. UNCHANGED <<parent, label, store, task>>
    BY DEF Leave
  <1>3. OneHandler' /\ ReloadRooted' /\ StoreFollows'
    BY <1>2 DEF Leave, history, Serial, OneHandler, Idle, ReloadRooted, Rooted, LoadedParent,
       StoreFollows, Writing, Current, Live
  <1>4. ASSUME NEW t \in Tasks PROVE RecordSound(t)'
    BY <1>2, <1>4 DEF Serial, RecordSound, Idle, Writing, Patched, Current, Live
  <1> QED
    BY <1>1, <1>3, <1>4 DEF Serial, Sound

(* The server comes back with exactly what is stored. *)
LEMMA RestartSerial ==
  ASSUME TypeOK, StoreSound, Serial, Restart
  PROVE  Serial'
  <1>1. /\ parent' = LoadedParent /\ label' = LoadedLabel /\ UNCHANGED store
        /\ \A t \in Tasks : task'[t] = IdleTask
        /\ \A u \in Users : member'[u] = Offline
    BY DEF Restart
  <1>2. Live' = DOMAIN store \cup {Root}
    BY <1>1 DEF Live, LoadedParent
  <1>3. TreeRooted' /\ ReloadRooted' /\ MembersPlaced'
    BY <1>1 DEF Restart, Serial, TreeRooted, ReloadRooted, Rooted, LoadedParent, MembersPlaced
  <1>4. OneHandler'
    BY <1>1, IdleFields DEF OneHandler, Idle
  <1>5. ASSUME NEW t \in Tasks PROVE TaskSound(t)' /\ RecordSound(t)'
    BY <1>1, <1>5, IdleFields DEF TaskSound, RecordSound, Writing
  <1>6. ASSUME NEW r \in DOMAIN store \ {Root} PROVE store[r] = Current(r)'
    <2>1. parent'[r] = store[r].parent /\ label'[r] = store[r].label
      BY <1>1, <1>6 DEF LoadedParent, LoadedLabel
    <2>2. store[r] \in Record
      BY <1>6 DEF TypeOK
    <2> QED
      BY <2>1, <2>2 DEF Current, Record
  <1>7. StoreFollows'
    BY <1>1, <1>2, <1>6, IdleFields DEF StoreFollows, Writing
  <1> QED
    BY <1>3, <1>4, <1>5, <1>7 DEF Serial

LEMMA SerialInductive == Spec => [](TypeOK /\ SerialInv)
  <1>1. Init => SerialInv
    <2> SUFFICES ASSUME Init PROVE Serial /\ ~raced
      BY DEF SerialInv, Serial
    <2>1. /\ parent = [r \in {Root} |-> Root] /\ store = [r \in {} |-> BlankRecord] /\ ~raced
          /\ \A t \in Tasks : task[t] = IdleTask
          /\ Live = {Root} /\ DOMAIN store = {}
      BY DEF Init, Live
    <2>2. TreeRooted
      BY <2>1 DEF TreeRooted, Rooted, Healthy, NoDangling, Acyclic
    <2>3. ReloadRooted
      BY <2>1 DEF ReloadRooted, Rooted, LoadedParent, Healthy, NoDangling, Acyclic
    <2>4. MembersPlaced
      BY DEF Init, MembersPlaced
    <2>5. OneHandler /\ StoreFollows
      BY <2>1, IdleFields DEF OneHandler, Idle, StoreFollows
    <2>6. ASSUME NEW t \in Tasks PROVE TaskSound(t) /\ RecordSound(t)
      BY <2>1, <2>6, IdleFields DEF TaskSound, RecordSound, Writing
    <2> QED
      BY <2>1, <2>2, <2>3, <2>4, <2>5, <2>6 DEF Serial
  <1>2. ASSUME TypeOK, StoreSound, TypeOK', StoreSound', SerialInv, [Next]_vars PROVE SerialInv'
    <2>1. raced' => lapped'
      <3>1. ASSUME NEW t \in Tasks, Begin(t) PROVE raced' => lapped'
        BY <1>2, <3>1, BeginStarts DEF Start, SerialInv
      <3> QED
        BY <1>2, <3>1, HistoryStays DEF SerialInv
    <2> SUFFICES ASSUME ~lapped' PROVE Serial'
      BY <2>1 DEF SerialInv, Serial
    <2>2. ~lapped /\ ~raced /\ ~raced' /\ Serial
      BY <1>2, <2>1, HistoryStays DEF SerialInv, Serial
    <2>3. CASE UNCHANGED vars
      <3>1. UNCHANGED <<parent, label, member, store, task, misplaced>>
        BY <2>3 DEF vars
      <3>2. TreeRooted' /\ MembersPlaced' /\ OneHandler' /\ ReloadRooted' /\ StoreFollows'
        BY <2>2, <3>1 DEF Serial, TreeRooted, Rooted, MembersPlaced, OneHandler, Idle, ReloadRooted,
           LoadedParent, StoreFollows, Writing, Current, Live
      <3>3. ASSUME NEW t \in Tasks PROVE TaskSound(t)' /\ RecordSound(t)'
        BY <2>2, <3>1, <3>3 DEF Serial, TaskSound, RecordSound, Idle, Writing, Patched, Current, Live,
           WalkReaches, WalkClosed
      <3> QED
        BY <3>2, <3>3 DEF Serial
    <2>4. CASE Restart
      BY <1>2, <2>2, <2>4, RestartSerial
    <2>5. ASSUME NEW u \in Users, Leave(u) PROVE Serial'
      BY <1>2, <2>2, <2>5, LeaveSerial
    <2>6. ASSUME NEW t \in Tasks, Begin(t) PROVE Serial'
      BY <1>2, <2>2, <2>6, BeginSerial
    <2>7. ASSUME NEW t \in Tasks, Step(t) PROVE Serial'
      BY <1>2, <2>2, <2>7, StepSerial
    <2> QED
      BY <1>2, <2>3, <2>4, <2>5, <2>6, <2>7 DEF Next
  <1> QED
    BY <1>1, <1>2, TypeCorrect, PTL DEF Spec

-----------------------------------------------------------------------------
(* HealthInv is inductive too: a restart is covered by SerialInv. *)

LEMMA HealthInductive == Spec => [](TypeOK /\ HealthInv)
  <1>1. Init => HealthInv
    <2> SUFFICES ASSUME Init PROVE HealthInv
      OBVIOUS
    <2>1. TreeRooted
      BY DEF Init, TreeRooted, Rooted, Healthy, NoDangling, Acyclic
    <2>2. MembersPlaced /\ Solo /\ \A t \in Tasks : TaskSound(t)
      BY DEF Init, MembersPlaced, Solo, TaskSound, IdleTask, Structural
    <2> QED
      BY <2>1, <2>2 DEF HealthInv
  <1>2. ASSUME TypeOK, StoreSound, SerialInv, HealthInv, [Next]_vars PROVE HealthInv'
    <2> SUFFICES ASSUME ~raced' PROVE Sound'
      BY DEF HealthInv, Sound
    <2>1. ~raced
      BY <1>2, RacedStays
    <2>2. Sound
      BY <1>2, <2>1 DEF HealthInv, Sound
    <2>3. CASE UNCHANGED vars
      BY <2>2, <2>3 DEF vars, Sound, TreeRooted, Rooted, MembersPlaced, Solo, Alone, Idle, TaskSound,
         Live, WalkReaches, WalkClosed
    <2>4. CASE Restart
      <3>1. ~lapped /\ Serial
        BY <1>2, <2>4 DEF Restart, SerialInv, Serial
      <3>2. Serial'
        BY <1>2, <2>4, <3>1, RestartSerial
      <3> QED
        BY <3>2 DEF Serial, Sound, Solo, Alone, Idle, OneHandler, Structural
    <2>5. ASSUME NEW u \in Users, Leave(u) PROVE Sound'
      BY <1>2, <2>2, <2>5, LeaveSound
    <2>6. ASSUME NEW t \in Tasks, Begin(t) PROVE Sound'
      BY <1>2, <2>1, <2>2, <2>6, BeginSound
    <2>7. ASSUME NEW t \in Tasks, Step(t) PROVE Sound'
      BY <1>2, <2>2, <2>7, StepSound
    <2> QED
      BY <1>2, <2>3, <2>4, <2>5, <2>6, <2>7 DEF Next
  <1> QED
    BY <1>1, <1>2, TypeCorrect, SerialInductive, PTL DEF Spec

(***************************************************************************)
(* For any number of overlapping creates, renames, joins and logins, until *)
(* a move or a delete overlaps another handler: no cycle of rooms closes   *)
(* beside Root, every online user is in a room that exists, and unless a   *)
(* move took Root away or named an unknown parent - which handle_move_room *)
(* accepts - the rooms are a tree rooted at Root.  Restarts change nothing *)
(* of it while no two handlers overlapped.                                 *)
(***************************************************************************)
THEOREM TreeStaysHealthy == Spec => []HealthyUnlessRaced
  <1>1. HealthInv => HealthyUnlessRaced
    BY DEF HealthInv, HealthyUnlessRaced
  <1> QED
    BY <1>1, HealthInductive, PTL

(* Only DeleteApply and a restart take a room out of the memory. *)
LEMMA RoomsStay ==
  ASSUME TypeOK, Next, ~Restart, \A t \in Tasks : ~DeleteApply(t)
  PROVE  Live \subseteq DOMAIN parent'
  <1>1. ASSUME NEW t \in Tasks, Begin(t) PROVE Live \subseteq DOMAIN parent'
    BY <1>1 DEF Begin, CreateCheckParent, RenameApply, MoveCheck, DeleteSnapshot, JoinCheck,
       LoginCheck, memory, Live
  <1>2. ASSUME NEW t \in Tasks, Step(t) PROVE Live \subseteq DOMAIN parent'
    <2>1. ASSUME NEW r \in RoomIds, CreateInsert(t, r) PROVE Live \subseteq DOMAIN parent'
      BY <2>1 DEF CreateInsert
    <2>2. CASE MoveApply(t)
      BY <2>2 DEF MoveApply, Live
    <2>3. ASSUME NEW c \in RoomIds, DeleteMoveChild(t, c) PROVE Live \subseteq DOMAIN parent'
      BY <2>3 DEF DeleteMoveChild
    <2>4. CASE DeleteErase(t) \/ LoadRecord(t) \/ SaveRecord(t) \/ Enter(t) \/ RememberRoom(t)
      BY <2>4 DEF DeleteErase, LoadRecord, SaveRecord, Enter, RememberRoom, memory, Live
    <2> QED
      BY <1>2, <2>1, <2>2, <2>3, <2>4 DEF Step
  <1> QED
    BY <1>1, <1>2 DEF Next, Leave, Live

(***************************************************************************)
(* Until a move or a delete overlaps another handler, DeleteRoom takes a   *)
(* room away only when all of its children have been moved up: the child   *)
(* snapshot it worked from is still complete when it deletes, whatever     *)
(* moves came before.                                                      *)
(***************************************************************************)
THEOREM NoOrphans == Spec => OnlyLeavesVanish
  <1>1. ASSUME TypeOK, HealthInv, [Next]_vars
        PROVE  [~raced' => \A r \in Live \ DOMAIN parent' :
                  \/ \A t \in Tasks : task'[t] = IdleTask
                  \/ \A c \in Live : parent[c] # r]_vars
    <2> SUFFICES ASSUME Next, ~raced', NEW r \in Live \ DOMAIN parent',
                        ~(\A t \in Tasks : task'[t] = IdleTask)
                 PROVE  \A c \in Live : parent[c] # r
      BY <1>1
    <2>0. ~Restart
      BY DEF Restart
    <2>1. PICK t \in Tasks : DeleteApply(t)
      BY <1>1, <2>0, RoomsStay
    <2>2. task[t].room \in Live /\ r = task[t].room
      BY <2>1 DEF DeleteApply, memory, Live
    <2>3. TaskSound(t)
      BY <1>1, RacedStays DEF HealthInv
    <2> QED
      BY <2>1, <2>2, <2>3 DEF TaskSound, DeleteApply
  <1> QED
    BY <1>1, HealthInductive, PTL DEF Spec, OnlyLeavesVanish

(***************************************************************************)
(* As long as no two room handlers overlapped, the server may die at any   *)
(* moment - between the memory and the record of a create, rename, move or *)
(* delete, or between two children of a delete - and load_persisted_rooms  *)
(* builds a tree: no room without its parent, no cycle.                    *)
(***************************************************************************)
THEOREM CrashKeepsATree == Spec => []SerialReload
  <1>1. SerialInv => SerialReload
    BY DEF SerialInv, SerialReload
  <1> QED
    BY <1>1, SerialInductive, PTL

(***************************************************************************)
(* As long as no two room handlers overlapped, crashes included, the store *)
(* holds exactly the rooms, parents and labels of the memory whenever no   *)
(* handler is in flight: a restart then changes no room.                   *)
(***************************************************************************)
THEOREM QuietStoreIsCurrent == Spec => []SerialDurable
  <1>1. TypeOK /\ StoreSound /\ SerialInv => SerialDurable
    <2> SUFFICES ASSUME TypeOK, StoreSound, SerialInv, ~lapped, \A t \in Tasks : Idle(t)
                 PROVE  /\ DOMAIN LoadedParent = Live
                        /\ \A r \in Live \ {Root} : /\ LoadedParent[r] = parent[r]
                                                    /\ LoadedLabel[r] = label[r]
                        /\ ~misplaced => LoadedParent = parent
      BY DEF SerialDurable, QuiescentDurable
    <2>1. StoreFollows /\ TreeRooted /\ \A t \in Tasks : task[t] = IdleTask
      BY DEF SerialInv, RecordSound
    <2>2. \A r \in Live \ {Root} : r \in DOMAIN store /\ store[r] = Current(r)
      BY <2>1, IdleFields DEF StoreFollows, Writing
    <2>3. DOMAIN store = Live \ {Root}
      <3>1. \A r \in DOMAIN store : r \in Live /\ r # Root
        BY <2>1, IdleFields DEF StoreFollows, StoreSound
      <3> QED
        BY <2>2, <3>1
    <2>4. ASSUME NEW r \in Live \ {Root} PROVE store[r].parent = parent[r] /\ store[r].label = label[r]
      <3>1. store[r] = [parent |-> parent[r], label |-> label[r]]
        BY <2>2, <2>4 DEF Current
      <3> QED
        BY <3>1
    <2>5. parent = [r \in Live |-> parent[r]] /\ Root \in Live
      BY DEF TypeOK
    <2>6. DOMAIN LoadedParent = Live /\ DOMAIN LoadedLabel = Live
      BY <2>3, <2>5 DEF LoadedParent, LoadedLabel
    <2>7. \A r \in Live \ {Root} : LoadedParent[r] = parent[r] /\ LoadedLabel[r] = label[r]
      BY <2>3, <2>4 DEF LoadedParent, LoadedLabel
    <2>8. ASSUME ~misplaced PROVE LoadedParent = parent
      <3>1. parent[Root] = Root
        BY <2>1, <2>8 DEF TreeRooted, Rooted, Healthy
      <3> QED
        BY <2>3, <2>4, <2>5, <3>1 DEF LoadedParent
    <2> QED
      BY <2>6, <2>7, <2>8
  <1> QED
    BY <1>1, SerialInductive, TypeCorrect, PTL

(***************************************************************************)
(* As long as no two room handlers overlapped, the tree is a tree and every *)
(* online user is in a room that exists in every life of the server, the   *)
(* ones after a crash in mid-handler included.                             *)
(***************************************************************************)
THEOREM TreeSurvivesCrashes == Spec => [](~lapped => TreeRooted /\ MembersPlaced)
  <1>1. SerialInv => (~lapped => TreeRooted /\ MembersPlaced)
    BY DEF SerialInv
  <1> QED
    BY <1>1, SerialInductive, PTL
================================================================================
