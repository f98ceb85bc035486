---------------------------- MODULE TransfersProofs ----------------------------
(***************************************************************************)
(* What the desktop client's transfer table guarantees for any number of   *)
(* offers, uploads, files and fetch tasks.                                 *)
(***************************************************************************)
EXTENDS Transfers, TLAPS

LEMMA ConstantsOK ==
  /\ MaxTasks \in Nat \ {0} /\ Offers \cap Shares = {}
  /\ None \notin Entries /\ None \notin Offers
  BY TransferConstants, NoneIsNothing

LEMMA NameRange == 0 \in 0..MaxTasks /\ (\A n \in Names : n \in 0..MaxTasks /\ n # 0) /\ Names \subseteq 0..MaxTasks
  BY ConstantsOK DEF Names

LEMMA TaskRange == \A k \in Tasks : k \in 0..MaxTasks
  BY ConstantsOK DEF Tasks

(* The stages and the program counters, as the records' fields hold them. *)
LEMMA EntryFields ==
  ASSUME NEW e \in Entries
  PROVE  /\ e.stage \in {"active", "done", "failed"} /\ e.dest \in 0..MaxTasks
         /\ e.local \in 0..MaxTasks /\ e.del \in BOOLEAN /\ e.room \in Rooms \cup {None}
         /\ e.path \in Paths \cup {None} /\ e.task \in 0..MaxTasks /\ e # None
  BY ConstantsOK DEF Entries

LEMMA FetchFields ==
  ASSUME NEW f \in FetchStates
  PROVE  /\ f.pc \in {"none", "asking", "named", "writing", "ended", "deleting", "done"}
         /\ f.id \in Offers \cup {None} /\ f.token \in BOOLEAN /\ f.ok \in BOOLEAN
         /\ f.dest \in 0..MaxTasks
  BY DEF FetchStates

LEMMA NoTaskFields ==
  /\ NoTask \in FetchStates
  /\ NoTask.pc = "none" /\ NoTask.id = None /\ NoTask.ok = FALSE /\ NoTask.dest = 0
  BY ConstantsOK DEF NoTask, FetchStates

(* Fetch task k moves to the local state f; no other task moves. *)
Moves(k, f) == f \in FetchStates /\ fetch' = [fetch EXCEPT ![k] = f]

LEMMA Moved ==
  ASSUME TypeOK, NEW k \in Tasks, NEW f, Moves(k, f)
  PROVE  /\ fetch' \in [Tasks -> FetchStates] /\ fetch'[k] = f
         /\ \A m \in Tasks \ {k} : fetch'[m] = fetch[m]
  BY DEF TypeOK, Moves

(* Transfer i gets the entry e; no other entry changes. *)
Enters(i, e) == e \in Entries /\ entry' = [entry EXCEPT ![i] = e]

LEMMA Entered ==
  ASSUME TypeOK, NEW i \in Offers \cup Shares, NEW e, Enters(i, e)
  PROVE  /\ entry' \in [Offers \cup Shares -> Entries \cup {None}] /\ entry'[i] = e /\ e # None
         /\ \A j \in (Offers \cup Shares) \ {i} : entry'[j] = entry[j]
  BY ConstantsOK DEF TypeOK, Enters

-----------------------------------------------------------------------------
(* What each step of a download does, field by field. *)

LEMMA DownloadEffect ==
  ASSUME TypeOK, NEW i \in Offers, NEW k \in Tasks, download(i, k)
  PROVE  /\ \E f : /\ Moves(k, f) /\ f.pc = "asking" /\ f.id = i /\ ~f.ok /\ f.dest = 0
         /\ \E e : /\ Enters(i, e) /\ e.stage = "active" /\ e.dest = 0 /\ e.task = k
  <1>1. PICK f : f = [NoTask EXCEPT !.pc = "asking", !.id = i]
    OBVIOUS
  <1>2. f \in FetchStates /\ f.pc = "asking" /\ f.id = i /\ ~f.ok /\ f.dest = 0
    <2>1. f = [pc |-> "asking", id |-> i, token |-> FALSE, ok |-> FALSE, dest |-> 0]
      BY <1>1 DEF NoTask
    <2> QED
      BY <2>1, ConstantsOK DEF FetchStates
  <1>3. PICK e : e = [stage |-> "active", dest |-> 0, local |-> 0, del |-> FALSE, room |-> None,
                      path |-> None, task |-> k]
    OBVIOUS
  <1>4. e \in Entries /\ e.stage = "active" /\ e.dest = 0 /\ e.task = k
    BY <1>3, TaskRange, ConstantsOK DEF Entries
  <1>5. Moves(k, f)
    BY <1>1, <1>2 DEF download, Moves
  <1>6. Enters(i, e)
    BY <1>3, <1>4 DEF download, Enters
  <1> QED
    BY <1>2, <1>4, <1>5, <1>6

(* A task in flight serves an offer that has an entry. *)
LEMMA Served ==
  ASSUME TypeOK, NEW k \in Tasks, TaskShape(k), fetch[k].pc # "none"
  PROVE  fetch[k].id \in Offers /\ fetch[k] \in FetchStates /\ entry[fetch[k].id] \in Entries
  BY DEF TypeOK, TaskShape

LEMMA NameEffect ==
  ASSUME TypeOK, NEW k \in Tasks, TaskShape(k), NEW n \in Names, NameDest(k, n)
  PROVE  /\ \E f : /\ Moves(k, f) /\ f.pc = "named" /\ f.id = fetch[k].id /\ f.ok = fetch[k].ok
                   /\ f.dest = n
         /\ \E e : /\ Enters(fetch[k].id, e) /\ e.stage = entry[fetch[k].id].stage /\ e.dest = n
                   /\ e.local = entry[fetch[k].id].local /\ e.task = entry[fetch[k].id].task
  <1>1. PICK i \in Offers : i = fetch[k].id
    BY Served DEF NameDest
  <1>2. PICK e0 \in Entries : e0 = entry[i]
    BY <1>1, Served DEF NameDest
  <1>3. PICK f0 \in FetchStates : f0 = fetch[k]
    BY Served DEF NameDest
  <1>4. PICK f : f = [f0 EXCEPT !.pc = "named", !.dest = n]
    OBVIOUS
  <1>5. f \in FetchStates /\ f.pc = "named" /\ f.id = f0.id /\ f.ok = f0.ok /\ f.dest = n
    BY <1>4, NameRange DEF FetchStates
  <1>6. PICK e : e = [e0 EXCEPT !.dest = n]
    OBVIOUS
  <1>7. /\ e \in Entries /\ e.dest = n /\ e.stage = e0.stage /\ e.local = e0.local
        /\ e.task = e0.task
    BY <1>6, NameRange DEF Entries
  <1>8. Moves(k, f)
    BY <1>3, <1>4, <1>5 DEF NameDest, Moves, TypeOK
  <1>9. Enters(i, e)
    BY <1>1, <1>2, <1>6, <1>7 DEF NameDest, Enters, TypeOK
  <1> QED
    BY <1>1, <1>2, <1>3, <1>5, <1>7, <1>8, <1>9

LEMMA CreateEffect ==
  ASSUME TypeOK, NEW k \in Tasks, TaskShape(k), CreateFile(k)
  PROVE  \E f : /\ Moves(k, f) /\ f.pc = "writing" /\ f.id = fetch[k].id /\ f.ok = fetch[k].ok
                /\ f.dest = fetch[k].dest
  <1>1. PICK f0 \in FetchStates : f0 = fetch[k]
    BY Served DEF CreateFile
  <1>2. PICK f : f = [f0 EXCEPT !.pc = "writing"]
    OBVIOUS
  <1>3. f \in FetchStates /\ f.pc = "writing" /\ f.id = f0.id /\ f.ok = f0.ok /\ f.dest = f0.dest
    BY <1>2 DEF FetchStates
  <1>4. fetch' = [fetch EXCEPT ![k] = f]
    BY <1>1, <1>2 DEF CreateFile, TypeOK
  <1>5. Moves(k, f)
    BY <1>3, <1>4 DEF Moves
  <1> QED
    BY <1>1, <1>3, <1>5

LEMMA OkEffect ==
  ASSUME TypeOK, NEW k \in Tasks, TaskShape(k), FetchOk(k)
  PROVE  \E f : /\ Moves(k, f) /\ f.pc = "ended" /\ f.id = fetch[k].id /\ f.ok = TRUE
                /\ f.dest = fetch[k].dest
  <1>1. PICK f0 \in FetchStates : f0 = fetch[k]
    BY Served DEF FetchOk
  <1>2. PICK f : f = [f0 EXCEPT !.pc = "ended", !.ok = TRUE]
    OBVIOUS
  <1>3. f \in FetchStates /\ f.pc = "ended" /\ f.id = f0.id /\ f.ok = TRUE /\ f.dest = f0.dest
    BY <1>2 DEF FetchStates
  <1>4. fetch' = [fetch EXCEPT ![k] = f]
    BY <1>1, <1>2 DEF FetchOk, TypeOK
  <1>5. Moves(k, f)
    BY <1>3, <1>4 DEF Moves
  <1> QED
    BY <1>1, <1>3, <1>5

LEMMA FailEffect ==
  ASSUME TypeOK, NEW k \in Tasks, TaskShape(k), FetchFails(k) \/ CreateCutOff(k)
  PROVE  \E f : /\ Moves(k, f) /\ f.pc = "ended" /\ f.id = fetch[k].id /\ f.ok = FALSE
                /\ f.dest = fetch[k].dest
  <1>1. PICK f0 \in FetchStates : f0 = fetch[k]
    BY Served DEF FetchFails, CreateCutOff
  <1>2. PICK f : f = [f0 EXCEPT !.pc = "ended", !.ok = FALSE]
    OBVIOUS
  <1>3. f \in FetchStates /\ f.pc = "ended" /\ f.id = f0.id /\ f.ok = FALSE /\ f.dest = f0.dest
    BY <1>2 DEF FetchStates
  <1>4. fetch' = [fetch EXCEPT ![k] = f]
    BY <1>1, <1>2 DEF FetchFails, CreateCutOff, TypeOK
  <1>5. Moves(k, f)
    BY <1>3, <1>4 DEF Moves
  <1> QED
    BY <1>1, <1>3, <1>5

LEMMA DeleteEffect ==
  ASSUME TypeOK, NEW k \in Tasks, TaskShape(k), DeleteFile(k)
  PROVE  \E f : /\ Moves(k, f) /\ f.pc = "done" /\ f.id = fetch[k].id /\ f.ok = fetch[k].ok
                /\ f.dest = fetch[k].dest
  <1>1. PICK f0 \in FetchStates : f0 = fetch[k]
    BY Served DEF DeleteFile
  <1>2. PICK f : f = [f0 EXCEPT !.pc = "done"]
    OBVIOUS
  <1>3. f \in FetchStates /\ f.pc = "done" /\ f.id = f0.id /\ f.ok = f0.ok /\ f.dest = f0.dest
    BY <1>2 DEF FetchStates
  <1>4. fetch' = [fetch EXCEPT ![k] = f]
    BY <1>1, <1>2 DEF DeleteFile, TypeOK
  <1>5. Moves(k, f)
    BY <1>3, <1>4 DEF Moves
  <1> QED
    BY <1>1, <1>3, <1>5

LEMMA ConcludeEffect ==
  ASSUME TypeOK, NEW k \in Tasks, TaskShape(k), FetchConcludes(k)
  PROVE  /\ \E f : /\ Moves(k, f) /\ f.id = fetch[k].id /\ f.ok = fetch[k].ok /\ f.dest = Doomed(k)
                   /\ f.pc = IF Doomed(k) = 0 THEN "done" ELSE "deleting"
         /\ Terminal(fetch[k].id) => entry' = entry
         /\ ~Terminal(fetch[k].id) =>
               \E e : /\ Enters(fetch[k].id, e) /\ e.dest = entry[fetch[k].id].dest
                      /\ e.task = entry[fetch[k].id].task
                      /\ e.stage = "done" => /\ fetch[k].ok /\ Doomed(k) = 0
                                             /\ e.local = fetch[k].dest
  <1>1. PICK i \in Offers : i = fetch[k].id
    BY Served DEF FetchConcludes
  <1>2. PICK e0 \in Entries : e0 = entry[i]
    BY <1>1, Served DEF FetchConcludes
  <1>3. PICK f0 \in FetchStates : f0 = fetch[k]
    BY Served DEF FetchConcludes
  <1>4. PICK d : d = Doomed(k)
    OBVIOUS
  <1>5. d \in 0..MaxTasks
    BY <1>1, <1>2, <1>4, ConstantsOK, EntryFields DEF Doomed
  <1>6. PICK pc \in {"done", "deleting"} : pc = IF d = 0 THEN "done" ELSE "deleting"
    OBVIOUS
  <1>7. PICK f : f = [f0 EXCEPT !.pc = pc, !.dest = d]
    OBVIOUS
  <1>8. f \in FetchStates /\ f.pc = pc /\ f.id = f0.id /\ f.ok = f0.ok /\ f.dest = d
    BY <1>5, <1>7 DEF FetchStates
  <1>9. Moves(k, f)
    BY <1>3, <1>4, <1>6, <1>7, <1>8 DEF FetchConcludes, Moves
  <1>10. Terminal(i) => entry' = entry
    BY <1>1 DEF FetchConcludes
  <1>11. ASSUME ~Terminal(i)
         PROVE  \E e : /\ Enters(i, e) /\ e.dest = e0.dest /\ e.task = e0.task
                       /\ e.stage = "done" => f0.ok /\ d = 0 /\ e.local = f0.dest
    <2>1. CASE f0.ok /\ ~e0.del
      <3>1. PICK e : e = [e0 EXCEPT !.stage = "done", !.local = f0.dest]
        OBVIOUS
      <3>2. e \in Entries /\ e.dest = e0.dest /\ e.task = e0.task /\ e.local = f0.dest
        BY <3>1, FetchFields DEF Entries
      <3>3. d = 0
        BY <1>1, <1>2, <1>3, <1>4, <2>1 DEF Doomed
      <3>4. entry' = [entry EXCEPT ![i] = e]
        BY <1>1, <1>2, <1>3, <1>11, <2>1, <3>1 DEF FetchConcludes, TypeOK
      <3>5. Enters(i, e)
        BY <3>2, <3>4 DEF Enters
      <3> QED
        BY <2>1, <3>2, <3>3, <3>5
    <2>2. CASE ~(f0.ok /\ ~e0.del)
      <3>1. PICK e : e = [e0 EXCEPT !.stage = "failed", !.local = 0]
        OBVIOUS
      <3>2. e \in Entries /\ e.dest = e0.dest /\ e.task = e0.task /\ e.stage = "failed"
        BY <3>1, NameRange DEF Entries
      <3>3. Enters(i, e)
        BY <1>1, <1>2, <1>3, <1>11, <2>2, <3>1, <3>2 DEF FetchConcludes, Enters
      <3> QED
        BY <3>2, <3>3
    <2> QED
      BY <2>1, <2>2
  <1> QED
    BY <1>1, <1>2, <1>3, <1>4, <1>6, <1>8, <1>9, <1>10, <1>11

(* A cancel of an active download: its entry fails and its task's token    *)
(* fires.                                                                  *)
LEMMA CancelEffect ==
  ASSUME TypeOK, EntryServed, NEW i \in Offers, NEW delete_files \in BOOLEAN, cancel(i, delete_files),
         ~Terminal(i)
  PROVE  /\ \E f : /\ Moves(entry[i].task, f) /\ f.pc = fetch[entry[i].task].pc
                   /\ f.id = fetch[entry[i].task].id /\ f.ok = fetch[entry[i].task].ok
                   /\ f.dest = fetch[entry[i].task].dest
         /\ \E e : /\ Enters(i, e) /\ e.stage = "failed" /\ e.dest = entry[i].dest
                   /\ e.local = entry[i].local /\ e.task = entry[i].task
         /\ entry[i] \in Entries /\ entry[i].task \in Tasks /\ UNCHANGED <<disk, lost>>
  <1>1. PICK e0 \in Entries : e0 = entry[i]
    BY DEF TypeOK, cancel
  <1>2. PICK k \in Tasks : k = e0.task
    BY <1>1 DEF EntryServed, cancel
  <1>3. PICK f0 \in FetchStates : f0 = fetch[k]
    BY DEF TypeOK
  <1>4. PICK f : f = [f0 EXCEPT !.token = TRUE]
    OBVIOUS
  <1>5. f \in FetchStates /\ f.pc = f0.pc /\ f.id = f0.id /\ f.ok = f0.ok /\ f.dest = f0.dest
    BY <1>4 DEF FetchStates
  <1>6. PICK e : e = [e0 EXCEPT !.stage = "failed", !.del = delete_files]
    OBVIOUS
  <1>7. /\ e \in Entries /\ e.stage = "failed" /\ e.dest = e0.dest /\ e.local = e0.local
        /\ e.task = e0.task
    BY <1>6 DEF Entries
  <1>8. Moves(k, f)
    BY <1>1, <1>2, <1>3, <1>4, <1>5 DEF cancel, Moves
  <1>9. Enters(i, e)
    <2>1. (delete_files /\ i \in Offers) = delete_files
      OBVIOUS
    <2> QED
      BY <1>1, <1>6, <1>7, <2>1 DEF cancel, Enters
  <1>10. UNCHANGED <<disk, lost>>
    BY DEF cancel
  <1> QED
    BY <1>1, <1>2, <1>3, <1>5, <1>7, <1>8, <1>9, <1>10

-----------------------------------------------------------------------------
(* TransferInv is inductive: first what holds whatever was fetched twice.  *)

Shape == EntryServed /\ SharesSound /\ late \subseteq lost /\ \A k \in Tasks : TaskShape(k)
Owns ==
    /\ \A k \in Tasks : TaskOwns(k)
    /\ \A i \in Offers : DoneOwns(i)
    /\ \A n \in Names : PartialOwned(n)

LEMMA InvParts == TransferInv <=> Shape /\ (~doubled => Owns)
  BY DEF TransferInv, Shape, Owns

(* The local state a task may be in once it serves an offer. *)
ShapedState(f) ==
    /\ f.pc # "none" /\ f.id \in Offers
    /\ f.pc = "asking" => f.dest = 0
    /\ f.pc \in {"asking", "named", "writing"} => ~f.ok
    /\ f.pc \in {"named", "writing", "deleting"} => f.dest \in Names
    /\ f.pc = "ended" /\ f.ok => f.dest \in Names

LEMMA ShapeMove ==
  ASSUME TypeOK, Shape, NEW k \in Tasks, NEW f, Moves(k, f), ShapedState(f),
         entry'[f.id] # None,
         \A i \in Offers : entry[i] # None => entry'[i] # None,
         \A i \in Offers : entry'[i] # None =>
             /\ entry'[i].task = k \/ (entry[i] # None /\ entry'[i].task = entry[i].task)
             /\ entry'[i].stage = "done" => entry'[i].local \in Names
  PROVE  EntryServed' /\ \A m \in Tasks : TaskShape(m)'
  <1>1. /\ fetch'[k] = f
        /\ \A m \in Tasks \ {k} : fetch'[m] = fetch[m]
    BY Moved
  <1>2. ASSUME NEW m \in Tasks PROVE TaskShape(m)'
    <2>1. CASE m = k
      BY <1>1, <2>1 DEF ShapedState, TaskShape
    <2>2. CASE m # k
      BY <1>1, <2>2 DEF Shape, TaskShape
    <2> QED
      BY <2>1, <2>2
  <1>3. ASSUME NEW i \in Offers, entry'[i] # None
        PROVE  entry'[i].task \in Tasks /\ fetch'[entry'[i].task].pc # "none"
    <2>1. CASE entry'[i].task = k
      BY <1>1, <2>1 DEF ShapedState
    <2>2. CASE entry'[i].task # k
      BY <1>1, <1>3, <2>2 DEF Shape, EntryServed
    <2> QED
      BY <2>1, <2>2
  <1> QED
    BY <1>2, <1>3 DEF EntryServed

(* Steps that leave the table alone. *)
LEMMA ShapeQuietMove ==
  ASSUME TypeOK, Shape, NEW k \in Tasks, NEW f, Moves(k, f), ShapedState(f), f.id = fetch[k].id,
         fetch[k].pc # "none", UNCHANGED entry
  PROVE  EntryServed' /\ \A m \in Tasks : TaskShape(m)'
  <1>1. entry'[f.id] # None
    BY DEF Shape, TaskShape
  <1> QED
    BY <1>1, ShapeMove DEF Shape, EntryServed

LEMMA OfferedShares ==
  ASSUME TypeOK, NEW o \in offered
  PROVE  o[1] \in Shares
  <1>1. o \in Shares \X Rooms
    BY DEF TypeOK
  <1> QED
    BY <1>1

LEMMA SharesKept ==
  ASSUME TypeOK, SharesSound, UNCHANGED <<upload, offered>>, \A s \in Shares : entry'[s] = entry[s]
  PROVE  SharesSound'
  <1> SUFFICES ASSUME NEW o \in offered PROVE entry'[o[1]] # None /\ entry'[o[1]].stage = "done"
    BY DEF SharesSound
  <1>1. o[1] \in Shares
    BY OfferedShares
  <1>2. entry[o[1]] # None /\ entry[o[1]].stage = "done"
    BY DEF SharesSound
  <1> QED
    BY <1>1, <1>2

LEMMA DownloadShape ==
  ASSUME TypeOK, Shape, NEW i \in Offers, NEW k \in Tasks, download(i, k)
  PROVE  TypeOK' /\ Shape'
  <1>1. PICK f : Moves(k, f) /\ f.pc = "asking" /\ f.id = i /\ ~f.ok /\ f.dest = 0
    BY DownloadEffect
  <1>2. PICK e : Enters(i, e) /\ e.stage = "active" /\ e.dest = 0 /\ e.task = k
    BY DownloadEffect
  <1>3. /\ entry'[i] = e /\ e # None /\ \A j \in (Offers \cup Shares) \ {i} : entry'[j] = entry[j]
        /\ entry' \in [Offers \cup Shares -> Entries \cup {None}] /\ fetch' \in [Tasks -> FetchStates]
    BY <1>1, <1>2, Entered, Moved
  <1>4. EntryServed' /\ \A m \in Tasks : TaskShape(m)'
    <2>1. ShapedState(f)
      BY <1>1 DEF ShapedState
    <2> QED
      BY <1>1, <1>2, <1>3, <2>1, ShapeMove DEF Shape, EntryServed
  <1>5. UNCHANGED <<upload, room, here, watchers, offered, disk, late, lost>>
    BY DEF download, sharing
  <1>6. clicks' \in [Offers -> Nat]
    <2>1. clicks[i] \in Nat /\ clicks[i] > 0
      BY DEF download, TypeOK
    <2>2. clicks[i] - 1 \in Nat
      BY <2>1
    <2> QED
      BY <2>2 DEF download, TypeOK
  <1>7. doubled' \in BOOLEAN
    BY DEF download
  <1>8. TypeOK'
    BY <1>3, <1>5, <1>6, <1>7 DEF TypeOK
  <1>9. SharesSound'
    BY <1>3, <1>5, SharesKept, ConstantsOK DEF Shape
  <1> QED
    BY <1>4, <1>5, <1>8, <1>9 DEF Shape

LEMMA NameShape ==
  ASSUME TypeOK, Shape, NEW k \in Tasks, NEW n \in Names, NameDest(k, n)
  PROVE  TypeOK' /\ Shape'
  <1>0. PICK i \in Offers : i = fetch[k].id /\ entry[i] # None /\ TaskShape(k) /\ ~fetch[k].ok
    BY DEF NameDest, Shape, TaskShape
  <1>1. PICK f : Moves(k, f) /\ f.pc = "named" /\ f.id = i /\ ~f.ok /\ f.dest = n
    BY <1>0, NameEffect
  <1>2. PICK e : /\ Enters(i, e) /\ e.stage = entry[i].stage /\ e.dest = n
                 /\ e.local = entry[i].local /\ e.task = entry[i].task
    BY <1>0, NameEffect
  <1>3. /\ entry'[i] = e /\ e # None /\ \A j \in (Offers \cup Shares) \ {i} : entry'[j] = entry[j]
        /\ entry' \in [Offers \cup Shares -> Entries \cup {None}] /\ fetch' \in [Tasks -> FetchStates]
    BY <1>1, <1>2, Entered, Moved
  <1>4. EntryServed' /\ \A m \in Tasks : TaskShape(m)'
    <2>1. ShapedState(f)
      BY <1>1 DEF ShapedState
    <2> QED
      BY <1>0, <1>1, <1>2, <1>3, <2>1, ShapeMove DEF Shape, EntryServed
  <1>5. /\ UNCHANGED <<upload, room, here, watchers, offered, disk, late, clicks, doubled>>
        /\ lost \subseteq lost' /\ lost' \subseteq lost \cup {n}
    BY DEF NameDest, sharing
  <1>6. TypeOK'
    BY <1>3, <1>5 DEF TypeOK
  <1>7. SharesSound'
    BY <1>3, <1>5, SharesKept, ConstantsOK DEF Shape
  <1> QED
    BY <1>4, <1>5, <1>6, <1>7 DEF Shape

(* The steps of a task that touch only its own state, the disk and the     *)
(* history.                                                                *)
LEMMA FileShape ==
  ASSUME TypeOK, Shape, NEW k \in Tasks,
         CreateFile(k) \/ FetchOk(k) \/ FetchFails(k) \/ CreateCutOff(k) \/ DeleteFile(k)
  PROVE  TypeOK' /\ Shape'
  <1>0. TaskShape(k) /\ fetch[k].pc # "none" /\ fetch[k] \in FetchStates /\ fetch[k].id \in Offers
    BY DEF CreateFile, FetchOk, FetchFails, CreateCutOff, DeleteFile, Shape, TaskShape, TypeOK
  <1>1. \E f : Moves(k, f) /\ ShapedState(f) /\ f.id = fetch[k].id
    <2>1. CASE CreateFile(k)
      BY <1>0, <2>1, CreateEffect DEF CreateFile, ShapedState, TaskShape
    <2>2. CASE FetchOk(k)
      BY <1>0, <2>2, OkEffect DEF FetchOk, ShapedState, TaskShape
    <2>3. CASE FetchFails(k) \/ CreateCutOff(k)
      BY <1>0, <2>3, FailEffect DEF ShapedState
    <2>4. CASE DeleteFile(k)
      BY <1>0, <2>4, DeleteEffect DEF ShapedState
    <2> QED
      BY <2>1, <2>2, <2>3, <2>4
  <1>2. PICK f : Moves(k, f) /\ ShapedState(f) /\ f.id = fetch[k].id
    BY <1>1
  <1>3. UNCHANGED <<entry, upload, room, here, watchers, offered, clicks, doubled>>
    BY DEF CreateFile, FetchOk, FetchFails, CreateCutOff, DeleteFile, sharing
  <1>4. EntryServed' /\ \A m \in Tasks : TaskShape(m)'
    BY <1>0, <1>2, <1>3, ShapeQuietMove
  <1>5. fetch' \in [Tasks -> FetchStates]
    BY <1>2, Moved
  <1>6. disk' \in [Names -> {"none", "partial", "whole"}]
    BY DEF CreateFile, FetchOk, FetchFails, CreateCutOff, DeleteFile, TypeOK
  <1>7. late' \subseteq lost' /\ lost' \subseteq Names
    <2>1. CASE CreateCutOff(k)
      BY <1>0, <2>1 DEF CreateCutOff, Shape, TypeOK, TaskShape
    <2>2. CASE ~CreateCutOff(k)
      BY <2>2 DEF CreateFile, FetchOk, FetchFails, DeleteFile, Shape, TypeOK
    <2> QED
      BY <2>1, <2>2
  <1>8. TypeOK'
    BY <1>3, <1>5, <1>6, <1>7 DEF TypeOK
  <1>9. SharesSound'
    BY <1>3, SharesKept DEF Shape
  <1> QED
    BY <1>4, <1>7, <1>8, <1>9 DEF Shape

LEMMA LateShape ==
  ASSUME TypeOK, Shape, NEW n \in Names, LateCreate(n)
  PROVE  TypeOK' /\ Shape'
  <1>1. UNCHANGED <<entry, fetch, upload, room, here, watchers, offered, clicks, doubled, lost>>
    BY DEF LateCreate, sharing
  <1>2. TypeOK'
    BY <1>1 DEF LateCreate, TypeOK
  <1>3. SharesSound'
    BY <1>1, SharesKept DEF Shape
  <1>4. late' \subseteq lost'
    BY <1>1 DEF LateCreate, Shape
  <1>5. EntryServed' /\ \A k \in Tasks : TaskShape(k)'
    BY <1>1 DEF Shape, EntryServed, TaskShape
  <1> QED
    BY <1>2, <1>3, <1>4, <1>5 DEF Shape

LEMMA ConcludeShape ==
  ASSUME TypeOK, Shape, NEW k \in Tasks, FetchConcludes(k)
  PROVE  TypeOK' /\ Shape'
  <1>0. PICK i \in Offers : i = fetch[k].id /\ entry[i] # None /\ TaskShape(k)
    BY DEF FetchConcludes, Shape, TaskShape
  <1>a. fetch[k].pc = "ended" /\ entry[i] \in Entries /\ fetch[k] \in FetchStates
    BY <1>0 DEF FetchConcludes, TypeOK
  <1>1. PICK f : /\ Moves(k, f) /\ f.id = i /\ f.dest = Doomed(k)
                 /\ f.pc = IF Doomed(k) = 0 THEN "done" ELSE "deleting"
    BY <1>0, ConcludeEffect
  <1>2. ShapedState(f)
    <2>1. Doomed(k) # 0 => Doomed(k) \in Names
      BY <1>0, <1>a, EntryFields, ConstantsOK DEF Doomed, Names
    <2> QED
      BY <1>1, <2>1 DEF ShapedState
  <1>3. UNCHANGED <<upload, room, here, watchers, offered, clicks, doubled, disk, late, lost>>
    BY DEF FetchConcludes, sharing
  <1>4. /\ EntryServed' /\ \A m \in Tasks : TaskShape(m)'
        /\ entry' \in [Offers \cup Shares -> Entries \cup {None}]
        /\ \A s \in Shares : entry'[s] = entry[s]
    <2>1. CASE Terminal(i)
      <3>1. UNCHANGED entry
        BY <1>0, <2>1, ConcludeEffect
      <3> QED
        BY <1>0, <1>1, <1>2, <1>a, <3>1, ShapeQuietMove DEF TypeOK
    <2>2. CASE ~Terminal(i)
      <3>1. PICK e : /\ Enters(i, e) /\ e.dest = entry[i].dest /\ e.task = entry[i].task
                     /\ e.stage = "done" => fetch[k].ok /\ e.local = fetch[k].dest
        BY <1>0, <2>2, ConcludeEffect
      <3>2. /\ entry'[i] = e /\ e # None
            /\ \A j \in (Offers \cup Shares) \ {i} : entry'[j] = entry[j]
            /\ entry' \in [Offers \cup Shares -> Entries \cup {None}]
        BY <3>1, Entered
      <3>3. e.stage = "done" => e.local \in Names
        BY <1>0, <1>a, <3>1 DEF TaskShape
      <3>4. EntryServed' /\ \A m \in Tasks : TaskShape(m)'
        BY <1>0, <1>1, <1>2, <3>1, <3>2, <3>3, ShapeMove DEF Shape, EntryServed
      <3> QED
        BY <3>2, <3>4, ConstantsOK
    <2> QED
      BY <2>1, <2>2
  <1>5. fetch' \in [Tasks -> FetchStates]
    BY <1>1, Moved
  <1>6. TypeOK'
    BY <1>3, <1>4, <1>5 DEF TypeOK
  <1>7. SharesSound'
    BY <1>3, <1>4, SharesKept DEF Shape
  <1> QED
    BY <1>3, <1>4, <1>6, <1>7 DEF Shape

LEMMA CancelShape ==
  ASSUME TypeOK, Shape, NEW i \in Offers, NEW delete_files \in BOOLEAN, cancel(i, delete_files)
  PROVE  TypeOK' /\ Shape'
  <1>1. CASE Terminal(i)
    <2>1. /\ UNCHANGED <<entry, fetch, upload, late, clicks, room, here, watchers, offered, doubled>>
          /\ disk' = [disk EXCEPT ![entry[i].local] = "none"] /\ lost' = lost \cup {entry[i].local}
          /\ entry[i] # None /\ entry[i].stage = "done"
      BY <1>1 DEF cancel
    <2>2. entry[i].local \in Names
      BY <2>1 DEF Shape, EntryServed
    <2>3. TypeOK'
      BY <2>1, <2>2 DEF TypeOK
    <2>4. SharesSound'
      BY <2>1, SharesKept DEF Shape
    <2>5. EntryServed' /\ \A k \in Tasks : TaskShape(k)'
      BY <2>1 DEF Shape, EntryServed, TaskShape
    <2> QED
      BY <2>1, <2>3, <2>4, <2>5 DEF Shape
  <1>2. CASE ~Terminal(i)
    <2>1. PICK k \in Tasks : k = entry[i].task
      BY <1>2, CancelEffect DEF Shape
    <2>2. PICK f : /\ Moves(k, f) /\ f.pc = fetch[k].pc /\ f.id = fetch[k].id /\ f.ok = fetch[k].ok
                   /\ f.dest = fetch[k].dest
      BY <1>2, <2>1, CancelEffect DEF Shape
    <2>3. PICK e : /\ Enters(i, e) /\ e.stage = "failed" /\ e.task = entry[i].task
      BY <1>2, CancelEffect DEF Shape
    <2>4. /\ entry'[i] = e /\ e # None /\ \A j \in (Offers \cup Shares) \ {i} : entry'[j] = entry[j]
          /\ entry' \in [Offers \cup Shares -> Entries \cup {None}] /\ fetch' \in [Tasks -> FetchStates]
      BY <2>2, <2>3, Entered, Moved
    <2>5. entry[i] # None /\ fetch[k].pc # "none" /\ TaskShape(k)
      BY <2>1 DEF cancel, Shape, EntryServed
    <2>6. ShapedState(f)
      BY <2>2, <2>5 DEF ShapedState, TaskShape
    <2>7. entry'[f.id] # None
      BY <2>2, <2>4, <2>5 DEF TaskShape
    <2>8. EntryServed' /\ \A m \in Tasks : TaskShape(m)'
      BY <2>1, <2>2, <2>3, <2>4, <2>5, <2>6, <2>7, ShapeMove DEF Shape, EntryServed
    <2>9. UNCHANGED <<upload, disk, lost, late, clicks, room, here, watchers, offered, doubled>>
      BY <1>2 DEF cancel
    <2>10. TypeOK'
      BY <2>4, <2>9 DEF TypeOK
    <2>11. SharesSound'
      BY <2>4, <2>9, SharesKept, ConstantsOK DEF Shape
    <2> QED
      BY <2>8, <2>9, <2>10, <2>11 DEF Shape
  <1> QED
    BY <1>1, <1>2

-----------------------------------------------------------------------------
(* The steps of the uploads: they leave the downloads alone, and a share's *)
(* final stage too.                                                        *)

SharesOnly ==
    /\ UNCHANGED fetching
    /\ \A i \in Offers : entry'[i] = entry[i]
    /\ \A s \in Shares : Terminal(s) => entry'[s] = entry[s]
    /\ \A s \in Shares : (entry[s] # None \/ upload'[s].pc # upload[s].pc) => entry'[s] # None

(* A share gets an entry while it has none that is final. *)
LEMMA ShareEnters ==
  ASSUME TypeOK, NEW s \in Shares, NEW e, Enters(s, e), ~Terminal(s), UNCHANGED fetching,
         \A t \in Shares \ {s} : upload'[t].pc = upload[t].pc
  PROVE  SharesOnly /\ entry' \in [Offers \cup Shares -> Entries \cup {None}]
  <1>1. /\ entry' \in [Offers \cup Shares -> Entries \cup {None}] /\ entry'[s] # None
        /\ \A j \in (Offers \cup Shares) \ {s} : entry'[j] = entry[j]
    BY Entered
  <1>2. s \notin Offers
    BY ConstantsOK
  <1>3. ASSUME NEW t \in Shares, entry[t] # None \/ upload'[t].pc # upload[t].pc PROVE entry'[t] # None
    BY <1>1, <1>3
  <1> QED
    BY <1>1, <1>2, <1>3 DEF SharesOnly

LEMMA ShareType ==
  ASSUME TypeOK, NEW s \in Shares, (\E p \in Paths : share(p, s)) \/ ShareTooLarge(s)
  PROVE  TypeOK' /\ SharesOnly /\ UNCHANGED offered
  <1>1. CASE \E p \in Paths : share(p, s)
    <2>1. PICK p \in Paths : share(p, s)
      BY <1>1
    <2>2. PICK e : e = [stage |-> "active", dest |-> 0, local |-> 0, del |-> FALSE, room |-> room,
                        path |-> p, task |-> 0]
      OBVIOUS
    <2>3. e \in Entries
      BY <2>2, NameRange DEF Entries, TypeOK
    <2>4. Enters(s, e) /\ ~Terminal(s) /\ UNCHANGED fetching
      BY <2>1, <2>2, <2>3 DEF share, Enters, Terminal
    <2>5. upload' \in [Shares -> UploadStates] /\ \A t \in Shares \ {s} : upload'[t].pc = upload[t].pc
      BY <2>1 DEF share, TypeOK, UploadStates
    <2>6. watchers' \in [Shares -> Nat] /\ UNCHANGED <<fetching, room, here, offered>>
      BY <2>1 DEF share, TypeOK
    <2> QED
      BY <2>4, <2>5, <2>6, ShareEnters DEF TypeOK, fetching
  <1>2. CASE ShareTooLarge(s)
    <2>2. PICK e : e = [stage |-> "failed", dest |-> 0, local |-> 0, del |-> FALSE, room |-> None,
                        path |-> None, task |-> 0]
      OBVIOUS
    <2>3. e \in Entries
      BY <2>2, NameRange DEF Entries
    <2>4. Enters(s, e) /\ ~Terminal(s) /\ UNCHANGED fetching
      BY <1>2, <2>2, <2>3 DEF ShareTooLarge, Enters, Terminal
    <2>6. watchers' \in [Shares -> Nat] /\ UNCHANGED <<fetching, upload, room, here, offered>>
      BY <1>2 DEF ShareTooLarge, TypeOK
    <2> QED
      BY <2>4, <2>6, ShareEnters DEF TypeOK, fetching
  <1> QED
    BY <1>1, <1>2

LEMMA UploadType ==
  ASSUME TypeOK, SharesSound, NEW s \in Shares, run_upload(s) \/ ShareAgain(s)
  PROVE  TypeOK' /\ SharesOnly /\ UNCHANGED offered
  <1>1. ASSUME NEW ok \in BOOLEAN, UploadEnds(s, ok) PROVE TypeOK' /\ SharesOnly /\ UNCHANGED offered
    <2>1. /\ upload' \in [Shares -> UploadStates] /\ \A t \in Shares \ {s} : upload'[t].pc = upload[t].pc
          /\ upload[s].pc = "sending"
      BY <1>1 DEF UploadEnds, TypeOK, UploadStates
    <2>2. UNCHANGED <<entry, fetching, room, here, watchers, offered>>
      BY <1>1 DEF UploadEnds
    <2> QED
      BY <2>1, <2>2 DEF TypeOK, fetching, SharesOnly, SharesSound
  <1>2. CASE UploadConcludes(s)
    <2>1. /\ upload' \in [Shares -> UploadStates] /\ \A t \in Shares \ {s} : upload'[t].pc = upload[t].pc
          /\ upload[s].pc = "ended"
      BY <1>2 DEF UploadConcludes, TypeOK, UploadStates
    <2>2. UNCHANGED <<fetching, room, here, watchers, offered>> /\ entry[s] # None
      BY <1>2, <2>1 DEF UploadConcludes, SharesSound
    <2>3. CASE Terminal(s)
      <3>1. UNCHANGED entry
        BY <1>2, <2>3 DEF UploadConcludes
      <3> QED
        BY <2>1, <2>2, <3>1 DEF TypeOK, fetching, SharesOnly
    <2>4. CASE ~Terminal(s)
      <3>1. PICK e0 \in Entries : e0 = entry[s]
        BY <2>2 DEF TypeOK
      <3>2. PICK st \in {"done", "failed"} : st = IF upload[s].ok THEN "done" ELSE "failed"
        OBVIOUS
      <3>3. PICK e : e = [e0 EXCEPT !.stage = st]
        OBVIOUS
      <3>4. e \in Entries
        BY <3>3 DEF Entries
      <3>5. Enters(s, e)
        BY <1>2, <2>4, <3>1, <3>2, <3>3, <3>4 DEF UploadConcludes, Enters
      <3> QED
        BY <2>1, <2>2, <2>4, <3>5, ShareEnters DEF TypeOK, fetching
    <2> QED
      BY <2>3, <2>4
  <1>3. CASE ShareAgain(s)
    <2>1. watchers' \in [Shares -> Nat]
      BY <1>3 DEF ShareAgain, TypeOK
    <2>2. UNCHANGED <<entry, fetching, upload, room, here, offered>>
      BY <1>3 DEF ShareAgain
    <2> QED
      BY <2>1, <2>2 DEF TypeOK, fetching, SharesOnly
  <1> QED
    BY <1>1, <1>2, <1>3 DEF run_upload

LEMMA CancelShareType ==
  ASSUME TypeOK, NEW s \in Shares, NEW delete_files \in BOOLEAN, cancel(s, delete_files)
  PROVE  TypeOK' /\ SharesOnly /\ UNCHANGED offered
  <1>1. s \notin Offers
    BY ConstantsOK
  <1>2. ~Terminal(s) /\ UNCHANGED <<fetching, room, here, watchers, offered>>
    BY <1>1 DEF cancel, fetching
  <1>3. PICK e0 \in Entries : e0 = entry[s]
    BY DEF TypeOK, cancel
  <1>4. PICK e : e = [e0 EXCEPT !.stage = "failed", !.del = FALSE]
    OBVIOUS
  <1>5. e \in Entries
    BY <1>4 DEF Entries
  <1>6. Enters(s, e)
    <2>1. (delete_files /\ s \in Offers) = FALSE
      BY <1>1
    <2> QED
      BY <1>2, <1>3, <1>4, <1>5, <2>1 DEF cancel, Enters
  <1>7. upload' \in [Shares -> UploadStates] /\ \A t \in Shares : upload'[t].pc = upload[t].pc
    <2>1. upload' = [upload EXCEPT ![s].token = TRUE]
      BY <1>1, <1>2 DEF cancel
    <2> QED
      BY <2>1 DEF TypeOK, UploadStates
  <1> QED
    BY <1>2, <1>6, <1>7, ShareEnters DEF TypeOK, fetching

LEMMA RoomType ==
  ASSUME TypeOK, set_room_id \/ \E r \in Rooms : Move(r)
  PROVE  TypeOK' /\ SharesOnly /\ UNCHANGED offered
  <1>1. CASE \E r \in Rooms : Move(r)
    BY <1>1 DEF Move, TypeOK, fetching, SharesOnly
  <1>2. CASE set_room_id
    <2>1. PICK left : left = {s \in Shares : entry[s] # None /\ entry[s].stage = "active" /\ entry[s].room = room}
      OBVIOUS
    <2>2. /\ entry' = [i \in DOMAIN entry |-> IF i \in left THEN [entry[i] EXCEPT !.stage = "failed"]
                                              ELSE entry[i]]
          /\ upload' = [s \in Shares |-> IF s \in left THEN [upload[s] EXCEPT !.token = TRUE] ELSE upload[s]]
          /\ UNCHANGED <<fetching, here, watchers, offered>> /\ room' = here
      BY <1>2, <2>1 DEF set_room_id
    <2>3. upload' \in [Shares -> UploadStates] /\ \A s \in Shares : upload'[s].pc = upload[s].pc
      BY <2>2 DEF TypeOK, UploadStates
    <2>4. DOMAIN entry = Offers \cup Shares
      BY DEF TypeOK
    <2>5. ASSUME NEW i \in Offers \cup Shares PROVE entry'[i] \in Entries \cup {None}
      <3>1. CASE i \in left
        <4>1. PICK e0 \in Entries : e0 = entry[i]
          BY <2>1, <3>1 DEF TypeOK
        <4>2. [e0 EXCEPT !.stage = "failed"] \in Entries
          BY DEF Entries
        <4> QED
          BY <2>2, <2>4, <3>1, <4>1, <4>2
      <3>2. CASE i \notin left
        BY <2>2, <2>4, <3>2 DEF TypeOK
      <3> QED
        BY <3>1, <3>2
    <2>6. entry' \in [Offers \cup Shares -> Entries \cup {None}]
      BY <2>2, <2>4, <2>5
    <2>7. \A i \in Offers \cup Shares : i \notin left => entry'[i] = entry[i]
      BY <2>2, <2>4
    <2>8. (\A i \in Offers : i \notin left) /\ \A s \in Shares : Terminal(s) => s \notin left
      BY <2>1, ConstantsOK DEF Terminal
    <2>a. ASSUME NEW s \in Shares, entry[s] # None PROVE entry'[s] # None
      <3>1. CASE s \in left
        <4>1. PICK e0 \in Entries : e0 = entry[s]
          BY <2>a DEF TypeOK
        <4>2. [e0 EXCEPT !.stage = "failed"] \in Entries
          BY DEF Entries
        <4> QED
          BY <2>2, <2>4, <3>1, <4>1, <4>2, ConstantsOK
      <3> QED
        BY <2>7, <2>a, <3>1
    <2>9. SharesOnly
      BY <2>2, <2>3, <2>7, <2>8, <2>a DEF SharesOnly
    <2> QED
      BY <2>2, <2>3, <2>6, <2>9 DEF TypeOK, fetching
  <1> QED
    BY <1>1, <1>2

LEMMA WatchType ==
  ASSUME TypeOK, SharesSound, NEW s \in Shares, Watch(s)
  PROVE  TypeOK' /\ SharesOnly /\ SharesSound'
  <1>1. UNCHANGED <<entry, fetching, upload, room, here>>
    BY DEF Watch
  <1>2. watchers' \in [Shares -> Nat]
    <2>1. watchers[s] - 1 \in Nat
      BY DEF Watch, TypeOK
    <2> QED
      BY <2>1 DEF Watch, TypeOK
  <1>3. offered' = offered \/ (entry[s].stage = "done" /\ entry[s] # None /\ offered' = offered \cup {<<s, here>>})
    BY DEF Watch, Terminal
  <1>4. offered' \subseteq Shares \X Rooms
    BY <1>3 DEF TypeOK
  <1>5. TypeOK' /\ SharesOnly
    BY <1>1, <1>2, <1>4 DEF TypeOK, fetching, SharesOnly
  <1>6. ASSUME NEW o \in offered' PROVE entry[o[1]] # None /\ entry[o[1]].stage = "done"
    BY <1>3, <1>6 DEF SharesSound
  <1> QED
    BY <1>1, <1>5, <1>6 DEF SharesSound

LEMMA FinalOffers ==
  ASSUME TypeOK, SharesSound, SharesOnly, UNCHANGED offered
  PROVE  SharesSound'
  <1>0. \A s \in Shares : upload'[s].pc # "none" => entry'[s] # None
    BY DEF SharesSound, SharesOnly
  <1> SUFFICES ASSUME NEW o \in offered PROVE entry'[o[1]] # None /\ entry'[o[1]].stage = "done"
    BY <1>0 DEF SharesSound
  <1>1. o[1] \in Shares
    BY OfferedShares
  <1>2. entry[o[1]] # None /\ entry[o[1]].stage = "done" /\ Terminal(o[1])
    BY DEF SharesSound, Terminal
  <1> QED
    BY <1>1, <1>2 DEF SharesOnly

LEMMA SharingType ==
  ASSUME TypeOK, SharesSound, Sharing
  PROVE  TypeOK' /\ SharesOnly /\ SharesSound'
  <1>1. ASSUME NEW s \in Shares, Watch(s) PROVE TypeOK' /\ SharesOnly /\ SharesSound'
    BY <1>1, WatchType
  <1>2. CASE ~\E s \in Shares : Watch(s)
    <2>1. TypeOK' /\ SharesOnly /\ UNCHANGED offered
      BY <1>2, ShareType, UploadType, CancelShareType, RoomType DEF Sharing
    <2> QED
      BY <2>1, FinalOffers
  <1> QED
    BY <1>1, <1>2

LEMMA SharingInv ==
  ASSUME TypeOK, TransferInv, Sharing
  PROVE  TypeOK' /\ TransferInv'
  <1>1. Shape /\ (~doubled => Owns) /\ SharesSound
    BY InvParts DEF Shape
  <1>2. TypeOK' /\ SharesOnly /\ SharesSound'
    BY <1>1, SharingType
  <1>3. UNCHANGED <<fetch, disk, late, doubled, lost>> /\ \A i \in Offers : entry'[i] = entry[i]
    BY <1>2 DEF SharesOnly, fetching
  <1>4. EntryServed'
    BY <1>1, <1>3 DEF Shape, EntryServed
  <1>5. ASSUME NEW k \in Tasks PROVE TaskShape(k)'
    BY <1>1, <1>3, <1>5 DEF Shape, TaskShape
  <1>6. ASSUME ~doubled PROVE Owns'
    <2>1. ASSUME NEW k \in Tasks PROVE TaskOwns(k)'
      <3>1. TaskShape(k) /\ TaskOwns(k)
        BY <1>1, <1>6, <2>1 DEF Shape, Owns
      <3>2. Running(k) => entry'[fetch[k].id] = entry[fetch[k].id]
        BY <1>3, <3>1 DEF TaskShape, Running
      <3> QED
        BY <1>3, <3>1, <3>2 DEF TaskOwns, Running
    <2>2. ASSUME NEW i \in Offers PROVE DoneOwns(i)'
      BY <1>1, <1>3, <1>6, <2>2 DEF Owns, DoneOwns, Running
    <2>3. ASSUME NEW n \in Names PROVE PartialOwned(n)'
      BY <1>1, <1>3, <1>6, <2>3 DEF Owns, PartialOwned
    <2> QED
      BY <2>1, <2>2, <2>3 DEF Owns
  <1>7. Shape'
    BY <1>1, <1>2, <1>3, <1>4, <1>5 DEF Shape
  <1>8. ~doubled' => Owns'
    BY <1>3, <1>6
  <1> QED
    BY <1>2, <1>7, <1>8 DEF TransferInv, Shape, Owns

-----------------------------------------------------------------------------
(* Who owns which file, while no offer was fetched twice at once. *)

Working(f) == f.pc \notin {"none", "done"}

(* The disk changes at most at d, or where the history admits it. *)
DiskAt(d) == \A x \in Names : disk'[x] # disk[x] => x = d \/ x \in lost'

(* The name of a running task is nobody else's, running or finished. *)
LEMMA Mine ==
  ASSUME TypeOK, Shape, Owns, NEW k \in Tasks, Running(k), fetch[k].dest \in Names \ lost
  PROVE  /\ \A m \in Tasks \ {k} : Running(m) => fetch[m].dest # fetch[k].dest
         /\ \A i \in Offers : entry[i] # None /\ entry[i].stage = "done" => entry[i].local # fetch[k].dest
  BY DEF Owns, TaskOwns, DoneOwns

(* While task k moves to f, the other tasks keep what they own. *)
LEMMA OthersOwn ==
  ASSUME TypeOK, Shape, Owns, NEW k \in Tasks, NEW f, Moves(k, f), NEW d, DiskAt(d),
         lost \subseteq lost',
         \A m \in Tasks \ {k} : Running(m) =>
             /\ entry'[fetch[m].id].task = entry[fetch[m].id].task
             /\ entry'[fetch[m].id].dest = entry[fetch[m].id].dest
             /\ d \in Names \ lost' => fetch[m].dest # d
             /\ Working(f) /\ f.dest \in Names \ lost' => fetch[m].dest # f.dest
  PROVE  \A m \in Tasks \ {k} : TaskOwns(m)'
  <1> SUFFICES ASSUME NEW m \in Tasks \ {k}, Running(m)' PROVE
         /\ entry'[fetch'[m].id].task = m /\ entry'[fetch'[m].id].dest = fetch'[m].dest
         /\ fetch'[m].dest \in Names \ lost' =>
               /\ \A j \in Tasks \ {m} : Running(j)' => fetch'[j].dest # fetch'[m].dest
               /\ fetch'[m].pc = "writing" => disk'[fetch'[m].dest] = "partial"
               /\ fetch'[m].pc = "ended" /\ fetch'[m].ok => disk'[fetch'[m].dest] = "whole"
    BY DEF TaskOwns
  <1>1. fetch'[k] = f /\ \A j \in Tasks \ {k} : fetch'[j] = fetch[j]
    BY Moved
  <1>2. Running(m) /\ TaskOwns(m)
    BY <1>1 DEF Running, Owns
  <1>3. entry'[fetch'[m].id].task = m /\ entry'[fetch'[m].id].dest = fetch'[m].dest
    BY <1>1, <1>2 DEF TaskOwns
  <1>4. ASSUME fetch[m].dest \in Names \ lost', NEW j \in Tasks \ {m}, Running(j)'
        PROVE  fetch'[j].dest # fetch[m].dest
    <2>1. CASE j = k
      BY <1>1, <1>2, <1>4, <2>1 DEF Running, Working
    <2>2. CASE j # k
      BY <1>1, <1>2, <1>4, <2>2 DEF Running, TaskOwns
    <2> QED
      BY <2>1, <2>2
  <1>5. ASSUME fetch[m].dest \in Names \ lost' PROVE disk'[fetch[m].dest] = disk[fetch[m].dest]
    BY <1>2, <1>5 DEF DiskAt
  <1>6. fetch[m].dest \in Names \ lost' =>
           /\ fetch[m].pc = "writing" => disk[fetch[m].dest] = "partial"
           /\ fetch[m].pc = "ended" /\ fetch[m].ok => disk[fetch[m].dest] = "whole"
    BY <1>2 DEF TaskOwns
  <1> QED
    BY <1>1, <1>3, <1>4, <1>5, <1>6

(* A finished download keeps its file while the disk changes elsewhere and *)
(* no task takes up its name.                                              *)
LEMMA DoneKeeps ==
  ASSUME TypeOK, Shape, Owns, NEW k \in Tasks, NEW f, Moves(k, f), NEW d, DiskAt(d),
         lost \subseteq lost', NEW i \in Offers, entry[i] # None, entry[i].stage = "done",
         entry'[i].local = entry[i].local,
         d \in Names \ lost' => entry[i].local # d,
         Working(f) /\ f.dest \in Names \ lost' => entry[i].local # f.dest
  PROVE  DoneOwns(i)'
  <1> SUFFICES ASSUME entry[i].local \notin lost'
               PROVE  /\ disk'[entry[i].local] = "whole"
                      /\ \A j \in Tasks : Running(j)' => fetch'[j].dest # entry[i].local
    BY DEF DoneOwns
  <1>1. fetch'[k] = f /\ \A j \in Tasks \ {k} : fetch'[j] = fetch[j]
    BY Moved
  <1>2. entry[i].local \in Names \ lost'
    BY DEF Shape, EntryServed
  <1>3. /\ disk[entry[i].local] = "whole"
        /\ \A j \in Tasks : Running(j) => fetch[j].dest # entry[i].local
    BY <1>2 DEF Owns, DoneOwns
  <1>4. disk'[entry[i].local] = "whole"
    BY <1>2, <1>3 DEF DiskAt
  <1>5. ASSUME NEW j \in Tasks, Running(j)' PROVE fetch'[j].dest # entry[i].local
    BY <1>1, <1>2, <1>3, <1>5 DEF Running, Working
  <1> QED
    BY <1>4, <1>5

(* A task at work on a file that is not whole. *)
Spoils(f) == f.pc \in {"writing", "deleting"} \/ (f.pc = "ended" /\ ~f.ok)

LEMMA PartialKeeps ==
  ASSUME TypeOK, Owns, NEW k \in Tasks, NEW f, Moves(k, f), NEW d, DiskAt(d), lost \subseteq lost',
         \A x \in Names \ lost' : fetch[k].dest = x /\ Spoils(fetch[k]) /\ disk'[x] = "partial" =>
             f.dest = x /\ Spoils(f),
         d \in Names \ lost' /\ disk'[d] = "partial" => f.dest = d /\ Spoils(f)
  PROVE  \A n \in Names : PartialOwned(n)'
  <1> SUFFICES ASSUME NEW n \in Names, disk'[n] = "partial", n \notin lost'
               PROVE  \E j \in Tasks : fetch'[j].dest = n /\ Spoils(fetch'[j])
    BY DEF PartialOwned, Spoils
  <1>1. fetch'[k] = f /\ \A j \in Tasks \ {k} : fetch'[j] = fetch[j]
    BY Moved
  <1>2. CASE n = d
    BY <1>1, <1>2
  <1>3. CASE n # d
    <2>1. disk[n] = "partial" /\ n \notin lost
      BY <1>3 DEF DiskAt
    <2>2. PICK j \in Tasks : fetch[j].dest = n /\ Spoils(fetch[j])
      BY <2>1 DEF Owns, PartialOwned, Spoils
    <2>3. CASE j = k
      BY <1>1, <2>2, <2>3
    <2>4. CASE j # k
      BY <1>1, <2>2, <2>4
    <2> QED
      BY <2>3, <2>4
  <1> QED
    BY <1>2, <1>3

(* Two running tasks do not serve one offer. *)
LEMMA OneTaskPerOffer ==
  ASSUME Owns, NEW k \in Tasks, NEW m \in Tasks \ {k}, Running(k), Running(m)
  PROVE  fetch[k].id # fetch[m].id
  BY DEF Owns, TaskOwns

LEMMA DownloadOwns ==
  ASSUME TypeOK, Shape, Owns, NEW i \in Offers, NEW k \in Tasks, download(i, k), ~doubled'
  PROVE  Owns'
  <1>1. PICK f : Moves(k, f) /\ f.pc = "asking" /\ f.id = i /\ ~f.ok /\ f.dest = 0
    BY DownloadEffect
  <1>2. PICK e : Enters(i, e) /\ e.stage = "active" /\ e.dest = 0 /\ e.task = k
    BY DownloadEffect
  <1>3. /\ entry'[i] = e /\ \A j \in (Offers \cup Shares) \ {i} : entry'[j] = entry[j]
        /\ fetch'[k] = f
    BY <1>1, <1>2, Entered, Moved
  <1>4. /\ UNCHANGED <<disk, lost>> /\ fetch[k].pc = "none"
        /\ \A m \in Tasks : Running(m) => fetch[m].id # i
    BY DEF download
  <1>5. 0 \notin Names /\ DiskAt(0)
    BY <1>4, NameRange DEF DiskAt
  <1>6. ASSUME NEW m \in Tasks, Running(m) PROVE entry'[fetch[m].id] = entry[fetch[m].id]
    BY <1>3, <1>4, <1>6 DEF Shape, TaskShape, Running
  <1>7. \A m \in Tasks \ {k} : TaskOwns(m)'
    BY <1>1, <1>4, <1>5, <1>6, OthersOwn
  <1>8. TaskOwns(k)'
    BY <1>1, <1>2, <1>3, <1>5 DEF TaskOwns
  <1>9. ASSUME NEW j \in Offers PROVE DoneOwns(j)'
    <2>1. CASE j = i
      BY <1>2, <1>3, <2>1 DEF DoneOwns
    <2>2. CASE j # i
      <3>1. entry'[j] = entry[j]
        BY <1>3, <2>2
      <3>2. CASE entry[j] # None /\ entry[j].stage = "done"
        BY <1>1, <1>4, <1>5, <3>1, <3>2, DoneKeeps
      <3> QED
        BY <3>1, <3>2 DEF DoneOwns
    <2> QED
      BY <2>1, <2>2
  <1>10. \A n \in Names : PartialOwned(n)'
    BY <1>1, <1>4, <1>5, PartialKeeps DEF Spoils
  <1> QED
    BY <1>7, <1>8, <1>9, <1>10 DEF Owns

LEMMA NameOwns ==
  ASSUME TypeOK, Shape, Owns, NEW k \in Tasks, NEW n \in Names, NameDest(k, n)
  PROVE  Owns'
  <1>0. PICK i \in Offers : i = fetch[k].id /\ entry[i] # None /\ TaskShape(k) /\ Running(k)
    BY DEF NameDest, Shape, TaskShape, Running
  <1>1. PICK f : Moves(k, f) /\ f.pc = "named" /\ f.id = i /\ f.dest = n
    BY <1>0, NameEffect
  <1>2. PICK e : /\ Enters(i, e) /\ e.stage = entry[i].stage /\ e.dest = n
                 /\ e.local = entry[i].local /\ e.task = entry[i].task
    BY <1>0, NameEffect
  <1>3. /\ entry'[i] = e /\ \A j \in (Offers \cup Shares) \ {i} : entry'[j] = entry[j]
        /\ fetch'[k] = f /\ \A m \in Tasks \ {k} : fetch'[m] = fetch[m]
    BY <1>1, <1>2, Entered, Moved
  <1>4. /\ UNCHANGED disk /\ lost \subseteq lost' /\ disk[n] = "none" /\ fetch[k].pc = "asking"
        /\ n \notin lost' => \A m \in Tasks : Running(m) => fetch[m].dest # n
    BY DEF NameDest
  <1>5. 0 \notin Names /\ DiskAt(0)
    BY <1>4, NameRange DEF DiskAt
  <1>6. ASSUME NEW m \in Tasks \ {k}, Running(m) PROVE entry'[fetch[m].id] = entry[fetch[m].id]
    <2>1. fetch[m].id # i /\ fetch[m].id \in Offers
      BY <1>0, <1>6, OneTaskPerOffer DEF Shape, TaskShape, Running
    <2> QED
      BY <1>3, <2>1
  <1>7. \A m \in Tasks \ {k} : TaskOwns(m)'
    BY <1>1, <1>4, <1>5, <1>6, OthersOwn
  <1>8. TaskOwns(k)'
    <2>1. e.task = k
      BY <1>0, <1>2 DEF Owns, TaskOwns
    <2>2. n \notin lost' => \A m \in Tasks \ {k} : Running(m)' => fetch'[m].dest # n
      BY <1>3, <1>4 DEF Running
    <2> QED
      BY <1>1, <1>2, <1>3, <2>1, <2>2 DEF TaskOwns
  <1>9. ASSUME NEW j \in Offers PROVE DoneOwns(j)'
    <2>1. /\ entry[j] # None => entry'[j].stage = entry[j].stage /\ entry'[j].local = entry[j].local
          /\ entry'[j] # None => entry[j] # None
      BY <1>0, <1>2, <1>3
    <2>2. CASE entry[j] # None /\ entry[j].stage = "done"
      <3>1. n \in Names \ lost' => entry[j].local # n
        BY <1>4, <2>2 DEF Owns, DoneOwns
      <3> QED
        BY <1>1, <1>4, <1>5, <2>1, <2>2, <3>1, DoneKeeps
    <2> QED
      BY <2>1, <2>2 DEF DoneOwns
  <1>10. \A x \in Names : PartialOwned(x)'
    BY <1>1, <1>4, <1>5, PartialKeeps DEF Spoils
  <1> QED
    BY <1>7, <1>8, <1>9, <1>10 DEF Owns

(* A step of a running task on its own file only. *)
LEMMA FileOwns ==
  ASSUME TypeOK, Shape, Owns, NEW k \in Tasks, Running(k), NEW f, Moves(k, f),
         f.id = fetch[k].id, f.dest = fetch[k].dest, UNCHANGED entry,
         lost \subseteq lost', DiskAt(fetch[k].dest),
         fetch[k].dest \in Names \ lost' =>
             /\ f.pc = "writing" => disk'[fetch[k].dest] = "partial"
             /\ f.pc = "ended" /\ f.ok => disk'[fetch[k].dest] = "whole"
             /\ disk'[fetch[k].dest] = "partial" => Spoils(f)
  PROVE  Owns'
  <1> DEFINE d == fetch[k].dest
  <1>1. fetch'[k] = f /\ \A m \in Tasks \ {k} : fetch'[m] = fetch[m]
    BY Moved
  <1>2. d \in Names \ lost' =>
           /\ \A m \in Tasks \ {k} : Running(m) => fetch[m].dest # d
           /\ \A i \in Offers : entry[i] # None /\ entry[i].stage = "done" => entry[i].local # d
    BY Mine
  <1>3. \A m \in Tasks \ {k} : TaskOwns(m)'
    BY <1>2, OthersOwn
  <1>4. TaskOwns(k)'
    <2>1. entry[fetch[k].id].task = k /\ entry[fetch[k].id].dest = d
      BY DEF Owns, TaskOwns
    <2>2. d \in Names \ lost' => \A m \in Tasks \ {k} : Running(m)' => fetch'[m].dest # d
      BY <1>1, <1>2 DEF Running
    <2> QED
      BY <1>1, <2>1, <2>2 DEF TaskOwns
  <1>5. ASSUME NEW i \in Offers PROVE DoneOwns(i)'
    <2>1. CASE entry[i] # None /\ entry[i].stage = "done"
      BY <1>2, <2>1, DoneKeeps
    <2>2. CASE ~(entry[i] # None /\ entry[i].stage = "done")
      BY <2>2 DEF DoneOwns
    <2> QED
      BY <2>1, <2>2
  <1>6. \A n \in Names : PartialOwned(n)'
    BY PartialKeeps
  <1> QED
    BY <1>3, <1>4, <1>5, <1>6 DEF Owns

LEMMA CreateOwns ==
  ASSUME TypeOK, Shape, Owns, NEW k \in Tasks, CreateFile(k)
  PROVE  Owns'
  <1>1. TaskShape(k) /\ Running(k) /\ fetch[k].dest \in Names
    BY DEF CreateFile, Shape, Running, TaskShape
  <1>2. PICK f : Moves(k, f) /\ f.pc = "writing" /\ f.id = fetch[k].id /\ f.dest = fetch[k].dest
    BY <1>1, CreateEffect
  <1>3. /\ UNCHANGED <<entry, lost>> /\ disk'[fetch[k].dest] = "partial"
        /\ \A x \in Names \ {fetch[k].dest} : disk'[x] = disk[x]
    BY <1>1 DEF CreateFile, TypeOK
  <1>4. DiskAt(fetch[k].dest)
    BY <1>3 DEF DiskAt
  <1> QED
    BY <1>1, <1>2, <1>3, <1>4, FileOwns DEF Spoils

LEMMA OkOwns ==
  ASSUME TypeOK, Shape, Owns, NEW k \in Tasks, FetchOk(k)
  PROVE  Owns'
  <1>1. TaskShape(k) /\ Running(k) /\ fetch[k].dest \in Names /\ fetch[k].pc = "writing"
    BY DEF FetchOk, Shape, Running, TaskShape
  <1>2. PICK f : Moves(k, f) /\ f.pc = "ended" /\ f.id = fetch[k].id /\ f.dest = fetch[k].dest
    BY <1>1, OkEffect
  <1>3. /\ UNCHANGED <<entry, lost>>
        /\ disk'[fetch[k].dest] = IF disk[fetch[k].dest] = "none" THEN "none" ELSE "whole"
        /\ \A x \in Names \ {fetch[k].dest} : disk'[x] = disk[x]
    BY <1>1 DEF FetchOk, TypeOK
  <1>4. DiskAt(fetch[k].dest)
    BY <1>3 DEF DiskAt
  <1>5. fetch[k].dest \notin lost => disk[fetch[k].dest] = "partial"
    BY <1>1 DEF Owns, TaskOwns
  <1>6. fetch[k].dest \notin lost => disk'[fetch[k].dest] = "whole"
    BY <1>3, <1>5
  <1> QED
    BY <1>1, <1>2, <1>3, <1>4, <1>6, FileOwns

LEMMA FailOwns ==
  ASSUME TypeOK, Shape, Owns, NEW k \in Tasks, FetchFails(k) \/ CreateCutOff(k)
  PROVE  Owns'
  <1>1. TaskShape(k) /\ Running(k)
    BY DEF FetchFails, CreateCutOff, Shape, Running
  <1>2. PICK f : Moves(k, f) /\ f.pc = "ended" /\ ~f.ok /\ f.id = fetch[k].id /\ f.dest = fetch[k].dest
    BY <1>1, FailEffect
  <1>3. UNCHANGED <<entry, disk>> /\ lost \subseteq lost'
    BY DEF FetchFails, CreateCutOff
  <1>4. DiskAt(fetch[k].dest)
    BY <1>3 DEF DiskAt
  <1> QED
    BY <1>1, <1>2, <1>3, <1>4, FileOwns DEF Spoils

LEMMA DeleteOwns ==
  ASSUME TypeOK, Shape, Owns, NEW k \in Tasks, DeleteFile(k)
  PROVE  Owns'
  <1>1. TaskShape(k) /\ Running(k) /\ fetch[k].dest \in Names
    BY DEF DeleteFile, Shape, Running, TaskShape
  <1>2. PICK f : Moves(k, f) /\ f.pc = "done" /\ f.id = fetch[k].id /\ f.dest = fetch[k].dest
    BY <1>1, DeleteEffect
  <1>3. /\ UNCHANGED <<entry, lost>> /\ disk'[fetch[k].dest] = "none"
        /\ \A x \in Names \ {fetch[k].dest} : disk'[x] = disk[x]
    BY <1>1 DEF DeleteFile, TypeOK
  <1>4. DiskAt(fetch[k].dest)
    BY <1>3 DEF DiskAt
  <1> QED
    BY <1>1, <1>2, <1>3, <1>4, FileOwns

LEMMA LateOwns ==
  ASSUME TypeOK, Shape, Owns, NEW n \in Names, LateCreate(n)
  PROVE  Owns'
  <1>1. UNCHANGED <<entry, fetch, lost>> /\ n \in lost /\ \A x \in Names \ {n} : disk'[x] = disk[x]
    BY DEF LateCreate, sharing, Shape, TypeOK
  <1>2. ASSUME NEW k \in Tasks PROVE TaskOwns(k)'
    BY <1>1, <1>2 DEF Owns, TaskOwns, Running
  <1>3. ASSUME NEW i \in Offers PROVE DoneOwns(i)'
    BY <1>1, <1>3 DEF Owns, DoneOwns, Running, Shape, EntryServed
  <1>4. ASSUME NEW x \in Names PROVE PartialOwned(x)'
    BY <1>1, <1>4 DEF Owns, PartialOwned
  <1> QED
    BY <1>2, <1>3, <1>4 DEF Owns

LEMMA ConcludeOwns ==
  ASSUME TypeOK, Shape, Owns, NEW k \in Tasks, FetchConcludes(k)
  PROVE  Owns'
  <1> DEFINE d == fetch[k].dest
  <1>0. PICK i \in Offers : /\ i = fetch[k].id /\ entry[i] # None /\ TaskShape(k) /\ Running(k)
                            /\ fetch[k].pc = "ended"
    BY DEF FetchConcludes, Shape, TaskShape, Running
  <1>1. entry[i].task = k /\ entry[i].dest = d /\ d \in 0..MaxTasks
    BY <1>0, FetchFields DEF Owns, TaskOwns, TypeOK
  <1>2. PICK f : /\ Moves(k, f) /\ f.id = i /\ f.dest = Doomed(k)
                 /\ f.pc = IF Doomed(k) = 0 THEN "done" ELSE "deleting"
    BY <1>0, ConcludeEffect
  <1>3. /\ Doomed(k) \in {0, d} /\ (~fetch[k].ok => Doomed(k) = d)
        /\ Working(f) => f.dest = d /\ d # 0 /\ Spoils(f)
    BY <1>0, <1>1, <1>2 DEF Doomed, Working, Spoils
  <1>4. UNCHANGED <<disk, lost>>
    BY DEF FetchConcludes
  <1>5. /\ fetch'[k] = f /\ \A m \in Tasks \ {k} : fetch'[m] = fetch[m]
        /\ 0 \notin Names /\ DiskAt(0)
    BY <1>2, <1>4, Moved, NameRange DEF DiskAt
  <1>6. d \in Names \ lost =>
           /\ \A m \in Tasks \ {k} : Running(m) => fetch[m].dest # d
           /\ \A j \in Offers : entry[j] # None /\ entry[j].stage = "done" => entry[j].local # d
    BY <1>0, Mine
  <1>7. /\ \A j \in (Offers \cup Shares) \ {i} : entry'[j] = entry[j]
        /\ entry'[i] # None /\ entry'[i].task = k /\ entry'[i].dest = d
        /\ entry'[i].stage = "done" => \/ entry'[i] = entry[i]
                                       \/ fetch[k].ok /\ Doomed(k) = 0 /\ entry'[i].local = d
    <2>1. CASE Terminal(i)
      BY <1>0, <1>1, <2>1, ConcludeEffect
    <2>2. CASE ~Terminal(i)
      <3>1. PICK e : /\ Enters(i, e) /\ e.dest = entry[i].dest /\ e.task = entry[i].task
                     /\ e.stage = "done" => fetch[k].ok /\ Doomed(k) = 0 /\ e.local = d
        BY <1>0, <2>2, ConcludeEffect
      <3> QED
        BY <1>1, <3>1, Entered
    <2> QED
      BY <2>1, <2>2
  <1>8. \A m \in Tasks \ {k} : TaskOwns(m)'
    <2>1. ASSUME NEW m \in Tasks \ {k}, Running(m) PROVE entry'[fetch[m].id] = entry[fetch[m].id]
      <3>1. fetch[m].id # i /\ fetch[m].id \in Offers
        BY <1>0, <2>1, OneTaskPerOffer DEF Shape, TaskShape, Running
      <3> QED
        BY <1>7, <3>1
    <2> QED
      BY <1>2, <1>3, <1>4, <1>5, <1>6, <2>1, OthersOwn
  <1>9. TaskOwns(k)'
    <2>1. ASSUME Running(k)' PROVE f.dest = d /\ f.pc = "deleting"
      BY <1>2, <1>3, <1>5, <2>1 DEF Running, Working
    <2>2. d \in Names \ lost' => \A m \in Tasks \ {k} : Running(m)' => fetch'[m].dest # d
      BY <1>4, <1>5, <1>6 DEF Running
    <2> QED
      BY <1>2, <1>5, <1>7, <2>1, <2>2 DEF TaskOwns
  <1>10. ASSUME NEW j \in Offers PROVE DoneOwns(j)'
    <2>1. CASE entry'[j] = entry[j]
      <3>1. CASE entry[j] # None /\ entry[j].stage = "done"
        BY <1>2, <1>3, <1>4, <1>5, <1>6, <2>1, <3>1, DoneKeeps
      <3> QED
        BY <2>1, <3>1 DEF DoneOwns
    <2>2. CASE entry'[j] # entry[j] /\ entry'[j].stage = "done"
      <3>1. j = i /\ fetch[k].ok /\ Doomed(k) = 0 /\ entry'[j].local = d
        BY <1>7, <2>2
      <3>2. d \in Names
        BY <1>0, <3>1 DEF TaskShape
      <3>3. d \notin lost => disk[d] = "whole"
        BY <1>0, <3>1, <3>2 DEF Owns, TaskOwns
      <3>4. d \notin lost => \A m \in Tasks : Running(m)' => fetch'[m].dest # d
        BY <1>2, <1>5, <1>6, <3>1, <3>2 DEF Running
      <3> QED
        BY <1>4, <3>1, <3>3, <3>4 DEF DoneOwns
    <2> QED
      BY <2>1, <2>2 DEF DoneOwns
  <1>11. \A n \in Names : PartialOwned(n)'
    <2>1. ASSUME NEW x \in Names \ lost', d = x, Spoils(fetch[k]) PROVE f.dest = x /\ Spoils(f)
      <3>1. ~fetch[k].ok /\ x \in Names /\ x # 0
        BY <1>0, <1>5, <2>1 DEF Spoils
      <3>2. Doomed(k) = x
        BY <1>3, <2>1, <3>1
      <3>3. f.dest = x /\ f.pc = "deleting"
        BY <1>2, <3>1, <3>2
      <3> QED
        BY <3>3 DEF Spoils
    <2> QED
      BY <1>2, <1>4, <1>5, <2>1, PartialKeeps
  <1> QED
    BY <1>8, <1>9, <1>10, <1>11 DEF Owns

LEMMA CancelOwns ==
  ASSUME TypeOK, Shape, Owns, NEW i \in Offers, NEW delete_files \in BOOLEAN, cancel(i, delete_files)
  PROVE  Owns'
  <1>1. CASE Terminal(i)
    <2>1. /\ UNCHANGED <<entry, fetch>> /\ lost' = lost \cup {entry[i].local}
          /\ \A x \in Names \ {entry[i].local} : disk'[x] = disk[x]
      BY <1>1 DEF cancel, TypeOK
    <2>2. ASSUME NEW k \in Tasks PROVE TaskOwns(k)'
      BY <2>1, <2>2 DEF Owns, TaskOwns, Running
    <2>3. ASSUME NEW j \in Offers PROVE DoneOwns(j)'
      BY <2>1, <2>3 DEF Owns, DoneOwns, Running, Shape, EntryServed
    <2>4. ASSUME NEW x \in Names PROVE PartialOwned(x)'
      BY <2>1, <2>4 DEF Owns, PartialOwned
    <2> QED
      BY <2>2, <2>3, <2>4 DEF Owns
  <1>2. CASE ~Terminal(i)
    <2>1. PICK k \in Tasks : k = entry[i].task
      BY <1>2, CancelEffect DEF Shape
    <2>2. PICK f : /\ Moves(k, f) /\ f.pc = fetch[k].pc /\ f.id = fetch[k].id /\ f.ok = fetch[k].ok
                   /\ f.dest = fetch[k].dest
      BY <1>2, <2>1, CancelEffect DEF Shape
    <2>3. PICK e : /\ Enters(i, e) /\ e.stage = "failed" /\ e.task = entry[i].task /\ e.dest = entry[i].dest
      BY <1>2, CancelEffect DEF Shape
    <2>4. /\ entry'[i] = e /\ \A j \in (Offers \cup Shares) \ {i} : entry'[j] = entry[j]
          /\ fetch'[k] = f /\ \A m \in Tasks \ {k} : fetch'[m] = fetch[m]
      BY <2>2, <2>3, Entered, Moved
    <2>5. UNCHANGED <<disk, lost>>
      BY <1>2, CancelEffect DEF Shape
    <2>6. ASSUME NEW m \in Tasks
          PROVE  /\ fetch'[m].pc = fetch[m].pc /\ fetch'[m].id = fetch[m].id
                 /\ fetch'[m].ok = fetch[m].ok /\ fetch'[m].dest = fetch[m].dest
      BY <2>2, <2>4
    <2>7. \A m \in Tasks : Running(m)' <=> Running(m)
      BY <2>6 DEF Running
    <2>8. ASSUME NEW m \in Tasks PROVE TaskOwns(m)'
      <3>1. ASSUME Running(m)
            PROVE  /\ entry'[fetch[m].id].task = entry[fetch[m].id].task
                   /\ entry'[fetch[m].id].dest = entry[fetch[m].id].dest
        BY <2>3, <2>4, <3>1 DEF Shape, TaskShape, Running
      <3>2. TaskOwns(m)
        BY DEF Owns
      <3> QED
        BY <2>5, <2>6, <2>7, <3>1, <3>2 DEF TaskOwns
    <2>9. ASSUME NEW j \in Offers PROVE DoneOwns(j)'
      <3>1. CASE j = i
        BY <2>3, <2>4, <3>1 DEF DoneOwns
      <3>2. CASE j # i
        BY <2>4, <2>5, <2>6, <2>7, <3>2 DEF Owns, DoneOwns
      <3> QED
        BY <3>1, <3>2
    <2>10. ASSUME NEW x \in Names PROVE PartialOwned(x)'
      BY <2>5, <2>6 DEF Owns, PartialOwned
    <2> QED
      BY <2>8, <2>9, <2>10 DEF Owns
  <1> QED
    BY <1>1, <1>2

LEMMA DownloadingInv ==
  ASSUME TypeOK, TransferInv, Downloading
  PROVE  TypeOK' /\ TransferInv'
  <1>1. Shape /\ (~doubled => Owns)
    BY InvParts
  <1>2. ASSUME NEW i \in Offers, Click(i) PROVE TypeOK' /\ Shape' /\ (~doubled' => Owns')
    <2>1. UNCHANGED <<entry, upload, room, here, watchers, offered, fetch, disk, late, doubled, lost>>
      BY <1>2 DEF Click, sharing
    <2>2. clicks' \in [Offers -> Nat]
      BY <1>2 DEF Click, TypeOK
    <2>3. TypeOK'
      BY <2>1, <2>2 DEF TypeOK
    <2>4. Shape'
      BY <1>1, <2>1 DEF Shape, EntryServed, SharesSound, TaskShape
    <2>5. ~doubled' => Owns'
      BY <1>1, <2>1 DEF Owns, TaskOwns, DoneOwns, PartialOwned, Running
    <2> QED
      BY <2>3, <2>4, <2>5
  <1>3. ASSUME NEW i \in Offers, NEW k \in Tasks, download(i, k)
        PROVE  TypeOK' /\ Shape' /\ (~doubled' => Owns')
    <2>1. ~doubled' => ~doubled
      BY <1>3 DEF download
    <2> QED
      BY <1>1, <1>3, <2>1, DownloadShape, DownloadOwns
  <1>4. ASSUME NEW k \in Tasks, run_fetch(k) PROVE TypeOK' /\ Shape' /\ (~doubled' => Owns')
    <2>1. UNCHANGED doubled
      BY <1>4 DEF run_fetch, NameDest, CreateFile, FetchOk, FetchFails, CreateCutOff, FetchConcludes,
         DeleteFile
    <2> QED
      BY <1>1, <1>4, <2>1, NameShape, FileShape, ConcludeShape, NameOwns, CreateOwns, OkOwns, FailOwns,
         DeleteOwns, ConcludeOwns DEF run_fetch
  <1>5. ASSUME NEW n \in Names, LateCreate(n) PROVE TypeOK' /\ Shape' /\ (~doubled' => Owns')
    <2>1. UNCHANGED doubled
      BY <1>5 DEF LateCreate
    <2> QED
      BY <1>1, <1>5, <2>1, LateShape, LateOwns
  <1>6. ASSUME NEW i \in Offers, NEW delete_files \in BOOLEAN, cancel(i, delete_files)
        PROVE  TypeOK' /\ Shape' /\ (~doubled' => Owns')
    <2>1. UNCHANGED doubled
      BY <1>6 DEF cancel
    <2> QED
      BY <1>1, <1>6, <2>1, CancelShape, CancelOwns
  <1>7. TypeOK' /\ Shape' /\ (~doubled' => Owns')
    BY <1>2, <1>3, <1>4, <1>5, <1>6 DEF Downloading
  <1> QED
    BY <1>7 DEF TransferInv, Shape, Owns

LEMMA TransferInit == Init => TypeOK /\ TransferInv
  <1> SUFFICES ASSUME Init PROVE TypeOK /\ TransferInv
    OBVIOUS
  <1>1. TypeOK
    <2>1. [pc |-> "none", token |-> FALSE, ok |-> FALSE] \in UploadStates
      BY DEF UploadStates
    <2> QED
      BY <2>1, NoTaskFields DEF Init, TypeOK
  <1>2. \A k \in Tasks : fetch[k] = NoTask
    BY DEF Init
  <1>3. Shape
    BY <1>2, NoTaskFields DEF Init, Shape, EntryServed, SharesSound, TaskShape
  <1>4. Owns
    BY <1>2, NoTaskFields DEF Init, Owns, TaskOwns, DoneOwns, PartialOwned, Running
  <1> QED
    BY <1>1, <1>3, <1>4, InvParts

LEMMA TransferInductive == Spec => [](TypeOK /\ TransferInv)
  <1>1. ASSUME TypeOK, TransferInv, [Next]_vars PROVE TypeOK' /\ TransferInv'
    <2>1. CASE UNCHANGED vars
      <3>1. TypeOK'
        BY <1>1, <2>1 DEF vars, TypeOK
      <3>2. EntryServed' /\ SharesSound' /\ late' \subseteq lost' /\ \A k \in Tasks : TaskShape(k)'
        BY <1>1, <2>1 DEF vars, TransferInv, EntryServed, SharesSound, TaskShape
      <3>3. ~doubled' => Owns'
        BY <1>1, <2>1 DEF vars, TransferInv, Owns, TaskOwns, DoneOwns, PartialOwned, Running
      <3> QED
        BY <3>1, <3>2, <3>3 DEF TransferInv, Owns
    <2> QED
      BY <1>1, <2>1, DownloadingInv, SharingInv DEF Next
  <1> QED
    BY <1>1, TransferInit, PTL DEF Spec

(***************************************************************************)
(* The transfer table, the tasks, the disk and the histories are well      *)
(* typed, an entry in the table always names the task that serves it, and  *)
(* an announced share is a finished one.                                   *)
(***************************************************************************)
THEOREM TransfersTyped == Spec => [](TypeOK /\ EntryServed /\ SharesSound)
  <1>1. TransferInv => EntryServed /\ SharesSound
    BY DEF TransferInv
  <1> QED
    BY <1>1, TransferInductive, PTL

(***************************************************************************)
(* A download shown as done is on disk and whole, whichever of the other   *)
(* tasks, cancels and late file creations ran between its last byte and    *)
(* now - unless its file is one the histories name.                        *)
(***************************************************************************)
THEOREM DoneFilesAreWhole == Spec => []DoneIsWhole
  <1>1. TransferInv => DoneIsWhole
    BY DEF TransferInv, DoneOwns, DoneIsWhole
  <1> QED
    BY <1>1, TransferInductive, PTL

(***************************************************************************)
(* Once no fetch task runs, no partial file is left behind, however the    *)
(* downloads ended, with the same exceptions.                              *)
(***************************************************************************)
THEOREM NoPartialsLeft == Spec => []NothingLeftOver
  <1>1. TransferInv => NothingLeftOver
    <2> SUFFICES ASSUME TransferInv, \A k \in Tasks : ~Running(k), ~doubled, NEW n \in Names,
                        disk[n] = "partial", n \notin lost
                 PROVE  FALSE
      BY DEF NothingLeftOver
    <2>1. PartialOwned(n)
      BY DEF TransferInv
    <2> QED
      BY <2>1 DEF PartialOwned, Running
  <1> QED
    BY <1>1, TransferInductive, PTL

-----------------------------------------------------------------------------
(* A final stage is left only for another task's entry. *)
StageStays(i) == Terminal(i) => entry'[i].stage = entry[i].stage \/ entry'[i].task # entry[i].task

LEMMA DownloadingStays ==
  ASSUME TypeOK, TransferInv, Downloading
  PROVE  \A i \in Offers \cup Shares : StageStays(i)
  <1>1. EntryServed /\ \A k \in Tasks : TaskShape(k)
    BY DEF TransferInv
  <1>2. CASE UNCHANGED entry
    BY <1>2 DEF StageStays
  <1>3. ASSUME NEW i \in Offers, NEW k \in Tasks, download(i, k)
        PROVE  \A j \in Offers \cup Shares : StageStays(j)
    <2>1. PICK e : Enters(i, e) /\ e.task = k
      BY <1>3, DownloadEffect
    <2>2. /\ entry'[i] = e /\ \A j \in (Offers \cup Shares) \ {i} : entry'[j] = entry[j]
      BY <2>1, Entered
    <2>3. entry[i] # None => entry[i].task # k
      BY <1>1, <1>3 DEF EntryServed, download
    <2> QED
      BY <2>1, <2>2, <2>3 DEF StageStays, Terminal
  <1>4. ASSUME NEW k \in Tasks, NEW n \in Names, NameDest(k, n)
        PROVE  \A j \in Offers \cup Shares : StageStays(j)
    <2>1. TaskShape(k) /\ fetch[k].pc # "none"
      BY <1>1, <1>4 DEF NameDest
    <2>2. PICK i \in Offers : i = fetch[k].id
      BY <2>1 DEF TaskShape
    <2>3. PICK e : Enters(i, e) /\ e.stage = entry[i].stage
      BY <1>4, <2>1, <2>2, NameEffect
    <2>4. /\ entry'[i] = e /\ \A j \in (Offers \cup Shares) \ {i} : entry'[j] = entry[j]
      BY <2>3, Entered
    <2> QED
      BY <2>3, <2>4 DEF StageStays
  <1>5. ASSUME NEW k \in Tasks, FetchConcludes(k)
        PROVE  \A j \in Offers \cup Shares : StageStays(j)
    <2>1. TaskShape(k) /\ fetch[k].pc # "none"
      BY <1>1, <1>5 DEF FetchConcludes
    <2>2. PICK i \in Offers : i = fetch[k].id
      BY <2>1 DEF TaskShape
    <2>3. CASE Terminal(i)
      BY <1>5, <2>1, <2>2, <2>3, ConcludeEffect DEF StageStays
    <2>4. CASE ~Terminal(i)
      <3>1. PICK e : Enters(i, e)
        BY <1>5, <2>1, <2>2, <2>4, ConcludeEffect
      <3>2. \A j \in (Offers \cup Shares) \ {i} : entry'[j] = entry[j]
        BY <3>1, Entered
      <3> QED
        BY <2>4, <3>2 DEF StageStays
    <2> QED
      BY <2>3, <2>4
  <1>6. ASSUME NEW i \in Offers, NEW delete_files \in BOOLEAN, cancel(i, delete_files)
        PROVE  \A j \in Offers \cup Shares : StageStays(j)
    <2>1. CASE Terminal(i)
      BY <1>6, <2>1 DEF cancel, StageStays
    <2>2. CASE ~Terminal(i)
      <3>1. PICK e : Enters(i, e)
        BY <1>1, <1>6, <2>2, CancelEffect
      <3>2. \A j \in (Offers \cup Shares) \ {i} : entry'[j] = entry[j]
        BY <3>1, Entered
      <3> QED
        BY <2>2, <3>2 DEF StageStays
    <2> QED
      BY <2>1, <2>2
  <1>7. ASSUME ~UNCHANGED entry
        PROVE  \/ \E i \in Offers, k \in Tasks : download(i, k)
               \/ \E k \in Tasks : FetchConcludes(k) \/ \E n \in Names : NameDest(k, n)
               \/ \E i \in Offers, delete_files \in BOOLEAN : cancel(i, delete_files)
    BY <1>7 DEF Downloading, run_fetch, Click, CreateFile, FetchOk, FetchFails, CreateCutOff, DeleteFile,
       LateCreate
  <1> QED
    BY <1>2, <1>3, <1>4, <1>5, <1>6, <1>7

(***************************************************************************)
(* A transfer that has failed, was cancelled or is done stays so until the *)
(* user fetches the offer anew, in whichever order cancel, a room change   *)
(* and the task's own end come; what was announced stays stored.           *)
(***************************************************************************)
THEOREM FinalStagesStay == Spec => FinalIsFinal
  <1> DEFINE A == /\ \A i \in Offers \cup Shares :
                       Terminal(i) => entry'[i].stage = entry[i].stage \/ entry'[i].task # entry[i].task
                  /\ \A o \in offered' : entry'[o[1]].stage = "done"
  <1>1. ASSUME TypeOK, TransferInv, TransferInv', Next PROVE A
    <2>1. \A i \in Offers \cup Shares : StageStays(i)
      <3>1. CASE Sharing
        <4>1. SharesOnly
          BY <1>1, <3>1, SharingType DEF TransferInv
        <4> QED
          BY <4>1 DEF SharesOnly, StageStays
      <3> QED
        BY <1>1, <3>1, DownloadingStays DEF Next
    <2>2. \A o \in offered' : entry'[o[1]].stage = "done"
      BY <1>1 DEF TransferInv, SharesSound
    <2> QED
      BY <2>1, <2>2 DEF StageStays
  <1>2. (TypeOK /\ TransferInv) /\ (TypeOK /\ TransferInv)' /\ [Next]_vars => [A]_vars
    BY <1>1
  <1> QED
    BY <1>2, TransferInductive, PTL DEF Spec, FinalIsFinal
================================================================================
