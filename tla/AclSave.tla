-------------------------------- MODULE AclSave --------------------------------
(***************************************************************************)
(* Saving a room ACL: ops::apply_set_room_acl, called by the protocol      *)
(* handler and by the web admin API, against other saves, against          *)
(* ops::apply_delete_room and against a restart of the server.             *)
(*                                                                         *)
(* An ACL configuration (the inherit flag and the entries) is a value, and *)
(* its version is the value itself: room_acl_version hashes the contents   *)
(* and never answers 0.  Only requests that hold WRITE are considered; a   *)
(* refused one changes nothing.                                            *)
(***************************************************************************)
EXTENDS FiniteSets

CONSTANTS
    Editors,        \* admins that edit an ACL, each on a connection of its own
    Rooms, Root,    \* rooms; Root cannot be deleted
    Configs,        \* ACL configurations
    Default,        \* inherit_acl = true, no entries
    Unversioned,    \* base_version = 0, an old client
    NoAcl,          \* a room without a persisted ACL
    Free,           \* the gate has no holder
    Crashable       \* whether the server may crash and restart

ASSUME AclSaveConstants ==
    /\ Root \in Rooms /\ Default \in Configs
    /\ Unversioned \notin Configs /\ NoAcl \notin Configs /\ Free \notin Editors
    /\ Crashable \in BOOLEAN

VARIABLES
    live,       \* the rooms in memory
    mem,        \* their ACLs in memory, what clients are shown (Default if gone)
    records,    \* the rooms with a persisted record
    stored,     \* the persisted ACLs
    gate,       \* the holder of acl_write_gate
    save,       \* the save each editor is at
    erasing,    \* the deletes under way: room -> "no", "room", "acl"
    failed      \* history: rooms whose latest write to the store failed

save_vars == <<live, mem, records, stored, gate, save, erasing, failed>>

NoSave == [pc |-> "idle", room |-> Root, base |-> Unversioned, config |-> Default]

SaveTypeOK ==
    /\ live \subseteq Rooms /\ Root \in live
    /\ mem \in [Rooms -> Configs]
    /\ records \subseteq Rooms
    /\ stored \in [Rooms -> Configs \cup {NoAcl}]
    /\ gate \in Editors \cup {Free}
    /\ save \in [Editors ->
          [pc : {"idle", "editing", "waiting", "compare", "apply", "persist", "announce"},
           room : Rooms, base : Configs \cup {Unversioned}, config : Configs]]
    /\ erasing \in [Rooms -> {"no", "room", "acl"}]
    /\ failed \subseteq Rooms

\* What a reader of the store gets: no record means the default.
StoredOf(r) == IF stored[r] = NoAcl THEN Default ELSE stored[r]

\* Every room but Root has a record, and the memory was loaded from the store.
SaveInit ==
    /\ live = Rooms /\ records = Rooms \ {Root}
    /\ stored \in [Rooms -> Configs \cup {NoAcl}]
    /\ mem = [r \in Rooms |-> StoredOf(r)]
    /\ gate = Free
    /\ save = [e \in Editors |-> NoSave]
    /\ erasing = [r \in Rooms |-> "no"]
    /\ failed = {}

-----------------------------------------------------------------------------
(* apply_set_room_acl *)

\* The editor copies the ACL it is shown, with its version unless the client
\* is an old one.  What follows may happen any time later.
Open(e, r) ==
    /\ save[e].pc = "idle" /\ r \in live
    /\ \E base \in {mem[r], Unversioned} :
          save' = [save EXCEPT ![e] = [NoSave EXCEPT !.pc = "editing", !.room = r, !.base = base]]
    /\ UNCHANGED <<live, mem, records, stored, gate, erasing, failed>>

\* The request arrives and asks for the gate.
Submit(e, c) ==
    /\ save[e].pc = "editing"
    /\ save' = [save EXCEPT ![e].pc = "waiting", ![e].config = c]
    /\ UNCHANGED <<live, mem, records, stored, gate, erasing, failed>>

\* Faulty variant: the version check is not serialized.
LockIgnored(e) ==
    /\ save[e].pc = "waiting"
    /\ gate' = e
    /\ save' = [save EXCEPT ![e].pc = "compare"]
    /\ UNCHANGED <<live, mem, records, stored, erasing, failed>>

\* acl_write_gate.lock().await
Lock(e) ==
    /\ save[e].pc = "waiting"
    /\ gate = Free
    /\ gate' = e
    /\ save' = [save EXCEPT ![e].pc = "compare"]
    /\ UNCHANGED <<live, mem, records, stored, erasing, failed>>

\* The answer is sent and the guard dropped.
Answered(e) ==
    /\ gate' = Free
    /\ save' = [save EXCEPT ![e] = NoSave]

\* Faulty variant: a conflict is answered with the gate still held.
CompareKeepsGate(e) ==
    /\ save[e].pc = "compare"
    /\ IF save[e].base \in {Unversioned, StoredOf(save[e].room)}
       THEN save' = [save EXCEPT ![e].pc = "apply"]
       ELSE save' = [save EXCEPT ![e] = NoSave]
    /\ UNCHANGED <<live, mem, records, stored, gate, erasing, failed>>

\* The base version must be the version of the stored ACL, or missing.
Compare(e) ==
    /\ save[e].pc = "compare"
    /\ IF save[e].base \in {Unversioned, StoredOf(save[e].room)}
       THEN save' = [save EXCEPT ![e].pc = "apply"] /\ UNCHANGED gate
       ELSE Answered(e)
    /\ UNCHANGED <<live, mem, records, stored, erasing, failed>>

\* ServerState::set_room_acl; "Room not found" ends the save here.
Apply(e) ==
    /\ save[e].pc = "apply"
    /\ IF save[e].room \in live
       THEN /\ mem' = [mem EXCEPT ![save[e].room] = save[e].config]
            /\ save' = [save EXCEPT ![e].pc = "persist"]
            /\ UNCHANGED gate
       ELSE Answered(e) /\ UNCHANGED mem
    /\ UNCHANGED <<live, records, stored, erasing, failed>>

\* Faulty variant: the success is announced without the write.
PersistSkipped(e) ==
    /\ save[e].pc = "persist"
    /\ save' = [save EXCEPT ![e].pc = "announce"]
    /\ UNCHANGED <<live, mem, records, stored, gate, erasing, failed>>

\* Persistence::set_room_acl
Persist(e) ==
    /\ save[e].pc = "persist"
    /\ stored' = [stored EXCEPT ![save[e].room] = save[e].config]
    /\ failed' = failed \ {save[e].room}
    /\ save' = [save EXCEPT ![e].pc = "announce"]
    /\ UNCHANGED <<live, mem, records, gate, erasing>>

\* The write fails: "Failed to persist ACL", with the memory changed.
PersistFails(e) ==
    /\ save[e].pc = "persist"
    /\ failed' = failed \cup {save[e].room}
    /\ Answered(e)
    /\ UNCHANGED <<live, mem, records, stored, erasing>>

\* RoomAclChanged is broadcast, the members' mutes are re-evaluated (module
\* ServerMute) and the save succeeds.
Announce(e) ==
    /\ save[e].pc = "announce"
    /\ Answered(e)
    /\ UNCHANGED <<live, mem, records, stored, erasing, failed>>

-----------------------------------------------------------------------------
(* apply_delete_room, the part the ACL is involved in.  It does not take the
   gate. *)

DeleteRoom(r) ==
    /\ r \in live \ {Root}
    /\ live' = live \ {r}
    /\ mem' = [mem EXCEPT ![r] = Default]
    /\ erasing' = [erasing EXCEPT ![r] = "room"]
    /\ UNCHANGED <<records, stored, gate, save, failed>>

EraseRoom(r) ==
    /\ erasing[r] = "room"
    /\ records' = records \ {r}
    /\ erasing' = [erasing EXCEPT ![r] = "acl"]
    /\ UNCHANGED <<live, mem, stored, gate, save, failed>>

EraseAcl(r) ==
    /\ erasing[r] = "acl"
    /\ stored' = [stored EXCEPT ![r] = NoAcl]
    /\ erasing' = [erasing EXCEPT ![r] = "no"]
    /\ UNCHANGED <<live, mem, records, gate, save, failed>>

-----------------------------------------------------------------------------
(* A crash and the start that follows: load_persisted_rooms, then
   hydrate_room_acls over the rooms it loaded.  Clients start over. *)

\* Faulty variant: only the rooms are loaded.
HydratedCold(r) == Default
Hydrated(r) == StoredOf(r)

Reload ==
    /\ Crashable
    /\ live' = records \cup {Root}
    /\ mem' = [r \in Rooms |-> IF r \in records \cup {Root} THEN Hydrated(r) ELSE Default]
    /\ gate' = Free
    /\ save' = [e \in Editors |-> NoSave]
    /\ erasing' = [r \in Rooms |-> "no"]
    /\ failed' = {}
    /\ UNCHANGED <<records, stored>>

-----------------------------------------------------------------------------
HandlerStep(e) ==
    Lock(e) \/ Compare(e) \/ Apply(e) \/ Persist(e) \/ PersistFails(e) \/ Announce(e)

SaveNext ==
    \/ \E e \in Editors :
          \/ \E r \in Rooms : Open(e, r)
          \/ \E c \in Configs : Submit(e, c)
          \/ HandlerStep(e)
    \/ \E r \in Rooms : DeleteRoom(r) \/ EraseRoom(r) \/ EraseAcl(r)
    \/ Reload

\* A spawned handler keeps running, and tokio's Mutex serves its waiters in
\* the order they came: nobody who waits for a gate that keeps being released
\* waits for ever.
SaveFairness == \A e \in Editors : SF_save_vars(Lock(e)) /\ WF_save_vars(HandlerStep(e))

SaveSpec == SaveInit /\ [][SaveNext]_save_vars
FairSaveSpec == SaveSpec /\ SaveFairness

-----------------------------------------------------------------------------
(* Properties *)

\* A versioned save of an existing room never overwrites an ACL its editor
\* has not seen: at the moment of the write, the stored ACL is still the one
\* the editor loaded, whatever the other editors did since.
NoLostUpdate ==
    [][\A e \in Editors :
          save[e].pc = "persist" /\ save'[e].pc = "announce"
             /\ save[e].base # Unversioned /\ save[e].room \in live
          => StoredOf(save[e].room) = save[e].base]_save_vars

\* "In-memory ServerState rooms and persistence are kept in lockstep": for an
\* existing room they differ only while a save is between its two writes, or
\* after a write that failed, until the next save or a restart.
Lockstep ==
    \A r \in live :
        \/ mem[r] = StoredOf(r)
        \/ r \in failed
        \/ \E e \in Editors : save[e].pc = "persist" /\ save[e].room = r

\* What a save is about to announce is what the store holds, unless the room
\* is being deleted.
AnnouncedIsStored ==
    \A e \in Editors :
        save[e].pc = "announce" /\ save[e].room \in live =>
            /\ stored[save[e].room] = save[e].config
            /\ mem[save[e].room] = save[e].config

\* Every submitted save is answered: an error path that kept the gate would
\* block every later save.
SaveAnswered == \A e \in Editors : save[e].pc = "waiting" ~> save[e].pc = "idle"

-----------------------------------------------------------------------------
(* The strengthening the proof of NoLostUpdate needs *)

\* Only the holder of the gate is past it.
GateExclusive == \A e \in Editors :
    save[e].pc \in {"compare", "apply", "persist", "announce"} => gate = e

\* What the holder compared is still so.
Compared == \A e \in Editors :
    /\ save[e].pc \in {"apply", "persist"}
    /\ save[e].base # Unversioned /\ save[e].room \in live
    => StoredOf(save[e].room) = save[e].base

\* A room being deleted is not in memory.
ErasedIsGone == \A r \in Rooms : erasing[r] # "no" => r \notin live

\* Between its two writes the holder's configuration is in memory.
Applied == \A e \in Editors :
    save[e].pc = "persist" /\ save[e].room \in live => mem[save[e].room] = save[e].config

SaveInv ==
    SaveTypeOK /\ GateExclusive /\ Compared /\ Applied /\ ErasedIsGone /\ AnnouncedIsStored
================================================================================
