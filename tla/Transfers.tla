------------------------------- MODULE Transfers -------------------------------
(***************************************************************************)
(* The desktop client's side of file transfers: the plugin's table of      *)
(* transfers, the upload and fetch tasks, the watchers that announce a     *)
(* finished upload, and the files on disk.                                 *)
(*                                                                         *)
(* The table is under a lock and an access to it is one step; a task finds *)
(* its entry by transfer id alone.  The server's answers, the progress of  *)
(* a body and the contents of files are abstracted: a file on disk is      *)
(* partial or whole, a body ends well or badly.                            *)
(***************************************************************************)
EXTENDS Naturals, FiniteSets

CONSTANTS
    Offers,   \* transfer ids of files others share
    Shares,   \* transfer ids this client draws for its own uploads
    Paths,    \* local files it may share
    Rooms,
    None,
    MaxTasks  \* bound: fetch tasks; also the names tried in the downloads directory

ASSUME TransferConstants == MaxTasks \in Nat \ {0} /\ Offers \cap Shares = {} /\ None \notin Rooms \cup Paths

Tasks == 1..MaxTasks
Names == 1..MaxTasks

\* "dest" is the file being written, "local" that of a finished download, "del"
\* that a cancel asked for its file to go, "room" the room an upload is for,
\* "task" the fetch task whose token a cancel fires.
Entries ==
    [stage : {"active", "done", "failed"}, dest : 0..MaxTasks, local : 0..MaxTasks, del : BOOLEAN,
     room : Rooms \cup {None}, path : Paths \cup {None}, task : 0..MaxTasks]
FetchStates ==
    [pc : {"none", "asking", "named", "writing", "ended", "deleting", "done"},
     id : Offers \cup {None}, token : BOOLEAN, ok : BOOLEAN, dest : 0..MaxTasks]
UploadStates == [pc : {"none", "sending", "ended", "done"}, token : BOOLEAN, ok : BOOLEAN]

ASSUME NoneIsNothing == None \notin Entries \cup Offers

VARIABLES
    entry,     \* the table: per transfer id its entry, or None
    fetch,     \* the fetch tasks
    upload,    \* per share: its upload task
    disk,      \* the downloads directory
    late,      \* names that a cut-off File::create will still make
    clicks,    \* per offer: Download clicks not yet served
    room,      \* the plugin's room_id
    here,      \* the room the server has the user in
    watchers,  \* per share: tasks that poll its stage
    offered,   \* history: shares announced, with the room they were announced in
    doubled,   \* history: an offer was fetched by two tasks at once
    lost       \* history: names the user had deleted, whose creation was cut off, or
               \* that was chosen again before the task that chose it had ended

vars == <<entry, fetch, upload, disk, late, clicks, room, here, watchers, offered, doubled, lost>>
sharing == <<upload, room, here, watchers, offered>>
fetching == <<fetch, disk, late, clicks, doubled, lost>>

TypeOK ==
    /\ entry \in [Offers \cup Shares -> Entries \cup {None}]
    /\ fetch \in [Tasks -> FetchStates]
    /\ upload \in [Shares -> UploadStates]
    /\ disk \in [Names -> {"none", "partial", "whole"}] /\ late \subseteq Names
    /\ clicks \in [Offers -> Nat]
    /\ room \in Rooms /\ here \in Rooms
    /\ watchers \in [Shares -> Nat] /\ offered \subseteq Shares \X Rooms
    /\ doubled \in BOOLEAN /\ lost \subseteq Names

Terminal(i) == entry[i] # None /\ entry[i].stage # "active"
NoTask == [pc |-> "none", id |-> None, token |-> FALSE, ok |-> FALSE, dest |-> 0]

Init ==
    /\ entry = [i \in Offers \cup Shares |-> None]
    /\ fetch = [k \in Tasks |-> NoTask]
    /\ upload = [s \in Shares |-> [pc |-> "none", token |-> FALSE, ok |-> FALSE]]
    /\ disk = [n \in Names |-> "none"] /\ late = {}
    /\ clicks = [i \in Offers |-> 0]
    /\ room \in Rooms /\ here = room
    /\ watchers = [s \in Shares |-> 0] /\ offered = {}
    /\ doubled = FALSE /\ lost = {}

-----------------------------------------------------------------------------
(* Downloads *)

\* The button is there while the table has no entry for the offer.
Click(i) ==
    /\ entry[i] = None /\ clicks[i] < 2
    /\ clicks' = [clicks EXCEPT ![i] = @ + 1]
    /\ UNCHANGED <<entry, sharing, fetch, disk, late, doubled, lost>>

Running(k) == fetch[k].pc \notin {"none", "done"}

\* A fresh entry, whatever was there, and a task with a token of its own
download(i, k) ==
    /\ clicks[i] > 0
    /\ fetch[k].pc = "none" /\ \A m \in Tasks : m < k => fetch[m].pc # "none"
    /\ clicks' = [clicks EXCEPT ![i] = @ - 1]
    /\ entry' = [entry EXCEPT ![i] = [stage |-> "active", dest |-> 0, local |-> 0, del |-> FALSE, room |-> None,
                                      path |-> None, task |-> k]]
    /\ fetch' = [fetch EXCEPT ![k] = [NoTask EXCEPT !.pc = "asking", !.id = i]]
    /\ doubled' = (doubled \/ \E m \in Tasks : fetch[m].id = i /\ Running(m))
    /\ UNCHANGED <<sharing, disk, late, lost>>

\* Mutant of NameDest: the name is taken as the server gives it
NameDestPlain(k, n) ==
    /\ fetch[k].pc = "asking" /\ n = 1
    /\ fetch' = [fetch EXCEPT ![k].pc = "named", ![k].dest = n]
    /\ entry' = [entry EXCEPT ![fetch[k].id].dest = n]
    /\ lost' = IF \E m \in Tasks : Running(m) /\ fetch[m].dest = n THEN lost \cup {n} ELSE lost
    /\ UNCHANGED <<sharing, disk, late, clicks, doubled>>

\* The server's answer is read and a free name is chosen and recorded; the file
\* is made afterwards.
NameDest(k, n) ==
    /\ fetch[k].pc = "asking" /\ disk[n] = "none" /\ \A m \in Names : m < n => disk[m] # "none"
    /\ fetch' = [fetch EXCEPT ![k].pc = "named", ![k].dest = n]
    /\ entry' = [entry EXCEPT ![fetch[k].id].dest = n]
    /\ lost' = IF \E m \in Tasks : Running(m) /\ fetch[m].dest = n THEN lost \cup {n} ELSE lost
    /\ UNCHANGED <<sharing, disk, late, clicks, doubled>>

CreateFile(k) ==
    /\ fetch[k].pc = "named"
    /\ fetch' = [fetch EXCEPT ![k].pc = "writing"]
    /\ disk' = [disk EXCEPT ![fetch[k].dest] = "partial"]
    /\ UNCHANGED <<entry, sharing, late, clicks, doubled, lost>>

\* The body arrives to its declared size and is flushed.
FetchOk(k) ==
    /\ fetch[k].pc = "writing"
    /\ fetch' = [fetch EXCEPT ![k].pc = "ended", ![k].ok = TRUE]
    /\ disk' = [disk EXCEPT ![fetch[k].dest] = IF disk[fetch[k].dest] = "none" THEN "none" ELSE "whole"]
    /\ UNCHANGED <<entry, sharing, late, clicks, doubled, lost>>

\* Not found, refused, too large, incomplete or overrun, a failed read or write,
\* or the token has fired.
FetchFails(k) ==
    /\ fetch[k].pc \in {"asking", "named", "writing"}
    /\ fetch' = [fetch EXCEPT ![k].pc = "ended", ![k].ok = FALSE]
    /\ UNCHANGED <<entry, sharing, disk, late, clicks, doubled, lost>>

\* The token fires while the file is being made: the runtime's worker thread
\* makes it all the same.
CreateCutOff(k) ==
    /\ fetch[k].pc = "named" /\ fetch[k].token
    /\ fetch' = [fetch EXCEPT ![k].pc = "ended", ![k].ok = FALSE]
    /\ late' = late \cup {fetch[k].dest} /\ lost' = lost \cup {fetch[k].dest}
    /\ UNCHANGED <<entry, sharing, disk, clicks, doubled>>

LateCreate(n) ==
    /\ n \in late
    /\ late' = late \ {n} /\ disk' = [disk EXCEPT ![n] = "partial"]
    /\ UNCHANGED <<entry, sharing, fetch, clicks, doubled, lost>>

\* Mutant of Doomed: a failed download's file is kept
DoomedNever(k) == 0

\* The file to delete is the one the entry names, for every failure and for a
\* success that was cancelled with its file.
Doomed(k) == IF fetch[k].ok /\ ~entry[fetch[k].id].del THEN 0 ELSE entry[fetch[k].id].dest

\* Under the lock: a terminal stage stays, otherwise the result is recorded.
FetchConcludes(k) ==
    /\ fetch[k].pc = "ended"
    /\ LET i == fetch[k].id
           stays == fetch[k].ok /\ ~entry[i].del
       IN /\ entry' = IF Terminal(i) THEN entry
                      ELSE [entry EXCEPT ![i].stage = IF stays THEN "done" ELSE "failed",
                                         ![i].local = IF stays THEN fetch[k].dest ELSE 0]
          /\ fetch' = [fetch EXCEPT ![k] = [@ EXCEPT !.pc = IF Doomed(k) = 0 THEN "done" ELSE "deleting",
                                                     !.dest = Doomed(k)]]
    /\ UNCHANGED <<sharing, disk, late, clicks, doubled, lost>>

DeleteFile(k) ==
    /\ fetch[k].pc = "deleting"
    /\ fetch' = [fetch EXCEPT ![k].pc = "done"]
    /\ disk' = [disk EXCEPT ![fetch[k].dest] = "none"]
    /\ UNCHANGED <<entry, sharing, late, clicks, doubled, lost>>

\* The file of a finished download goes at once, if asked for; an active
\* transfer's token fires and its entry is terminal from here on.
cancel(i, delete_files) ==
    /\ entry[i] # None
    /\ IF Terminal(i)
       THEN /\ delete_files /\ i \in Offers /\ entry[i].stage = "done"
            /\ disk' = [disk EXCEPT ![entry[i].local] = "none"]
            /\ lost' = lost \cup {entry[i].local}
            /\ UNCHANGED <<entry, fetch, upload>>
       ELSE /\ entry' = [entry EXCEPT ![i].stage = "failed",
                                      ![i].del = delete_files /\ i \in Offers]
            /\ IF i \in Offers
               THEN fetch' = [fetch EXCEPT ![entry[i].task].token = TRUE] /\ UNCHANGED upload
               ELSE upload' = [upload EXCEPT ![i].token = TRUE] /\ UNCHANGED fetch
            /\ UNCHANGED <<disk, lost>>
    /\ UNCHANGED <<late, clicks, room, here, watchers, offered, doubled>>

-----------------------------------------------------------------------------
(* Uploads *)

\* A file that is being uploaded is not uploaded again, but announced again.
share(p, s) ==
    /\ entry[s] = None /\ upload[s].pc = "none"
    /\ \A t \in Shares : entry[t] # None => entry[t].stage # "active" \/ entry[t].path # p
    /\ entry' = [entry EXCEPT ![s] = [stage |-> "active", dest |-> 0, local |-> 0, del |-> FALSE, room |-> room,
                                      path |-> p, task |-> 0]]
    /\ upload' = [upload EXCEPT ![s].pc = "sending"]
    /\ watchers' = [watchers EXCEPT ![s] = 1]
    /\ UNCHANGED <<fetching, room, here, offered>>

\* A file over the limit only leaves a failed entry; its watcher finds it.
ShareTooLarge(s) ==
    /\ entry[s] = None /\ upload[s].pc = "none"
    /\ entry' = [entry EXCEPT ![s] = [stage |-> "failed", dest |-> 0, local |-> 0, del |-> FALSE, room |-> None,
                                      path |-> None, task |-> 0]]
    /\ watchers' = [watchers EXCEPT ![s] = 1]
    /\ UNCHANGED <<fetching, upload, room, here, offered>>

ShareAgain(s) ==
    /\ entry[s] # None /\ entry[s].stage = "active" /\ watchers[s] < 2
    /\ watchers' = [watchers EXCEPT ![s] = @ + 1]
    /\ UNCHANGED <<entry, fetching, upload, room, here, offered>>

\* Rejected, failed, or cut off by its token; or stored, whatever the token says
UploadEnds(s, ok) ==
    /\ upload[s].pc = "sending"
    /\ upload' = [upload EXCEPT ![s].pc = "ended", ![s].ok = ok]
    /\ UNCHANGED <<entry, fetching, room, here, watchers, offered>>

\* Mutant of UploadConcludes: the result is recorded whatever the entry says
UploadConcludesLast(s) ==
    /\ upload[s].pc = "ended"
    /\ upload' = [upload EXCEPT ![s].pc = "done"]
    /\ entry' = [entry EXCEPT ![s].stage = IF upload[s].ok THEN "done" ELSE "failed"]
    /\ UNCHANGED <<fetching, room, here, watchers, offered>>

UploadConcludes(s) ==
    /\ upload[s].pc = "ended"
    /\ upload' = [upload EXCEPT ![s].pc = "done"]
    /\ entry' = IF Terminal(s) THEN entry
                ELSE [entry EXCEPT ![s].stage = IF upload[s].ok THEN "done" ELSE "failed"]
    /\ UNCHANGED <<fetching, room, here, watchers, offered>>

Move(r) ==
    /\ r # here /\ here = room
    /\ here' = r
    /\ UNCHANGED <<entry, fetching, upload, room, watchers, offered>>

\* The projection tells the plugin: uploads for the room left are cancelled.
set_room_id ==
    /\ room # here
    /\ room' = here
    /\ LET left == {s \in Shares : entry[s] # None /\ entry[s].stage = "active" /\ entry[s].room = room}
       IN /\ entry' = [i \in DOMAIN entry |-> IF i \in left THEN [entry[i] EXCEPT !.stage = "failed"]
                                              ELSE entry[i]]
          /\ upload' = [s \in Shares |-> IF s \in left THEN [upload[s] EXCEPT !.token = TRUE] ELSE upload[s]]
    /\ UNCHANGED <<fetching, here, watchers, offered>>

\* Mutant of Watch: only a finished upload ends the polling
WatchUntilDone(s) ==
    /\ watchers[s] > 0 /\ entry[s] # None /\ entry[s].stage = "done"
    /\ watchers' = [watchers EXCEPT ![s] = @ - 1]
    /\ offered' = offered \cup {<<s, here>>}
    /\ UNCHANGED <<entry, fetching, upload, room, here>>

\* watch_share_upload polls four times a second; the announcement it asks for is
\* a chat message to whatever room the user is in by then.
Watch(s) ==
    /\ watchers[s] > 0 /\ Terminal(s)
    /\ watchers' = [watchers EXCEPT ![s] = @ - 1]
    /\ offered' = IF entry[s].stage = "done" THEN offered \cup {<<s, here>>} ELSE offered
    /\ UNCHANGED <<entry, fetching, upload, room, here>>

-----------------------------------------------------------------------------
run_fetch(k) ==
    \/ \E n \in Names : NameDest(k, n)
    \/ CreateFile(k) \/ FetchOk(k) \/ FetchFails(k) \/ CreateCutOff(k)
    \/ FetchConcludes(k) \/ DeleteFile(k)
run_upload(s) == (\E ok \in BOOLEAN : UploadEnds(s, ok)) \/ UploadConcludes(s)

Downloading ==
    \/ \E i \in Offers : Click(i) \/ \E k \in Tasks : download(i, k)
    \/ \E k \in Tasks : run_fetch(k)
    \/ \E n \in Names : LateCreate(n)
    \/ \E i \in Offers, delete_files \in BOOLEAN : cancel(i, delete_files)

Sharing ==
    \/ \E s \in Shares : run_upload(s) \/ ShareTooLarge(s) \/ ShareAgain(s) \/ Watch(s) \/ \E p \in Paths : share(p, s)
    \/ \E s \in Shares, delete_files \in BOOLEAN : cancel(s, delete_files)
    \/ \E r \in Rooms : Move(r)
    \/ set_room_id

Next == Downloading \/ Sharing

Spec == Init /\ [][Next]_vars

\* The fetch task awaits the server's answer or the body, the upload task the
\* admission, room for the body or the response.  None of these has a timeout.
FetchWaits(k) == fetch[k].pc \in {"asking", "writing"}
UploadWaits(s) == upload[s].pc = "sending"

\* What a task does by itself: all but waiting, which only its token ends.
FetchGoesOn(k) == (~FetchWaits(k) \/ fetch[k].token) /\ run_fetch(k)
UploadGoesOn(s) == (~UploadWaits(s) \/ upload[s].token) /\ run_upload(s)

\* Spawned tasks run, a fired token wakes its task, watchers poll.  The server
\* need not answer, and a body need neither go on nor fail.
FairSpec ==
    /\ Spec
    /\ \A k \in Tasks : WF_vars(FetchGoesOn(k))
    /\ \A s \in Shares : WF_vars(UploadGoesOn(s)) /\ WF_vars(Watch(s))

-----------------------------------------------------------------------------
(* Properties *)

\* A download shown as done is on disk, whole, unless the user deleted it, two
\* tasks fetched it or chose its name at once, or a creation of that name was cut off.
DoneIsWhole ==
    \A i \in Offers : entry[i] # None /\ entry[i].stage = "done" =>
        disk[entry[i].local] = "whole" \/ entry[i].local \in lost \/ doubled

\* Once no fetch runs, no partial file is left in the downloads directory, with
\* the same exceptions.
NothingLeftOver ==
    (\A k \in Tasks : ~Running(k)) /\ ~doubled =>
        \A n \in Names : disk[n] = "partial" => n \in lost

\* What makes them inductive.  A download's entry names the task that serves it;
\* until an offer is fetched twice at once, a running task's entry records the
\* name that task writes to, and the name of a running task or of a finished
\* download is nobody else's unless it is in lost.
EntryServed ==
    \A i \in Offers : entry[i] # None =>
        /\ entry[i].task \in Tasks /\ fetch[entry[i].task].pc # "none"
        /\ entry[i].stage = "done" => entry[i].local \in Names
TaskShape(k) ==
    /\ fetch[k].pc # "none" => fetch[k].id \in Offers /\ entry[fetch[k].id] # None
    /\ fetch[k].pc = "none" => fetch[k] = NoTask
    /\ fetch[k].pc = "asking" => fetch[k].dest = 0
    /\ fetch[k].pc \in {"asking", "named", "writing"} => ~fetch[k].ok
    /\ fetch[k].pc \in {"named", "writing", "deleting"} => fetch[k].dest \in Names
    /\ fetch[k].pc = "ended" /\ fetch[k].ok => fetch[k].dest \in Names
TaskOwns(k) ==
    Running(k) =>
        /\ entry[fetch[k].id].task = k /\ entry[fetch[k].id].dest = fetch[k].dest
        /\ fetch[k].dest \in Names \ lost =>
              /\ \A m \in Tasks \ {k} : Running(m) => fetch[m].dest # fetch[k].dest
              /\ fetch[k].pc = "writing" => disk[fetch[k].dest] = "partial"
              /\ fetch[k].pc = "ended" /\ fetch[k].ok => disk[fetch[k].dest] = "whole"
DoneOwns(i) ==
    entry[i] # None /\ entry[i].stage = "done" /\ entry[i].local \notin lost =>
        /\ disk[entry[i].local] = "whole"
        /\ \A k \in Tasks : Running(k) => fetch[k].dest # entry[i].local
PartialOwned(n) ==
    disk[n] = "partial" /\ n \notin lost =>
        \E k \in Tasks : fetch[k].dest = n /\ (fetch[k].pc \in {"writing", "deleting"} \/ (fetch[k].pc = "ended" /\ ~fetch[k].ok))
SharesSound ==
    /\ \A s \in Shares : upload[s].pc # "none" => entry[s] # None
    /\ \A o \in offered : entry[o[1]] # None /\ entry[o[1]].stage = "done"
TransferInv ==
    /\ EntryServed /\ SharesSound /\ late \subseteq lost
    /\ \A k \in Tasks : TaskShape(k)
    /\ ~doubled => /\ \A k \in Tasks : TaskOwns(k)
                   /\ \A i \in Offers : DoneOwns(i)
                   /\ \A n \in Names : PartialOwned(n)

\* A stage that is final stays, whichever of cancel, a room change and the
\* transfer's own end comes first: a cancelled or dropped transfer is never done
\* after all, so that what was announced is, and what was dropped never is.
FinalIsFinal ==
    [][/\ \A i \in Offers \cup Shares :
           Terminal(i) => entry'[i].stage = entry[i].stage \/ entry'[i].task # entry[i].task
       /\ \A o \in offered' : entry'[o[1]].stage = "done"]_vars

\* A transfer whose task does not wait for the server for ever comes to an end,
\* whatever becomes of the others.  A cancelled task ends even while the server is
\* silent, its file taken care of, and the watchers of a transfer that has ended
\* end too.  Without a cancel a silent server leaves a transfer active for ever:
\* the code has no timeout there.
TransfersEnd ==
    /\ \A i \in Offers \cup Shares :
           []<>~(IF i \in Shares THEN UploadWaits(i)
                 ELSE entry[i] # None /\ FetchWaits(entry[i].task))
               => ((entry[i] # None /\ entry[i].stage = "active") ~> Terminal(i))
    /\ \A k \in Tasks : fetch[k].token ~> (fetch[k].pc = "done")
    /\ \A s \in Shares : /\ upload[s].token ~> (upload[s].pc = "done")
                         /\ (Terminal(s) /\ watchers[s] > 0) ~> (watchers[s] = 0)
================================================================================
