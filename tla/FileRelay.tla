------------------------------- MODULE FileRelay -------------------------------
(***************************************************************************)
(* The server's file relay: uploads, fetches and the two evictors, all     *)
(* running at once over a concurrent map and an atomic byte counter.       *)
(*                                                                         *)
(* Every map access is one step, every load and every compare-exchange of  *)
(* the counter is one step; between them any other stream may run.  A      *)
(* shard of the map holds one id.  A file is its room, its size and        *)
(* whether it has outlived its time to live.  Whether a user holds a       *)
(* permission is any Boolean.                                              *)
(***************************************************************************)
EXTENDS Naturals, FiniteSets

CONSTANTS
    Uploads,        \* upload streams
    Fetches,        \* fetch streams
    Sweeper,        \* the task that removes expired files
    Leavers,        \* disconnects that may empty a room
    Ids,            \* transfer ids, chosen by the clients
    Rooms,
    NoFile,
    MaxFile,        \* max_file_size
    MaxTotal        \* max_total_size

Evictors == Leavers \cup {Sweeper}

ASSUME RelayConstants ==
    /\ MaxFile \in Nat /\ MaxTotal \in Nat
    /\ Uploads \cap (Ids \cup Evictors) = {} /\ Ids \cap Evictors = {}

\* However long a server runs, it has met finitely many streams, disconnects and ids.
ASSUME RelayIsFinite == IsFiniteSet(Uploads) /\ IsFiniteSet(Ids) /\ IsFiniteSet(Leavers)

Files == [room : Rooms, size : 0..MaxFile, expired : BOOLEAN]

ASSUME NoFileIsNone == NoFile \notin Files

VARIABLES
    cache,        \* per id: the file, or NoFile
    total_cached, \* the counter
    up,           \* per upload stream: where it is and what it uploads
    fetch,        \* per fetch stream
    evict,        \* per evictor
    recycled      \* history: ids removed at some time

vars == <<cache, total_cached, up, fetch, evict, recycled>>

UploadStates ==
    [pc : {"idle", "asked", "reserve", "body", "read", "refusing", "refund"},
     id : Ids \cup {NoFile}, room : Rooms \cup {NoFile}, size : 0..MaxFile, seen : Nat]
FetchStates == [pc : {"idle", "checking", "allowed"}, id : Ids \cup {NoFile}, room : Rooms \cup {NoFile}]
EvictStates ==
    [pc : {"idle", "scan", "remove", "release"}, room : Rooms \cup {NoFile},
     left : SUBSET Ids, doomed : SUBSET Ids, size : 0..MaxFile, seen : Nat]

TypeOK ==
    /\ cache \in [Ids -> Files \cup {NoFile}]
    /\ total_cached \in Nat
    /\ up \in [Uploads -> UploadStates]
    /\ fetch \in [Fetches -> FetchStates]
    /\ evict \in [Evictors -> EvictStates]
    /\ recycled \subseteq Ids

NoUpload == [pc |-> "idle", id |-> NoFile, room |-> NoFile, size |-> 0, seen |-> 0]
NoFetch == [pc |-> "idle", id |-> NoFile, room |-> NoFile]
Asleep == [pc |-> "idle", room |-> NoFile, left |-> {}, doomed |-> {}, size |-> 0, seen |-> 0]

Init ==
    /\ cache = [i \in Ids |-> NoFile]
    /\ total_cached = 0
    /\ up = [u \in Uploads |-> NoUpload]
    /\ fetch = [f \in Fetches |-> NoFetch]
    /\ evict = [e \in Evictors |-> Asleep]
    /\ recycled = {}

-----------------------------------------------------------------------------
(* Uploads *)

\* The entry guard of a refused upload lives until its answer is written: other
\* accesses to the id's shard wait.
Free(i) == \A u \in Uploads : ~(up[u].pc = "refusing" /\ up[u].id = i)

\* The request is checked for its size and for an id in use.
Request(u, i, r, n) ==
    /\ up[u].pc = "idle"
    /\ n <= MaxFile /\ Free(i) /\ cache[i] = NoFile
    /\ up' = [up EXCEPT ![u] = [pc |-> "asked", id |-> i, room |-> r, size |-> n, seen |-> 0]]
    /\ UNCHANGED <<cache, total_cached, fetch, evict, recycled>>

\* TEXT_MESSAGE in the room; without it the request is rejected.
Admit(u) ==
    /\ up[u].pc = "asked"
    /\ \/ up' = [up EXCEPT ![u] = [up[u] EXCEPT !.pc = "reserve", !.seen = total_cached]]
       \/ up' = [up EXCEPT ![u] = NoUpload]
    /\ UNCHANGED <<cache, total_cached, fetch, evict, recycled>>

\* Mutant of try_reserve: the check and the addition are two steps
TryReserveBlindly(u) ==
    /\ up[u].pc = "reserve"
    /\ IF up[u].seen + up[u].size > MaxTotal
       THEN up' = [up EXCEPT ![u] = NoUpload] /\ UNCHANGED total_cached
       ELSE /\ total_cached' = total_cached + up[u].size
            /\ up' = [up EXCEPT ![u].pc = "body"]
    /\ UNCHANGED <<cache, fetch, evict, recycled>>

\* Rejected if the bytes seen leave no room; a counter that moved is seen anew.
try_reserve(u) ==
    /\ up[u].pc = "reserve"
    /\ IF up[u].seen + up[u].size > MaxTotal
       THEN up' = [up EXCEPT ![u] = NoUpload] /\ UNCHANGED total_cached
       ELSE IF total_cached = up[u].seen
       THEN /\ total_cached' = up[u].seen + up[u].size
            /\ up' = [up EXCEPT ![u].pc = "body"]
       ELSE up' = [up EXCEPT ![u].seen = total_cached] /\ UNCHANGED total_cached
    /\ UNCHANGED <<cache, fetch, evict, recycled>>

\* The body is read to its declared size ...
BodyRead(u) ==
    /\ up[u].pc = "body"
    /\ up' = [up EXCEPT ![u].pc = "read"]
    /\ UNCHANGED <<cache, total_cached, fetch, evict, recycled>>

\* ... or it stalls, ends early or fails, or the stream or the plugin is stopped:
\* the guard is dropped.
BodyFails(u) ==
    /\ up[u].pc = "body"
    /\ up' = [up EXCEPT ![u] = [up[u] EXCEPT !.pc = "refund", !.seen = total_cached]]
    /\ UNCHANGED <<cache, total_cached, fetch, evict, recycled>>

\* Mutant of Store: the file under an id claimed meanwhile is moved to the new room
StoreRetags(u) ==
    /\ up[u].pc = "read" /\ Free(up[u].id)
    /\ IF cache[up[u].id] # NoFile
       THEN /\ cache' = [cache EXCEPT ![up[u].id].room = up[u].room]
            /\ up' = [up EXCEPT ![u].pc = "refusing"]
       ELSE /\ cache' = [cache EXCEPT ![up[u].id] =
                            [room |-> up[u].room, size |-> up[u].size, expired |-> FALSE]]
            /\ up' = [up EXCEPT ![u] = NoUpload]
    /\ UNCHANGED <<total_cached, fetch, evict, recycled>>

\* An id claimed meanwhile is not overwritten: the reservation goes back.
\* Otherwise it is committed with the file.
Store(u) ==
    /\ up[u].pc = "read" /\ Free(up[u].id)
    /\ IF cache[up[u].id] # NoFile
       THEN up' = [up EXCEPT ![u].pc = "refusing"] /\ UNCHANGED cache
       ELSE /\ cache' = [cache EXCEPT ![up[u].id] =
                            [room |-> up[u].room, size |-> up[u].size, expired |-> FALSE]]
            /\ up' = [up EXCEPT ![u] = NoUpload]
    /\ UNCHANGED <<total_cached, fetch, evict, recycled>>

\* The refusal is written, or the stream fails: the shard is released, then the
\* reservation.
Refused(u) ==
    /\ up[u].pc = "refusing"
    /\ up' = [up EXCEPT ![u] = [up[u] EXCEPT !.pc = "refund", !.seen = total_cached]]
    /\ UNCHANGED <<cache, total_cached, fetch, evict, recycled>>

\* One round of release_quota, for an amount and the value seen before
Release(n, seen) == total_cached = seen /\ total_cached' = IF seen > n THEN seen - n ELSE 0

RefundEnds(u) ==
    /\ up[u].pc = "refund"
    /\ Release(up[u].size, up[u].seen)
    /\ up' = [up EXCEPT ![u] = NoUpload]
    /\ UNCHANGED <<cache, fetch, evict, recycled>>

RefundRetries(u) ==
    /\ up[u].pc = "refund" /\ total_cached # up[u].seen
    /\ up' = [up EXCEPT ![u].seen = total_cached]
    /\ UNCHANGED <<cache, total_cached, fetch, evict, recycled>>

-----------------------------------------------------------------------------
(* Fetches *)
LookUp(f, i) ==
    /\ fetch[f].pc = "idle" /\ Free(i) /\ cache[i] # NoFile
    /\ fetch' = [fetch EXCEPT ![f] = [pc |-> "checking", id |-> i, room |-> cache[i].room]]
    /\ UNCHANGED <<cache, total_cached, up, evict, recycled>>

\* ENTER in the room the file had at the first look
Authorize(f) ==
    /\ fetch[f].pc = "checking"
    /\ \/ fetch' = [fetch EXCEPT ![f].pc = "allowed"]
       \/ fetch' = [fetch EXCEPT ![f] = NoFetch]
    /\ UNCHANGED <<cache, total_cached, up, evict, recycled>>

\* The second look: a file that has gone is not found; the bytes of one that is
\* there are sent after the map is released.
Serve(f) ==
    /\ fetch[f].pc = "allowed" /\ Free(fetch[f].id)
    /\ fetch' = [fetch EXCEPT ![f] = NoFetch]
    /\ UNCHANGED <<cache, total_cached, up, evict, recycled>>

-----------------------------------------------------------------------------
(* Evictors *)

\* The sweep starts every minute; a disconnect empties a room.
SweepStarts ==
    /\ evict[Sweeper].pc = "idle" /\ \E i \in Ids : cache[i] # NoFile /\ cache[i].expired
    /\ evict' = [evict EXCEPT ![Sweeper] = [Asleep EXCEPT !.pc = "scan", !.left = Ids]]
    /\ UNCHANGED <<cache, total_cached, up, fetch, recycled>>

on_disconnect(e, r) ==
    /\ e # Sweeper /\ evict[e].pc = "idle"
    /\ evict' = [evict EXCEPT ![e] = [Asleep EXCEPT !.pc = "scan", !.left = Ids, !.room = r]]
    /\ UNCHANGED <<cache, total_cached, up, fetch, recycled>>

\* Mutant of Matches: the comparison with the time to live is inverted
MatchesFresh(e, file) == IF e = Sweeper THEN ~file.expired ELSE file.room = evict[e].room

Matches(e, file) == IF e = Sweeper THEN file.expired ELSE file.room = evict[e].room

\* The map is walked shard by shard, and only then are the files removed.
Scan(e, i) ==
    /\ evict[e].pc = "scan" /\ i \in evict[e].left /\ Free(i)
    /\ evict' = [evict EXCEPT ![e] =
           [evict[e] EXCEPT !.left = evict[e].left \ {i},
                     !.doomed = IF cache[i] # NoFile /\ Matches(e, cache[i])
                                THEN evict[e].doomed \cup {i} ELSE evict[e].doomed,
                     !.pc = IF evict[e].left = {i} THEN "remove" ELSE "scan"]]
    /\ UNCHANGED <<cache, total_cached, up, fetch, recycled>>

\* Mutant of Remove: the bytes are released whether or not a file was removed
RemoveRelying(e, i) ==
    /\ evict[e].pc = "remove" /\ i \in evict[e].doomed /\ Free(i)
    /\ cache' = [cache EXCEPT ![i] = NoFile]
    /\ recycled' = recycled \cup {i}
    /\ evict' = [evict EXCEPT ![e] = [evict[e] EXCEPT !.doomed = evict[e].doomed \ {i}, !.pc = "release",
                                                !.size = 1, !.seen = total_cached]]
    /\ UNCHANGED <<total_cached, up, fetch>>

\* Removal by id; what was removed says how many bytes to release.
Remove(e, i) ==
    /\ evict[e].pc = "remove" /\ i \in evict[e].doomed /\ Free(i)
    /\ IF cache[i] = NoFile
       THEN evict' = [evict EXCEPT ![e].doomed = evict[e].doomed \ {i}] /\ UNCHANGED <<cache, recycled>>
       ELSE /\ cache' = [cache EXCEPT ![i] = NoFile]
            /\ recycled' = recycled \cup {i}
            /\ evict' = [evict EXCEPT ![e] = [evict[e] EXCEPT !.doomed = evict[e].doomed \ {i}, !.pc = "release",
                                                       !.size = cache[i].size, !.seen = total_cached]]
    /\ UNCHANGED <<total_cached, up, fetch>>

ReleaseEnds(e) ==
    /\ evict[e].pc = "release"
    /\ Release(evict[e].size, evict[e].seen)
    /\ evict' = [evict EXCEPT ![e] = [evict[e] EXCEPT !.pc = "remove", !.size = 0, !.seen = 0]]
    /\ UNCHANGED <<cache, up, fetch, recycled>>

ReleaseRetries(e) ==
    /\ evict[e].pc = "release" /\ total_cached # evict[e].seen
    /\ evict' = [evict EXCEPT ![e].seen = total_cached]
    /\ UNCHANGED <<cache, total_cached, up, fetch, recycled>>

EvictionDone(e) ==
    /\ evict[e].pc = "remove" /\ evict[e].doomed = {}
    /\ evict' = [evict EXCEPT ![e] = Asleep]
    /\ UNCHANGED <<cache, total_cached, up, fetch, recycled>>

\* Time passes.
Expire(i) ==
    /\ cache[i] # NoFile /\ ~cache[i].expired
    /\ cache' = [cache EXCEPT ![i].expired = TRUE]
    /\ UNCHANGED <<total_cached, up, fetch, evict, recycled>>

-----------------------------------------------------------------------------
\* The steps of an upload that wait for nobody, or no longer than a timeout
Proceeds(u) ==
    Admit(u) \/ try_reserve(u) \/ BodyRead(u) \/ BodyFails(u) \/ Store(u)
    \/ RefundEnds(u) \/ RefundRetries(u)
handle_upload(u) == Proceeds(u) \/ Refused(u)
handle_fetch(f) == Authorize(f) \/ Serve(f)
Evicts(e) ==
    \/ \E i \in Ids : Scan(e, i) \/ Remove(e, i)
    \/ ReleaseEnds(e) \/ ReleaseRetries(e) \/ EvictionDone(e)

Next ==
    \/ \E u \in Uploads : handle_upload(u)
                          \/ \E i \in Ids, r \in Rooms, n \in 1..MaxFile + 1 : Request(u, i, r, n)
    \/ \E f \in Fetches : handle_fetch(f) \/ \E i \in Ids : LookUp(f, i)
    \/ SweepStarts
    \/ \E e \in Leavers, r \in Rooms : on_disconnect(e, r)
    \/ \E e \in Evictors : Evicts(e)
    \/ \E i \in Ids : Expire(i)

Spec == Init /\ [][Next]_vars

\* Handlers that can run do, a body that does not come times out, the sweep runs
\* every minute.  The load and the compare-exchange of a round are neighbouring
\* instructions: rounds are not disturbed for ever.  Nothing makes a client read
\* the answer to a refused upload, whose write has no timeout.
FairSpec ==
    /\ Spec
    /\ \A u \in Uploads : WF_vars(Proceeds(u))
    /\ WF_vars(SweepStarts) /\ WF_vars(Evicts(Sweeper)) /\ SF_vars(ReleaseEnds(Sweeper))

-----------------------------------------------------------------------------
(* Properties *)

Holders == Uploads \cup Ids \cup Evictors
Held == [h \in Holders |->
    CASE h \in Uploads -> IF up[h].pc \in {"body", "read", "refusing", "refund"} THEN up[h].size ELSE 0
      [] h \in Ids -> IF cache[h] = NoFile THEN 0 ELSE cache[h].size
      [] OTHER -> IF evict[h].pc = "release" THEN evict[h].size ELSE 0]

Budget == INSTANCE Quota WITH held <- Held

\* The relay keeps its budget: with every counter access a step of its own, each
\* upload, cached file and removal in progress accounts for its bytes as if
\* claims and releases were atomic, and none is granted that does not fit.
KeepsBudget == Budget!Spec

\* The counter is what is held: nothing leaks, nothing is given back twice.
Accounted == total_cached = Budget!Used

\* The file that is sent is of the room the caller was allowed to enter, unless
\* its id was removed and used again.
ServedFromItsRoom ==
    [][\A f \in Fetches :
        fetch[f].pc = "allowed" /\ fetch'[f].pc = "idle" /\ cache[fetch[f].id] # NoFile =>
            \/ cache[fetch[f].id].room = fetch[f].room
            \/ fetch[f].id \in recycled]_vars

\* An expired file goes, and its bytes come back, unless a refused upload whose
\* client does not read its answer holds the sweep up for ever: no other handler,
\* stalled body or disturbed round does.
ExpiredGo ==
    (\A i \in Ids : []<>Free(i)) =>
        \A i \in Ids : (cache[i] # NoFile /\ cache[i].expired) ~> (cache[i] = NoFile)
================================================================================
