--------------------------------- MODULE Groups ---------------------------------
(***************************************************************************)
(* Group memberships and bans: the user_groups, group_expiries, groups and *)
(* bans trees of the store (persistence.rs), the groups each session       *)
(* caches, and the operations that change them: SetUserGroup, BanUser,     *)
(* CreateGroup, DeleteGroup, RequestRegisteredUsers, the handshake and the *)
(* sweep that runs every minute.                                           *)
(*                                                                         *)
(* A call to a sled tree is one atomic step, and so is reading or writing  *)
(* the cached groups of a session; an operation is a job of several steps. *)
(* The implicit "default" group is left out: every session has it.         *)
(***************************************************************************)
EXTENDS Naturals, FiniteSets

CONSTANTS
    Keys,       \* public keys
    Groups,     \* groups that can be given, Banned among them
    Banned,     \* the group BanUser puts a key into
    Conns,      \* connections; each is used once
    KeyOf,      \* Conns -> the key the client logs in with
    Admins,     \* tasks that run admin operations
    Sweeper,    \* the background task
    MaxTime,    \* the clock stops here
    MaxJobs,    \* how many jobs are under way at once
    MaxRequests,\* how many admin operations and crashes there are in all
    Crashes     \* whether the server may crash and restart

ASSUME GroupsConstants ==
    /\ Banned \in Groups /\ Conns # {}
    /\ KeyOf \in [Conns -> Keys]
    /\ MaxTime \in Nat \ {0}
    /\ MaxJobs \in Nat \ {0} /\ MaxRequests \in Nat /\ Crashes \in BOOLEAN
    /\ Conns \cap Admins = {} /\ Sweeper \notin Conns \cup Admins

Tasks == Conns \cup Admins \cup {Sweeper}
Time == 0..MaxTime      \* an expiry of 0 is "never"
Pairs == Keys \X Groups

VARIABLES
    now,        \* wall clock
    exists,     \* the groups tree
    held,       \* the user_groups tree: key -> groups
    expiry,     \* the group_expiries tree: pair -> time, 0 without a record
    banEnd,     \* the bans tree: key -> end of the ban, for the keys with a record
    link,       \* connection -> "new", "login", "on" (has a session), "gone"
    cache,      \* identity.groups() of each connection
    job,        \* what each task is at
    asked,      \* admin operations and crashes so far, for the bound
    want,       \* history: the latest decision about each pair
    disputed,   \* history: pairs two jobs, or a crash, worked on at once
    blurred     \* history: connections whose key two jobs worked on at once

store == <<exists, held, expiry, banEnd>>
history == <<disputed, blurred>>
vars == <<now, store, link, cache, job, asked, want, history>>

\* op: the operation; at: its step; clock: the time it took at its start; pair:
\* the key and group it is about; until: the expiry it sets; drop: pairs to
\* take out of the store; todo, active: what active_user_groups has still to
\* look at and what it found active; mirror: pairs to take to the caches;
\* visit: clients still to be visited; conn, seen: the one being visited and
\* the groups read from it.
NoJob == [op |-> "none", at |-> "idle", clock |-> 0,
          pair |-> <<CHOOSE k \in Keys : TRUE, Banned>>, until |-> 0,
          drop |-> {}, todo |-> {}, active |-> {}, mirror |-> {}, visit |-> {},
          conn |-> CHOOSE c \in Conns : TRUE, seen |-> {}]
Jobs ==
    [op : {"none", "add", "remove", "ban", "create", "delete", "list", "login", "load",
           "sweepBans", "sweep"},
     at : {"idle", "write", "expire", "record", "kick", "drop", "erase", "unban", "unhold",
           "groups", "expiries", "dropLapsed", "eraseLapsed", "enter", "mirror", "read", "cache",
           "insert", "unlist", "scan"},
     clock : Time, pair : Pairs, until : Time, drop : SUBSET Pairs, todo : SUBSET Groups,
     active : SUBSET Groups, mirror : SUBSET Pairs, visit : SUBSET Conns, conn : Conns,
     seen : SUBSET Groups]

TypeOK ==
    /\ now \in 1..MaxTime
    /\ exists \subseteq Groups
    /\ held \in [Keys -> SUBSET Groups]
    /\ expiry \in [Pairs -> Time]
    /\ DOMAIN banEnd \subseteq Keys /\ banEnd \in [DOMAIN banEnd -> Time]
    /\ link \in [Conns -> {"new", "login", "on", "gone"}]
    /\ cache \in [Conns -> SUBSET Groups]
    /\ job \in [Tasks -> Jobs]
    /\ asked \in 0..MaxRequests
    /\ want \in [Pairs -> [in : BOOLEAN, until : Time, clean : BOOLEAN, since : Time]]
    /\ disputed \subseteq Pairs /\ blurred \subseteq Conns

Init ==
    /\ now = 1
    /\ exists = Groups
    /\ held = [k \in Keys |-> {}]
    /\ expiry = [p \in Pairs |-> 0]
    /\ banEnd = [k \in {} |-> 0]
    /\ link = [c \in Conns |-> "new"]
    /\ cache = [c \in Conns |-> {}]
    /\ job = [x \in Tasks |-> NoJob]
    /\ asked = 0
    /\ want = [p \in Pairs |-> [in |-> FALSE, until |-> 0, clean |-> TRUE, since |-> 0]]
    /\ disputed = {} /\ blurred = {}

Idle(x) == job[x].op = "none"
Starts(x) == Idle(x) /\ Cardinality({y \in Tasks : ~Idle(y)}) < MaxJobs
Start(op, at, p) == [NoJob EXCEPT !.op = op, !.at = at, !.pair = p]
Goto(x, at) == job' = [job EXCEPT ![x].at = at]
Done(x) == job' = [job EXCEPT ![x] = NoJob]

Past(x, end) == end # 0 /\ job[x].clock >= end
KeyAt(x) == job[x].pair[1]
GroupAt(x) == job[x].pair[2]
Connected == {c \in Conns : link[c] \in {"login", "on"}}

\* Connections that end, and their cached groups with them.
Leave(C) ==
    /\ link' = [c \in Conns |-> IF c \in C THEN "gone" ELSE link[c]]
    /\ cache' = [c \in Conns |-> IF c \in C THEN {} ELSE cache[c]]
Decide(P, in, until, clean) ==
    want' = [p \in Pairs |->
               IF p \in P THEN [in |-> in, until |-> until, clean |-> clean, since |-> now]
                          ELSE want[p]]

-----------------------------------------------------------------------------
(* Taking pairs out of the store: remove_user_from_group, which changes two
   trees in two steps, and the loops around it. *)
DropHeld(x) ==
    /\ job[x].at = "drop"
    /\ \E p \in job[x].drop :
          /\ held' = [held EXCEPT ![p[1]] = held[p[1]] \ {p[2]}]
          /\ job' = [job EXCEPT ![x].drop = job[x].drop \ {p}, ![x].pair = p, ![x].at = "erase"]
    /\ UNCHANGED <<now, exists, expiry, banEnd, link, cache, want>>

\* The same after the removal of a ban record that has run out.
DropBan(x) ==
    /\ job[x].at = "unban"
    /\ \E p \in job[x].drop :
          /\ banEnd' = [k \in DOMAIN banEnd \ {p[1]} |-> banEnd[k]]
          /\ job' = [job EXCEPT ![x].drop = job[x].drop \ {p}, ![x].pair = p, ![x].at = "unhold"]
    /\ UNCHANGED <<now, exists, held, expiry, link, cache, want>>

DropBanned(x) ==
    /\ job[x].at = "unhold"
    /\ held' = [held EXCEPT ![KeyAt(x)] = held[KeyAt(x)] \ {Banned}]
    /\ Goto(x, "erase")
    /\ UNCHANGED <<now, exists, expiry, banEnd, link, cache, want>>

\* What comes after the removals, if none is left.
AfterDrops(j) ==
    IF j.drop # {} THEN [j EXCEPT !.at = IF j.op \in {"login", "sweepBans"} THEN "unban" ELSE "drop"]
    ELSE IF j.op = "login" THEN [j EXCEPT !.at = "groups"]
    ELSE IF j.op = "sweepBans" THEN [j EXCEPT !.at = "scan"]
    ELSE IF j.op = "delete" THEN [j EXCEPT !.at = "unlist"]
    ELSE IF j.mirror = {} THEN NoJob ELSE [j EXCEPT !.at = "mirror"]

DropExpiry(x) ==
    /\ job[x].at = "erase"
    /\ expiry' = [expiry EXCEPT ![job[x].pair] = 0]
    /\ job' = [job EXCEPT ![x] = AfterDrops(job[x])]
    /\ UNCHANGED <<now, exists, held, banEnd, link, cache, want>>

-----------------------------------------------------------------------------
(* Taking a change to the sessions: the clients are listed, and those with a
   session of the key (for a deleted group: all of them) have their cached
   groups read and, if that changes them, written back. *)
MirrorNext(x) ==
    /\ job[x].at = "mirror"
    /\ \E p \in job[x].mirror :
          job' = [job EXCEPT ![x].mirror = job[x].mirror \ {p}, ![x].pair = p,
                             ![x].visit = Connected, ![x].at = "read"]
    /\ UNCHANGED <<now, store, link, cache, want>>

MirrorRead(x) ==
    /\ job[x].at = "read"
    /\ \E c \in job[x].visit :
          LET mine == job[x].op = "delete" \/ (link[c] = "on" /\ KeyOf[c] = KeyAt(x))
          IN  job' = [job EXCEPT ![x].visit = job[x].visit \ {c}, ![x].conn = c,
                                 ![x].seen = IF mine THEN cache[c] ELSE {},
                                 ![x].at = IF mine THEN "cache" ELSE "read"]
    /\ UNCHANGED <<now, store, link, cache, want>>

\* Faulty variant: the sessions are not told.
MirrorNothing(x) ==
    /\ job[x].at = "cache"
    /\ job' = [job EXCEPT ![x].seen = {}, ![x].at = "read"]
    /\ UNCHANGED <<now, store, link, cache, want>>

MirrorWrite(x) ==
    /\ job[x].at = "cache"
    /\ LET new == IF job[x].op = "add" THEN job[x].seen \cup {GroupAt(x)}
                                       ELSE job[x].seen \ {GroupAt(x)}
       IN  cache' = IF new = job[x].seen \/ link[job[x].conn] = "gone"
                    THEN cache ELSE [cache EXCEPT ![job[x].conn] = new]
    /\ job' = [job EXCEPT ![x].seen = {}, ![x].at = "read"]
    /\ UNCHANGED <<now, store, link, want>>

MirrorDone(x) ==
    /\ job[x].at = "read" /\ job[x].visit = {}
    /\ job' = [job EXCEPT ![x] = AfterDrops([job[x] EXCEPT !.drop = IF job[x].op = "delete"
                                                THEN Keys \X {GroupAt(x)} ELSE {}])]
    /\ UNCHANGED <<now, store, link, cache, want>>

-----------------------------------------------------------------------------
(* active_user_groups, in the handshake and in RequestRegisteredUsers *)
ActiveList(x) ==
    /\ job[x].at = "groups"
    /\ job' = [job EXCEPT ![x].todo = held[KeyAt(x)], ![x].active = {}, ![x].at = "expiries"]
    /\ UNCHANGED <<now, store, link, cache, want>>

ActiveExpiry(x) ==
    /\ job[x].at = "expiries"
    /\ \E g \in job[x].todo :
          LET lapsed == Past(x, expiry[<<KeyAt(x), g>>])
          IN  job' = [job EXCEPT
                        ![x].todo = job[x].todo \ {g}, ![x].pair = <<KeyAt(x), g>>,
                        ![x].active = IF lapsed THEN job[x].active ELSE job[x].active \cup {g},
                        ![x].at = IF lapsed THEN "dropLapsed" ELSE "expiries"]
    /\ UNCHANGED <<now, store, link, cache, want>>

DropLapsed(x) ==
    /\ job[x].at = "dropLapsed"
    /\ held' = [held EXCEPT ![KeyAt(x)] = held[KeyAt(x)] \ {GroupAt(x)}]
    /\ Goto(x, "eraseLapsed")
    /\ UNCHANGED <<now, exists, expiry, banEnd, link, cache, want>>

EraseLapsed(x) ==
    /\ job[x].at = "eraseLapsed"
    /\ expiry' = [expiry EXCEPT ![job[x].pair] = 0]
    /\ Goto(x, "expiries")
    /\ UNCHANGED <<now, exists, held, banEnd, link, cache, want>>

ActiveDone(x) == job[x].at = "expiries" /\ job[x].todo = {}

(* handle_request_registered_users, one key *)
ListRegistered(x, k) ==
    /\ Starts(x)
    /\ job' = [job EXCEPT ![x] = [Start("list", "groups", <<k, Banned>>) EXCEPT !.clock = now]]
    /\ UNCHANGED <<now, store, link, cache, want>>

Listed(x) ==
    /\ job[x].op = "list" /\ ActiveDone(x)
    /\ Done(x)
    /\ UNCHANGED <<now, store, link, cache, want>>

-----------------------------------------------------------------------------
(* apply_set_user_group_by_key *)

\* Faulty variant: any name will do.
AddToAny(x, k, g, until) ==
    /\ Starts(x)
    /\ job' = [job EXCEPT ![x] = [Start("add", "write", <<k, g>>) EXCEPT !.until = until]]
    /\ UNCHANGED <<now, store, link, cache, want>>

AddUserGroup(x, k, g, until) ==
    /\ Starts(x)
    /\ g \in exists
    /\ job' = [job EXCEPT ![x] = [Start("add", "write", <<k, g>>) EXCEPT !.until = until]]
    /\ UNCHANGED <<now, store, link, cache, want>>

\* add_user_to_group_with_expiry: the list, then the expiry.
AddHeld(x) ==
    /\ job[x].at = "write"
    /\ held' = [held EXCEPT ![KeyAt(x)] = held[KeyAt(x)] \cup {GroupAt(x)}]
    /\ Goto(x, "expire")
    /\ UNCHANGED <<now, exists, expiry, banEnd, link, cache, want>>

\* A ban record left over from an earlier decision makes this one unclear.
Added(x) ==
    IF job[x].op = "ban"
    THEN Goto(x, "record") /\ UNCHANGED want
    ELSE /\ Decide({job[x].pair}, TRUE, job[x].until,
                   ~(GroupAt(x) = Banned /\ KeyAt(x) \in DOMAIN banEnd))
         /\ job' = [job EXCEPT ![x].mirror = {job[x].pair}, ![x].at = "mirror", ![x].until = 0]

\* Faulty variant: "no expiry" writes nothing, so an older expiry stays.
AddExpirySkipsZero(x) ==
    /\ job[x].at = "expire"
    /\ expiry' = IF job[x].until = 0 THEN expiry ELSE [expiry EXCEPT ![job[x].pair] = job[x].until]
    /\ Added(x)
    /\ UNCHANGED <<now, exists, held, banEnd, link, cache>>

AddExpiry(x) ==
    /\ job[x].at = "expire"
    /\ expiry' = [expiry EXCEPT ![job[x].pair] = job[x].until]
    /\ Added(x)
    /\ UNCHANGED <<now, exists, held, banEnd, link, cache>>

RemoveUserGroup(x, k, g) ==
    /\ Starts(x)
    /\ job' = [job EXCEPT ![x] = [Start("remove", "drop", <<k, g>>)
                                     EXCEPT !.drop = {<<k, g>>}, !.mirror = {<<k, g>>}]]
    /\ Decide({<<k, g>>}, FALSE, 0, TRUE)
    /\ UNCHANGED <<now, store, link, cache>>

-----------------------------------------------------------------------------
(* apply_ban: the group is created if it is missing, the membership is made
   permanent, the record says how long, and the one session is closed. *)
BanUser(x, c) ==
    /\ Starts(x) /\ link[c] = "on"
    /\ exists' = exists \cup {Banned}
    /\ job' = [job EXCEPT ![x] = [Start("ban", "write", <<KeyOf[c], Banned>>) EXCEPT !.conn = c]]
    /\ UNCHANGED <<now, held, expiry, banEnd, link, cache, want>>

WriteBan(x, end) ==
    /\ banEnd' = [k \in DOMAIN banEnd \cup {KeyAt(x)} |-> IF k = KeyAt(x) THEN end ELSE banEnd[k]]
    /\ Decide({job[x].pair}, TRUE, end, TRUE)
    /\ Goto(x, "kick")
    /\ UNCHANGED <<now, exists, held, expiry, link, cache>>

BanRecord(x) ==
    /\ job[x].at = "record"
    /\ \E end \in {0} \cup (now + 1)..MaxTime : WriteBan(x, end)

BanKick(x) ==
    /\ job[x].at = "kick"
    /\ Leave({job[x].conn})
    /\ Done(x)
    /\ UNCHANGED <<now, store, want>>

-----------------------------------------------------------------------------
(* apply_create_group, apply_delete_group *)
CreateGroup(x, g) ==
    /\ Starts(x) /\ g \notin exists
    /\ job' = [job EXCEPT ![x] = Start("create", "insert", <<KeyAt(x), g>>)]
    /\ UNCHANGED <<now, store, link, cache, want>>

InsertGroup(x) ==
    /\ job[x].at = "insert"
    /\ exists' = exists \cup {GroupAt(x)}
    /\ Done(x)
    /\ UNCHANGED <<now, held, expiry, banEnd, link, cache, want>>

\* The caches first, then the memberships, then the group.
DeleteGroup(x, g) ==
    /\ Starts(x)
    /\ job' = [job EXCEPT ![x] = [Start("delete", "read", <<KeyAt(x), g>>) EXCEPT !.visit = Connected]]
    /\ Decide(Keys \X {g}, FALSE, 0, TRUE)
    /\ UNCHANGED <<now, store, link, cache>>

RemoveGroup(x) ==
    /\ job[x].at = "unlist"
    /\ exists' = exists \ {GroupAt(x)}
    /\ Done(x)
    /\ UNCHANGED <<now, held, expiry, banEnd, link, cache, want>>

-----------------------------------------------------------------------------
(* handle_authenticate, steps 4b to 9 *)
BansOver == {k \in DOMAIN banEnd : banEnd[k] # 0 /\ now >= banEnd[k]}

\* A ban that has run out is lifted first.
Login(c) ==
    /\ Starts(c) /\ link[c] = "new"
    /\ link' = [link EXCEPT ![c] = "login"]
    /\ job' = [job EXCEPT ![c] = AfterDrops([Start("login", "unban", <<KeyOf[c], Banned>>) EXCEPT
                 !.clock = now, !.drop = (BansOver \cap {KeyOf[c]}) \X {Banned}])]
    /\ UNCHANGED <<now, store, cache, want>>

\* Faulty variant: the handshake goes on for everybody.
LoginUnchecked(c) ==
    /\ job[c].op = "login" /\ ActiveDone(c)
    /\ job' = [job EXCEPT ![c].op = "load", ![c].at = "groups", ![c].clock = now]
    /\ UNCHANGED <<now, store, link, cache, want>>

\* "You are banned from this server", or on with the handshake.
LoginCheck(c) ==
    /\ job[c].op = "login" /\ ActiveDone(c)
    /\ IF Banned \in job[c].active \cap exists
       THEN Done(c) /\ Leave({c})
       ELSE /\ job' = [job EXCEPT ![c].op = "load", ![c].at = "groups", ![c].clock = now]
            /\ UNCHANGED <<link, cache>>
    /\ UNCHANGED <<now, store, want>>

LoginLoad(c) ==
    /\ job[c].op = "load" /\ ActiveDone(c)
    /\ cache' = [cache EXCEPT ![c] = job[c].active]
    /\ Goto(c, "enter")
    /\ UNCHANGED <<now, store, link, want>>

LoginEnter(c) ==
    /\ job[c].at = "enter"
    /\ link' = [link EXCEPT ![c] = "on"]
    /\ Done(c)
    /\ UNCHANGED <<now, store, cache, want>>

Disconnect(c) ==
    /\ link[c] = "on"
    /\ Leave({c})
    /\ UNCHANGED <<now, store, job, want>>

-----------------------------------------------------------------------------
(* The sweep: sweep_expired_bans, then sweep_expired_memberships, which lists
   the lapsed pairs, drops them and takes the removals to the sessions. *)
Sweep(x) ==
    /\ Starts(x)
    /\ job' = [job EXCEPT ![x] = AfterDrops([Start("sweepBans", "unban", NoJob.pair) EXCEPT
                 !.clock = now, !.drop = BansOver \X {Banned}])]
    /\ UNCHANGED <<now, store, link, cache, want>>

SweepPairs(x, lapsed) ==
    /\ job[x].at = "scan"
    /\ job' = [job EXCEPT ![x] = AfterDrops([Start("sweep", "drop", NoJob.pair) EXCEPT
                 !.clock = job[x].clock, !.drop = lapsed, !.mirror = lapsed])]
    /\ UNCHANGED <<now, store, link, cache, want>>

\* Faulty variant: an expiry that is now is still to come.
SweepLater(x) == SweepPairs(x, {p \in Pairs : Past(x, expiry[p]) /\ job[x].clock # expiry[p]})

SweepScan(x) == SweepPairs(x, {p \in Pairs : Past(x, expiry[p])})

Tick ==
    /\ now < MaxTime
    /\ now' = now + 1
    /\ UNCHANGED <<store, link, cache, job, want>>

-----------------------------------------------------------------------------
Restart ==
    /\ Crashes
    /\ Leave(Connected)
    /\ job' = [x \in Tasks |-> NoJob]
    /\ UNCHANGED <<now, store, want>>

Continue(x) ==
    \/ DropHeld(x) \/ DropBan(x) \/ DropBanned(x) \/ DropExpiry(x)
    \/ MirrorNext(x) \/ MirrorRead(x) \/ MirrorWrite(x) \/ MirrorDone(x)
    \/ ActiveList(x) \/ ActiveExpiry(x) \/ DropLapsed(x) \/ EraseLapsed(x) \/ Listed(x)
    \/ AddHeld(x) \/ AddExpiry(x)
    \/ BanRecord(x) \/ BanKick(x) \/ InsertGroup(x) \/ RemoveGroup(x)
    \/ LoginCheck(x) \/ LoginLoad(x) \/ LoginEnter(x)
    \/ SweepScan(x)

Request(x) ==
    \/ \E k \in Keys : ListRegistered(x, k)
    \/ \E k \in Keys, g \in Groups :
          \/ RemoveUserGroup(x, k, g)
          \/ \E until \in {0} \cup (now + 1)..MaxTime : AddUserGroup(x, k, g, until)
    \/ \E c \in Conns : BanUser(x, c)
    \/ \E g \in Groups : CreateGroup(x, g) \/ DeleteGroup(x, g)

Counted == asked < MaxRequests /\ asked' = asked + 1

Step ==
    \/ Counted /\ \E x \in Admins : Request(x)
    \/ /\ Tick \/ Sweep(Sweeper) \/ (\E x \in Tasks : Continue(x))
            \/ \E c \in Conns : Login(c) \/ Disconnect(c)
       /\ UNCHANGED asked

\* The pairs a job is working on, and the keys.
At(x) ==
    IF job[x].at \in {"idle", "scan"} THEN {}
    ELSE IF job[x].op \in {"list", "login", "load"} THEN {KeyAt(x)} \X Groups
    ELSE IF job[x].op = "delete" THEN Keys \X {GroupAt(x)}
    ELSE {job[x].pair} \cup job[x].drop \cup job[x].mirror
AtKeys(x) == {p[1] : p \in At(x)}

Contended == {p \in Pairs : \E x, y \in Tasks : x # y /\ p \in At(x) \cap At(y)}
Overlooked == {c \in Connected : \E x, y \in Tasks : x # y /\ KeyOf[c] \in AtKeys(x) \cap AtKeys(y)}

Next ==
    \/ Step /\ disputed' = disputed \cup Contended' /\ blurred' = blurred \cup Overlooked'
    \/ Restart /\ Counted /\ UNCHANGED blurred /\ disputed' = disputed \cup UNION {At(x) : x \in Tasks}

Spec == Init /\ [][Next]_vars

-----------------------------------------------------------------------------
(* Properties *)
Ended(end) == end # 0 /\ now >= end
InForce(p) == want[p].in /\ ~Ended(want[p].until)
Effective(p) ==
    /\ p[2] \in held[p[1]]
    /\ ~Ended(expiry[p])
    /\ ~(p[2] = Banned /\ p[1] \in DOMAIN banEnd /\ Ended(banEnd[p[1]]))
Settled(p) == p \notin disputed /\ \A x \in Tasks : p \notin At(x)

\* What the store says of a key and a group is what the admin decided last,
\* for as long as decided: grants and bans neither lapse early nor outlive
\* their end, are not lost, and come back with no group.  The exceptions are
\* pairs two jobs worked on at once, and a "banned" membership given by hand
\* while a ban record was left over.
DecisionsKept ==
    \A p \in Pairs : Settled(p) /\ want[p].clean => Effective(p) = InForce(p)

\* "the group must actually exist": no membership of a group that is gone,
\* which would come to life if the name were used again.
NoDanglingMembership ==
    \A p \in Pairs : Settled(p) /\ p[2] \in held[p[1]] => p[2] \in exists

\* A decision in force, and a revocation, has reached every live session.
SessionsFollow ==
    \A c \in Conns \ blurred : \A g \in Groups \ {Banned} :
        LET p == <<KeyOf[c], g>> IN
        link[c] = "on" /\ p \notin disputed /\ (\A x \in Tasks : KeyOf[c] \notin AtKeys(x)) =>
            /\ InForce(p) => g \in cache[c]
            /\ ~want[p].in => g \notin cache[c]

\* Nobody gets a session while a ban is in force.
BannedStayOut ==
    [][\A c \in Conns :
          LET p == <<KeyOf[c], Banned>> IN
          link[c] # "on" /\ link'[c] = "on" /\ c \notin blurred /\ p \notin disputed /\ want[p].clean
             => ~InForce(p)]_vars

\* When a sweep is over, no grant and no ban that had run out when it started
\* is in the store, unless somebody is at that pair.
SweepTakesAll ==
    [][job[Sweeper].op \in {"sweepBans", "sweep"} /\ job'[Sweeper].op = "none" /\ asked' = asked =>
          \A p \in Pairs \ disputed :
              want[p].clean /\ want[p].since < job[Sweeper].clock /\ Past(Sweeper, want[p].until)
                 /\ (\A x \in Tasks \ {Sweeper} : p \notin At(x))
              => p[2] \notin held[p[1]]]_vars

=================================================================================
