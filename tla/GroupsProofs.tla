----------------------------- MODULE GroupsProofs -----------------------------
(***************************************************************************)
(* What the store and the sessions say of memberships and bans, for any    *)
(* number of keys, groups, connections, admins and requests.               *)
(*                                                                         *)
(* The argument is about one pair of a key and a group at a time.  While   *)
(* two jobs are never at a pair at once, the only job at it knows what it  *)
(* has written there and what is still to be written; and a pair nobody is *)
(* at is as it was decided.                                                *)
(*                                                                         *)
(* The other half of what a permission is evaluated from, the ACLs of the  *)
(* rooms (AclSave, whose variables are its own), is at the end.            *)
(***************************************************************************)
EXTENDS Groups, AclSave, TLAPS

Held(p) == p[2] \in held[p[1]]
Recorded(p) == p[2] = Banned /\ p[1] \in DOMAIN banEnd

(* The pairs a job is at *)
Of(j) ==
    IF j.at \in {"idle", "scan"} THEN {}
    ELSE IF j.op \in {"list", "login", "load"} THEN {j.pair[1]} \X Groups
    ELSE IF j.op = "delete" THEN Keys \X {j.pair[2]}
    ELSE {j.pair} \cup j.drop \cup j.mirror

Lifting == {"unban", "unhold", "erase"}
Listing == {"expiries", "dropLapsed", "eraseLapsed"}
Visiting == {"read", "cache"}

(* Which steps an operation of x has, and what its lists may name *)
Shape(x, j) ==
    /\ j.op = "none" => j.at = "idle" /\ j.drop = {} /\ j.mirror = {}
    /\ j.op = "add" => /\ j.at \in {"write", "expire", "mirror"} \cup Visiting
                       /\ j.drop = {} /\ j.mirror \subseteq {j.pair}
    /\ j.op = "ban" => /\ j.at \in {"write", "expire", "record", "kick"}
                       /\ j.drop = {} /\ j.mirror = {} /\ j.pair[2] = Banned /\ j.until = 0
    /\ j.op = "remove" => /\ j.at \in {"drop", "erase", "mirror"} \cup Visiting
                          /\ j.drop \subseteq {j.pair} /\ j.mirror \subseteq {j.pair}
                          /\ j.at \notin {"drop", "erase"} => j.drop = {}
    /\ j.op = "create" => j.at = "insert" /\ j.drop = {} /\ j.mirror = {}
    /\ j.op = "delete" => /\ j.at \in {"drop", "erase", "unlist"} \cup Visiting
                          /\ j.drop \subseteq Keys \X {j.pair[2]} /\ j.mirror = {}
                          /\ j.at \notin {"drop", "erase"} => j.drop = {}
    /\ j.op = "list" => j.at \in {"groups"} \cup Listing /\ j.drop = {} /\ j.mirror = {}
    /\ j.op = "login" => /\ j.at \in {"groups"} \cup Lifting \cup Listing
                         /\ x \in Conns /\ j.pair[1] = KeyOf[x] /\ j.mirror = {}
                         /\ j.drop \subseteq {<<KeyOf[x], Banned>>}
                         /\ j.at \in Lifting => j.pair[2] = Banned
                         /\ j.at \notin Lifting => j.drop = {}
    /\ j.op = "load" => /\ j.at \in {"groups", "enter"} \cup Listing
                        /\ x \in Conns /\ j.pair[1] = KeyOf[x] /\ j.drop = {} /\ j.mirror = {}
    /\ j.op = "sweepBans" => /\ j.at \in {"scan"} \cup Lifting /\ x = Sweeper
                             /\ j.drop \subseteq Keys \X {Banned} /\ j.mirror = {} /\ j.pair[2] = Banned
                             /\ j.at = "scan" => j.drop = {}
    /\ j.op = "sweep" => /\ j.at \in {"drop", "erase", "mirror"} \cup Visiting /\ x = Sweeper
                         /\ j.at \notin {"drop", "erase"} => j.drop = {}

(* A membership that is held as decided, by a grant or by a ban record *)
Stands(p) ==
    \/ expiry[p] = want[p].until /\ ~Recorded(p)
    \/ expiry[p] = 0 /\ Recorded(p) /\ banEnd[p[1]] = want[p].until
Kept(p) == IF Held(p) THEN want[p].in /\ Stands(p) ELSE ~InForce(p)

(* The job is between the first and the last of the writes a decision takes. *)
Pending(j, p) ==
    \/ j.pair = p /\ j.at \in {"expire", "record", "unhold"}
    \/ p \in j.drop
    \/ j.op = "delete" /\ j.at \in Visiting /\ p[2] = j.pair[2]

(* The job removes what is over. *)
Condemned(j, p) ==
    \/ p \in j.drop
    \/ j.pair = p /\ j.at \in {"erase", "unhold", "dropLapsed", "eraseLapsed"}
    \/ j.op = "sweep" /\ (p \in j.mirror \/ (j.pair = p /\ j.at \in Visiting))

(* What a job knows of a pair it is alone at *)
Duty(j, p) ==
    /\ j.pair = p /\ j.at \in {"write", "expire"} => p[2] \in exists
    /\ j.pair = p /\ j.at \in {"expire", "record"} => Held(p)
    /\ j.pair = p /\ j.at = "record" => expiry[p] = 0
    /\ want[p].clean /\ Condemned(j, p) => ~InForce(p)
    /\ j.op \in {"remove", "delete"} /\ p \in Of(j) => ~want[p].in
    /\ j.pair = p /\ j.at \in {"erase", "eraseLapsed"} => ~Held(p)
    /\ j.op = "delete" /\ j.at \in {"drop", "erase", "unlist"} /\ p[2] = j.pair[2] /\ p \notin j.drop
          => ~Held(p)
    /\ j.op = "add" /\ j.pair = p /\ j.at \in {"mirror"} \cup Visiting => want[p].in
    /\ want[p].clean /\ j.at \in Listing /\ p[1] = j.pair[1] =>
          /\ InForce(p) => p[2] \in j.todo \cup j.active
          /\ ~want[p].in => p[2] \notin j.todo \cup j.active
    /\ want[p].clean /\ j.op = "load" /\ p = <<j.pair[1], Banned>> => ~InForce(p)

Good(j, p) ==
    /\ Duty(j, p)
    /\ want[p].clean => Kept(p) \/ Pending(j, p)
    /\ Held(p) => p[2] \in exists

Alone(x, p) == \A y \in Tasks \ {x} : p \notin At(y)
PairInv == \A p \in Pairs \ disputed : \A x \in Tasks : Alone(x, p) => Good(job[x], p)

-----------------------------------------------------------------------------
(* Types and the frame of a step *)

LEMMA Constants ==
  /\ Banned \in Groups /\ KeyOf \in [Conns -> Keys] /\ MaxTime \in Nat /\ MaxTime >= 1
  /\ Conns \subseteq Tasks /\ Admins \subseteq Tasks /\ Sweeper \in Tasks
  /\ Sweeper \notin Conns /\ Conns # {} /\ Keys # {}
  BY GroupsConstants DEF Tasks

LEMMA NoJobType ==
  /\ NoJob \in Jobs /\ NoJob.op = "none" /\ NoJob.at = "idle" /\ NoJob.clock = 0 /\ NoJob.until = 0
  /\ NoJob.pair \in Pairs /\ NoJob.pair[2] = Banned
  /\ NoJob.drop = {} /\ NoJob.todo = {} /\ NoJob.active = {} /\ NoJob.mirror = {} /\ NoJob.visit = {}
  /\ NoJob.conn \in Conns /\ NoJob.seen = {}
  <1> DEFINE k == CHOOSE k \in Keys : TRUE
             c == CHOOSE c \in Conns : TRUE
  <1>1. k \in Keys /\ c \in Conns
    BY Constants
  <1>2. NoJob = [op |-> "none", at |-> "idle", clock |-> 0, pair |-> <<k, Banned>>, until |-> 0,
                 drop |-> {}, todo |-> {}, active |-> {}, mirror |-> {}, visit |-> {},
                 conn |-> c, seen |-> {}]
    BY DEF NoJob
  <1> HIDE DEF k, c
  <1>3. <<k, Banned>> \in Pairs /\ <<k, Banned>>[2] = Banned /\ 0 \in Time
    BY <1>1, Constants DEF Pairs, Time
  <1> QED
    BY <1>1, <1>2, <1>3 DEF Jobs

LEMMA JobFields ==
  ASSUME NEW j \in Jobs
  PROVE  /\ j.clock \in Time /\ j.pair \in Pairs /\ j.until \in Time /\ j.drop \subseteq Pairs
         /\ j.todo \subseteq Groups /\ j.active \subseteq Groups /\ j.mirror \subseteq Pairs
         /\ j.visit \subseteq Conns /\ j.conn \in Conns /\ j.seen \subseteq Groups
  BY DEF Jobs

LEMMA PairParts ==
  /\ \A p \in Pairs : p[1] \in Keys /\ p[2] \in Groups /\ p = <<p[1], p[2]>>
  /\ \A k \in Keys, g \in Groups : <<k, g>> \in Pairs /\ <<k, g>>[1] = k /\ <<k, g>>[2] = g
  BY DEF Pairs

LEMMA JobUpdate ==
  ASSUME job \in [Tasks -> Jobs], NEW x \in Tasks, NEW s \in Jobs, job' = [job EXCEPT ![x] = s]
  PROVE  /\ job' \in [Tasks -> Jobs] /\ job'[x] = s
         /\ \A y \in Tasks \ {x} : job'[y] = job[y]
  OBVIOUS

LEMMA AtJob == \A x \in Tasks : At(x) = Of(job[x]) /\ At(x)' = Of(job'[x])
  BY DEF At, Of, KeyAt, GroupAt

(* A job is away from the pairs it is not at. *)
Away(j, p) ==
    /\ ~Pending(j, p) /\ ~Condemned(j, p)
    /\ j.pair = p => j.at \notin {"write", "expire", "record", "erase", "eraseLapsed"}
    /\ j.op = "add" => j.pair # p
    /\ j.op = "delete" => p[2] # j.pair[2]
    /\ j.at \in Listing \/ j.op = "load" => p[1] # j.pair[1]

LEMMA NotAt ==
  ASSUME NEW x, NEW j \in Jobs, Shape(x, j), NEW p \in Pairs, p \notin Of(j)
  PROVE  Away(j, p)
  <1> USE DEF Lifting, Listing, Visiting
  <1>1. /\ p[1] \in Keys /\ p[2] \in Groups /\ p = <<p[1], p[2]>>
        /\ j.op \in {"none", "add", "remove", "ban", "create", "delete", "list", "login", "load",
                     "sweepBans", "sweep"}
        /\ j.pair \in Pairs
    BY PairParts DEF Jobs
  <1>2. CASE j.at \in {"idle", "scan"}
    BY <1>1, <1>2 DEF Away, Pending, Condemned, Shape
  <1>3. CASE j.at \notin {"idle", "scan"} /\ j.op \in {"list", "login", "load"}
    <2>1. p[1] # j.pair[1]
      BY <1>1, <1>3 DEF Of
    <2> QED
      BY <1>1, <1>3, <2>1 DEF Away, Pending, Condemned, Shape
  <1>4. CASE j.at \notin {"idle", "scan"} /\ j.op = "delete"
    <2>1. p[2] # j.pair[2]
      BY <1>1, <1>4 DEF Of
    <2> QED
      BY <1>1, <1>4, <2>1 DEF Away, Pending, Condemned, Shape
  <1>5. CASE j.at \notin {"idle", "scan"} /\ j.op \notin {"list", "login", "load", "delete"}
    <2>1. p # j.pair /\ p \notin j.drop /\ p \notin j.mirror
      BY <1>5 DEF Of
    <2> QED
      BY <1>1, <1>5, <2>1 DEF Away, Pending, Condemned, Shape
  <1> QED
    BY <1>2, <1>3, <1>4, <1>5

LEMMA DropAt ==
  ASSUME NEW x, NEW j \in Jobs, Shape(x, j), NEW p \in j.drop
  PROVE  p \in Pairs /\ p \in Of(j)
  <1>1. p \in Pairs
    BY JobFields
  <1> QED
    BY <1>1, NotAt DEF Away, Pending

(* The store and the decision about a pair are left as they are. *)
Same(p) ==
    /\ Held(p)' = Held(p) /\ expiry'[p] = expiry[p] /\ want'[p] = want[p]
    /\ Recorded(p)' = Recorded(p) /\ (Recorded(p) => banEnd'[p[1]] = banEnd[p[1]])
    /\ p[2] \in exists => p[2] \in exists'

(* x goes on as s; it changes only what it is at, and is right about it    *)
(* afterwards.                                                             *)
Moves(x, s) == /\ job' \in [Tasks -> Jobs] /\ s \in Jobs /\ job'[x] = s
               /\ \A z \in Tasks \ {x} : job'[z] = job[z]
Local(x, s) == \A p \in Pairs : /\ p \notin Of(job[x]) /\ p \notin Of(s) => Same(p)
                                /\ Good(job[x], p) => Good(s, p)'

Clocked == now \in Nat /\ now' \in Nat /\ now <= now' /\ \A p \in Pairs : want[p].until \in Nat

LEMMA KeptSame ==
  ASSUME NEW p \in Pairs, Clocked, Same(p)
  PROVE  /\ InForce(p)' => InForce(p)
         /\ Kept(p) => Kept(p)'
  BY DEF Clocked, Same, InForce, Ended, Kept, Stands

LEMMA GoodSame ==
  ASSUME NEW p \in Pairs, NEW j, Clocked, Same(p), Good(j, p)
  PROVE  Good(j, p)'
  <1>1. (InForce(p)' => InForce(p)) /\ (Kept(p) => Kept(p)')
    BY KeptSame
  <1>2. Duty(j, p)'
    BY <1>1 DEF Good, Duty, Same, Condemned, Of
  <1>3. Pending(j, p)' = Pending(j, p)
    BY DEF Pending
  <1> QED
    BY <1>1, <1>2, <1>3 DEF Good, Same

LEMMA PairMove ==
  ASSUME job \in [Tasks -> Jobs], \A z \in Tasks : Shape(z, job[z]), Contended \subseteq disputed, PairInv,
         NEW x \in Tasks, NEW s, Moves(x, s), Shape(x, s), disputed \subseteq disputed', Clocked, Local(x, s)
  PROVE  PairInv'
  <1>0. \A z \in Tasks \ {x} : At(z)' = At(z) /\ At(z) = Of(job[z])
    BY AtJob DEF Moves
  <1>1. At(x) = Of(job[x]) /\ At(x)' = Of(s) /\ s \in Jobs /\ job'[x] = s
    BY AtJob DEF Moves
  <1> SUFFICES ASSUME NEW p \in Pairs \ disputed', NEW z \in Tasks, Alone(z, p)'
               PROVE  Good(job[z], p)'
    BY DEF PairInv
  <1>2. CASE z = x
    <2>1. Alone(x, p)
      BY <1>0, <1>2 DEF Alone
    <2>2. Good(s, p)'
      BY <2>1 DEF PairInv, Local
    <2> QED
      BY <1>1, <1>2, <2>2 DEF Good, Duty, Pending, Condemned, Of
  <1>3. CASE z # x /\ p \notin At(x)
    <2>1. p \notin At(x)' /\ Alone(z, p)
      BY <1>0, <1>3 DEF Alone
    <2>2. Same(p) /\ Good(job[z], p)
      BY <1>1, <1>3, <2>1 DEF Local, PairInv
    <2>3. PICK j : j = job[z]
      OBVIOUS
    <2>4. job'[z] = j /\ Good(j, p)
      BY <1>3, <2>2, <2>3 DEF Moves
    <2>5. Good(j, p)'
      BY <2>2, <2>4, GoodSame
    <2> QED
      BY <2>4, <2>5 DEF Good, Duty, Pending, Condemned, Of
  <1>4. CASE z # x /\ p \in At(x)
    <2>1. p \notin Of(s) /\ p \notin Of(job[z])
      BY <1>0, <1>1, <1>4 DEF Alone, Contended
    <2>2. Alone(x, p)
      BY <1>0, <1>4, <2>1 DEF Alone
    <2>3. Good(s, p)'
      BY <2>2 DEF PairInv, Local
    <2>4. ~Pending(s, p)
      BY <1>1, <2>1, NotAt DEF Away
    <2>5. Away(job[z], p) /\ job'[z] = job[z]
      BY <1>4, <2>1, NotAt DEF Moves
    <2> QED
      BY <2>1, <2>3, <2>4, <2>5 DEF Good, Duty, Away, Pending, Condemned, Of
  <1> QED
    BY <1>2, <1>3, <1>4

-----------------------------------------------------------------------------
(* The moves of one task, action by action *)

LEMMA TouchLocal ==
  ASSUME NEW x \in Tasks, NEW s, Clocked, NEW P \in SUBSET Pairs,
         \A p \in Pairs \ P : Same(p) /\ (Good(job[x], p) => Good(s, p)),
         \A p \in P : p \in Of(job[x]) \cup Of(s) /\ (Good(job[x], p) => Good(s, p)')
  PROVE  Local(x, s)
  BY GoodSame DEF Local

LEMMA StillLocal ==
  ASSUME NEW x \in Tasks, NEW s, Clocked, UNCHANGED <<exists, held, expiry, banEnd, want>>,
         \A p \in Pairs : Good(job[x], p) => Good(s, p)
  PROVE  Local(x, s)
  <1>1. \A p \in Pairs : Same(p)
    BY DEF Same, Held, Recorded
  <1> QED
    BY <1>1, GoodSame DEF Local

LEMMA Clocks == ASSUME TypeOK, now' = now PROVE Clocked
  <1>1. \A p \in Pairs : want[p].until \in Time
    BY DEF TypeOK
  <1> QED
    BY <1>1, Constants DEF TypeOK, Clocked, Time

(* A job that is not at a pair yet finds it as it was decided. *)
LEMMA Settles ==
  ASSUME NEW x, NEW j \in Jobs, Shape(x, j), NEW p \in Pairs, p \notin Of(j), Good(j, p)
  PROVE  (want[p].clean => Kept(p)) /\ (Held(p) => p[2] \in exists)
  BY NotAt DEF Away, Good

LEMMA IdleAt == ASSUME NEW x, NEW j, Shape(x, j), j.op = "none" PROVE Of(j) = {}
  BY DEF Shape, Of

LEMMA Started ==
  ASSUME NEW o \in {"add", "remove", "ban", "create", "delete", "list", "login", "sweepBans", "sweep"},
         NEW a \in {"write", "drop", "unban", "groups", "read", "insert"}, NEW p \in Pairs
  PROVE  LET s == Start(o, a, p) IN
         /\ s \in Jobs /\ s.op = o /\ s.at = a /\ s.pair = p /\ s.clock = 0 /\ s.until = 0 /\ s.drop = {}
         /\ s.todo = {} /\ s.active = {} /\ s.mirror = {} /\ s.visit = {}
         /\ s.conn \in Conns /\ s.seen = {}
  <1>1. PICK n \in Jobs : n = NoJob
    BY NoJobType
  <1>2. PICK s : s = [n EXCEPT !.op = o, !.at = a, !.pair = p]
    OBVIOUS
  <1>3. /\ n.clock = 0 /\ n.until = 0 /\ n.drop = {} /\ n.todo = {} /\ n.active = {} /\ n.mirror = {}
        /\ n.visit = {} /\ n.conn \in Conns /\ n.seen = {}
    BY <1>1, NoJobType
  <1>4. /\ s \in Jobs /\ s.op = o /\ s.at = a /\ s.pair = p /\ s.clock = 0 /\ s.until = 0 /\ s.drop = {}
        /\ s.todo = {} /\ s.active = {} /\ s.mirror = {} /\ s.visit = {}
        /\ s.conn \in Conns /\ s.seen = {}
    BY <1>2, <1>3 DEF Jobs
  <1>5. Start(o, a, p) = s
    BY <1>1, <1>2 DEF Start
  <1> QED
    BY <1>4, <1>5

(* What of a job a move leaves alone *)
SameTask(s, j) == s.op = j.op /\ s.clock = j.clock /\ s.until = j.until
SameLists(s, j) == s.drop = j.drop /\ s.mirror = j.mirror
SameActive(s, j) == s.todo = j.todo /\ s.active = j.active
SameVisit(s, j) == s.visit = j.visit /\ s.conn = j.conn /\ s.seen = j.seen

Steps == {"idle", "write", "expire", "record", "kick", "drop", "erase", "unban", "unhold", "groups",
          "expiries", "dropLapsed", "eraseLapsed", "enter", "mirror", "read", "cache", "insert",
          "unlist", "scan"}

LEMMA GotoMoves ==
  ASSUME TypeOK, NEW x \in Tasks, NEW a \in Steps, Goto(x, a)
  PROVE  \E s \in Jobs : /\ Moves(x, s) /\ s.at = a /\ s.pair = job[x].pair /\ SameTask(s, job[x])
                         /\ SameLists(s, job[x]) /\ SameActive(s, job[x]) /\ SameVisit(s, job[x])
  <1>1. job[x] \in Jobs /\ job \in [Tasks -> Jobs]
    BY DEF TypeOK
  <1>2. PICK s : s = [job[x] EXCEPT !.at = a]
    OBVIOUS
  <1>3. /\ s \in Jobs /\ s.at = a /\ s.pair = job[x].pair /\ SameTask(s, job[x])
        /\ SameLists(s, job[x]) /\ SameActive(s, job[x]) /\ SameVisit(s, job[x])
    BY <1>1, <1>2 DEF Jobs, Steps, SameTask, SameLists, SameActive, SameVisit
  <1>4. Moves(x, s)
    BY <1>1, <1>2, <1>3, JobUpdate DEF Goto, Moves
  <1> QED
    BY <1>3, <1>4

LEMMA DoneMoves == ASSUME TypeOK, NEW x \in Tasks, Done(x) PROVE Moves(x, NoJob)
  BY JobUpdate, NoJobType DEF Done, Moves, TypeOK

LEMMA DropHeldMoves ==
  ASSUME TypeOK, NEW x \in Tasks, DropHeld(x)
  PROVE  \E s \in Jobs, p \in job[x].drop :
            /\ held' = [held EXCEPT ![p[1]] = held[p[1]] \ {p[2]}]
            /\ Moves(x, s) /\ s.at = "erase" /\ s.pair = p /\ SameTask(s, job[x])
            /\ s.drop = job[x].drop \ {p} /\ s.mirror = job[x].mirror
            /\ SameActive(s, job[x]) /\ SameVisit(s, job[x])
  <1>1. job[x] \in Jobs /\ job \in [Tasks -> Jobs]
    BY DEF TypeOK
  <1>2. PICK p \in job[x].drop :
          /\ held' = [held EXCEPT ![p[1]] = held[p[1]] \ {p[2]}]
          /\ job' = [job EXCEPT ![x].drop = job[x].drop \ {p}, ![x].pair = p, ![x].at = "erase"]
    BY DEF DropHeld
  <1>3. PICK q : q = job[x].drop \ {p}
    OBVIOUS
  <1>4. q \subseteq Pairs /\ p \in Pairs
    BY <1>1, <1>3, JobFields
  <1>5. PICK s : s = [job[x] EXCEPT !.drop = q, !.pair = p, !.at = "erase"]
    OBVIOUS
  <1>6. /\ s \in Jobs /\ s.at = "erase" /\ s.pair = p /\ SameTask(s, job[x])
        /\ s.drop = q /\ s.mirror = job[x].mirror /\ SameActive(s, job[x]) /\ SameVisit(s, job[x])
    BY <1>1, <1>4, <1>5 DEF Jobs, SameTask, SameActive, SameVisit
  <1>7. Moves(x, s)
    BY <1>1, <1>2, <1>3, <1>5, <1>6, JobUpdate DEF Moves
  <1> QED
    BY <1>2, <1>3, <1>6, <1>7

LEMMA DropBanMoves ==
  ASSUME TypeOK, NEW x \in Tasks, DropBan(x)
  PROVE  \E s \in Jobs, p \in job[x].drop :
            /\ banEnd' = [k \in DOMAIN banEnd \ {p[1]} |-> banEnd[k]] /\ Moves(x, s)
            /\ s.at = "unhold" /\ s.pair = p /\ SameTask(s, job[x])
            /\ s.drop = job[x].drop \ {p} /\ s.mirror = job[x].mirror /\ SameActive(s, job[x])
            /\ SameVisit(s, job[x])
  <1>1. job[x] \in Jobs /\ job \in [Tasks -> Jobs]
    BY DEF TypeOK
  <1>2. PICK p \in job[x].drop :
          /\ banEnd' = [k \in DOMAIN banEnd \ {p[1]} |-> banEnd[k]]
          /\ job' = [job EXCEPT ![x].drop = job[x].drop \ {p}, ![x].pair = p, ![x].at = "unhold"]
    BY DEF DropBan
  <1>3. PICK q : q = job[x].drop \ {p}
    OBVIOUS
  <1>4. q \subseteq Pairs /\ p \in Pairs
    BY <1>1, <1>2, <1>3, JobFields, PairParts, Constants
  <1>5. PICK s : s = [job[x] EXCEPT !.drop = q, !.pair = p, !.at = "unhold"]
    OBVIOUS
  <1>6. /\ s \in Jobs /\ s.at = "unhold" /\ s.pair = p /\ SameTask(s, job[x]) /\ s.drop = q
        /\ s.mirror = job[x].mirror /\ SameActive(s, job[x]) /\ SameVisit(s, job[x])
    BY <1>1, <1>4, <1>5 DEF Jobs, SameTask, SameLists, SameActive, SameVisit
  <1>7. Moves(x, s)
    BY <1>1, <1>2, <1>3, <1>5, <1>6, JobUpdate DEF Moves
  <1> QED
    BY <1>2, <1>3, <1>6, <1>7

LEMMA MirrorNextMoves ==
  ASSUME TypeOK, NEW x \in Tasks, MirrorNext(x)
  PROVE  \E s \in Jobs, p \in job[x].mirror :
            /\ Moves(x, s) /\ s.at = "read" /\ s.pair = p /\ SameTask(s, job[x])
            /\ s.drop = job[x].drop /\ s.mirror = job[x].mirror \ {p} /\ SameActive(s, job[x])
            /\ s.visit = Connected /\ s.conn = job[x].conn /\ s.seen = job[x].seen
  <1>1. job[x] \in Jobs /\ job \in [Tasks -> Jobs]
    BY DEF TypeOK
  <1>2. PICK p \in job[x].mirror :
          /\ job' = [job EXCEPT ![x].mirror = job[x].mirror \ {p}, ![x].pair = p, ![x].visit = Connected, ![x].at = "read"]
    BY DEF MirrorNext
  <1>3. PICK q : q = job[x].mirror \ {p}
    OBVIOUS
  <1>4. PICK v : v = Connected
    OBVIOUS
  <1>5. q \subseteq Pairs /\ p \in Pairs /\ v \subseteq Conns
    BY <1>1, <1>2, <1>3, <1>4, JobFields, PairParts, Constants DEF Connected
  <1>6. PICK s : s = [job[x] EXCEPT !.mirror = q, !.pair = p, !.visit = v, !.at = "read"]
    OBVIOUS
  <1>7. /\ s \in Jobs /\ s.at = "read" /\ s.pair = p /\ SameTask(s, job[x])
        /\ s.drop = job[x].drop /\ s.mirror = q /\ SameActive(s, job[x]) /\ s.visit = v
        /\ s.conn = job[x].conn /\ s.seen = job[x].seen
    BY <1>1, <1>5, <1>6 DEF Jobs, SameTask, SameLists, SameActive, SameVisit
  <1>8. Moves(x, s)
    BY <1>1, <1>2, <1>3, <1>4, <1>6, <1>7, JobUpdate DEF Moves
  <1> QED
    BY <1>2, <1>3, <1>4, <1>7, <1>8

LEMMA MirrorWriteMoves ==
  ASSUME TypeOK, NEW x \in Tasks, MirrorWrite(x)
  PROVE  \E s \in Jobs :
            /\ Moves(x, s) /\ s.at = "read" /\ s.pair = job[x].pair /\ SameTask(s, job[x])
            /\ SameLists(s, job[x]) /\ SameActive(s, job[x]) /\ s.visit = job[x].visit
            /\ s.conn = job[x].conn /\ s.seen = {}
  <1>1. job[x] \in Jobs /\ job \in [Tasks -> Jobs]
    BY DEF TypeOK
  <1>2. job' = [job EXCEPT ![x].seen = {}, ![x].at = "read"]
    BY DEF MirrorWrite
  <1>3. PICK s : s = [job[x] EXCEPT !.seen = {}, !.at = "read"]
    OBVIOUS
  <1>4. /\ s \in Jobs /\ s.at = "read" /\ s.pair = job[x].pair /\ SameTask(s, job[x])
        /\ SameLists(s, job[x]) /\ SameActive(s, job[x]) /\ s.visit = job[x].visit
        /\ s.conn = job[x].conn /\ s.seen = {}
    BY <1>1, <1>3 DEF Jobs, SameTask, SameLists, SameActive, SameVisit
  <1>5. Moves(x, s)
    BY <1>1, <1>2, <1>3, <1>4, JobUpdate DEF Moves
  <1> QED
    BY <1>2, <1>4, <1>5

LEMMA ActiveListMoves ==
  ASSUME TypeOK, NEW x \in Tasks, ActiveList(x)
  PROVE  \E s \in Jobs :
            /\ Moves(x, s) /\ s.at = "expiries" /\ s.pair = job[x].pair /\ SameTask(s, job[x])
            /\ SameLists(s, job[x]) /\ s.todo = held[KeyAt(x)] /\ s.active = {}
            /\ SameVisit(s, job[x])
  <1>1. job[x] \in Jobs /\ job \in [Tasks -> Jobs]
    BY DEF TypeOK
  <1>2. job' = [job EXCEPT ![x].todo = held[KeyAt(x)], ![x].active = {}, ![x].at = "expiries"]
    BY DEF ActiveList
  <1>3. PICK t : t = held[KeyAt(x)]
    OBVIOUS
  <1>4. t \subseteq Groups
    BY <1>1, <1>2, <1>3, JobFields, PairParts, Constants DEF TypeOK, KeyAt
  <1>5. PICK s : s = [job[x] EXCEPT !.todo = t, !.active = {}, !.at = "expiries"]
    OBVIOUS
  <1>6. /\ s \in Jobs /\ s.at = "expiries" /\ s.pair = job[x].pair /\ SameTask(s, job[x])
        /\ SameLists(s, job[x]) /\ s.todo = t /\ s.active = {} /\ SameVisit(s, job[x])
    BY <1>1, <1>4, <1>5 DEF Jobs, SameTask, SameLists, SameActive, SameVisit
  <1>7. Moves(x, s)
    BY <1>1, <1>2, <1>3, <1>5, <1>6, JobUpdate DEF Moves
  <1> QED
    BY <1>2, <1>3, <1>6, <1>7

(* How a job goes on when one removal is done, or there is none: s is what *)
(* becomes of j.                                                           *)
Ends(j) == j.drop = {} /\ j.mirror = {} /\ j.op \notin {"login", "sweepBans", "delete"}
OnTo(j) == IF j.drop # {} THEN IF j.op \in {"login", "sweepBans"} THEN "unban" ELSE "drop"
           ELSE IF j.op = "login" THEN "groups"
           ELSE IF j.op = "sweepBans" THEN "scan"
           ELSE IF j.op = "delete" THEN "unlist" ELSE "mirror"
Onward(s, j) ==
    \/ s = NoJob /\ Ends(j)
    \/ /\ s.pair = j.pair /\ SameTask(s, j) /\ SameLists(s, j) /\ SameActive(s, j) /\ SameVisit(s, j)
       /\ s.at = OnTo(j) /\ ~Ends(j)

LEMMA AfterDropsIs ==
  ASSUME NEW j \in Jobs
  PROVE  \E s \in Jobs : s = AfterDrops(j) /\ Onward(s, j)
  <1>1. PICK a : a = OnTo(j)
    OBVIOUS
  <1>2. a \in Steps
    BY <1>1 DEF Steps, OnTo
  <1>3. PICK t : t = [j EXCEPT !.at = a]
    OBVIOUS
  <1>4. /\ t \in Jobs /\ t.at = a /\ t.pair = j.pair /\ SameTask(t, j) /\ SameLists(t, j)
        /\ SameActive(t, j) /\ SameVisit(t, j)
    BY <1>2, <1>3 DEF Jobs, Steps, SameTask, SameLists, SameActive, SameVisit
  <1>5. CASE Ends(j)
    BY <1>5, NoJobType DEF AfterDrops, Onward, Ends
  <1>6. CASE ~Ends(j)
    <2>1. AfterDrops(j) = t
      BY <1>1, <1>3, <1>6 DEF AfterDrops, Ends, OnTo
    <2> QED
      BY <1>1, <1>4, <1>6, <2>1 DEF Onward
  <1> QED
    BY <1>5, <1>6

LEMMA DropExpiryMoves ==
  ASSUME TypeOK, NEW x \in Tasks, DropExpiry(x)
  PROVE  \E s \in Jobs : Moves(x, s) /\ Onward(s, job[x])
  <1>1. PICK j \in Jobs : j = job[x]
    BY DEF TypeOK
  <1>2. PICK s \in Jobs : s = AfterDrops(j) /\ Onward(s, j)
    BY AfterDropsIs
  <1>3. Moves(x, s)
    BY <1>1, <1>2, JobUpdate DEF Moves, DropExpiry, TypeOK
  <1> QED
    BY <1>1, <1>2, <1>3

LEMMA MirrorDoneMoves ==
  ASSUME TypeOK, NEW x \in Tasks, MirrorDone(x)
  PROVE  \E s \in Jobs, t \in Jobs :
            /\ Moves(x, s) /\ Onward(s, t) /\ t.pair = job[x].pair /\ SameTask(t, job[x])
            /\ t.drop = IF job[x].op = "delete" THEN Keys \X {job[x].pair[2]} ELSE {}
            /\ t.mirror = job[x].mirror /\ SameActive(t, job[x]) /\ SameVisit(t, job[x])
  <1>1. PICK j \in Jobs : j = job[x]
    BY DEF TypeOK
  <1>2. PICK d : d = IF j.op = "delete" THEN Keys \X {j.pair[2]} ELSE {}
    OBVIOUS
  <1>3. d \subseteq Pairs
    BY <1>2, JobFields, PairParts DEF Pairs
  <1>4. PICK t : t = [j EXCEPT !.drop = d]
    OBVIOUS
  <1>5. /\ t \in Jobs /\ t.pair = j.pair /\ SameTask(t, j) /\ t.drop = d
        /\ t.mirror = j.mirror /\ SameActive(t, j) /\ SameVisit(t, j)
    BY <1>3, <1>4 DEF Jobs, SameTask, SameActive, SameVisit
  <1>6. PICK s \in Jobs : s = AfterDrops(t) /\ Onward(s, t)
    BY <1>5, AfterDropsIs
  <1>7. job' = [job EXCEPT ![x] = s]
    BY <1>1, <1>2, <1>4, <1>6 DEF MirrorDone, GroupAt
  <1>8. Moves(x, s)
    BY <1>6, <1>7, JobUpdate DEF Moves, TypeOK
  <1> QED
    BY <1>1, <1>2, <1>5, <1>6, <1>8

LEMMA MirrorReadMoves ==
  ASSUME TypeOK, NEW x \in Tasks, MirrorRead(x)
  PROVE  \E s \in Jobs, c \in job[x].visit :
            /\ Moves(x, s) /\ s.pair = job[x].pair /\ SameTask(s, job[x]) /\ SameLists(s, job[x])
            /\ SameActive(s, job[x]) /\ s.visit = job[x].visit \ {c} /\ s.conn = c
            /\ IF job[x].op = "delete" \/ (link[c] = "on" /\ KeyOf[c] = KeyAt(x))
               THEN s.at = "cache" /\ s.seen = cache[c] ELSE s.at = "read" /\ s.seen = {}
  <1>1. job[x] \in Jobs /\ job \in [Tasks -> Jobs]
    BY DEF TypeOK
  <1> DEFINE mine(c) == job[x].op = "delete" \/ (link[c] = "on" /\ KeyOf[c] = KeyAt(x))
  <1>2. PICK c \in job[x].visit :
          job' = [job EXCEPT ![x].visit = job[x].visit \ {c}, ![x].conn = c,
                                 ![x].seen = IF mine(c) THEN cache[c] ELSE {},
                                 ![x].at = IF mine(c) THEN "cache" ELSE "read"]
    BY DEF MirrorRead
  <1>3. PICK v, n, a : v = job[x].visit \ {c} /\ n = (IF mine(c) THEN cache[c] ELSE {})
                          /\ a = (IF mine(c) THEN "cache" ELSE "read")
    OBVIOUS
  <1>4. v \subseteq Conns /\ c \in Conns /\ n \subseteq Groups /\ a \in Steps
    BY <1>1, <1>3, JobFields DEF TypeOK, Steps
  <1>5. PICK s : s = [job[x] EXCEPT !.visit = v, !.conn = c, !.seen = n, !.at = a]
    OBVIOUS
  <1>6. /\ s \in Jobs /\ s.pair = job[x].pair /\ SameTask(s, job[x]) /\ SameLists(s, job[x])
        /\ SameActive(s, job[x]) /\ s.visit = v /\ s.conn = c /\ s.seen = n /\ s.at = a
    BY <1>1, <1>4, <1>5 DEF Jobs, Steps, SameTask, SameLists, SameActive
  <1>7. job' = [job EXCEPT ![x] = s]
    BY <1>1, <1>2, <1>3, <1>5
  <1>8. Moves(x, s)
    BY <1>1, <1>6, <1>7, JobUpdate DEF Moves
  <1> QED
    BY <1>3, <1>6, <1>8

LEMMA ActiveExpiryMoves ==
  ASSUME TypeOK, NEW x \in Tasks, ActiveExpiry(x)
  PROVE  \E s \in Jobs, g \in job[x].todo :
            /\ Moves(x, s) /\ s.pair = <<job[x].pair[1], g>> /\ SameTask(s, job[x])
            /\ SameLists(s, job[x]) /\ SameVisit(s, job[x]) /\ s.todo = job[x].todo \ {g}
            /\ IF Past(x, expiry[s.pair])
               THEN s.at = "dropLapsed" /\ s.active = job[x].active
               ELSE s.at = "expiries" /\ s.active = job[x].active \cup {g}
  <1>1. job[x] \in Jobs /\ job \in [Tasks -> Jobs]
    BY DEF TypeOK
  <1>2. PICK g \in job[x].todo :
          job' = [job EXCEPT
                    ![x].todo = job[x].todo \ {g}, ![x].pair = <<KeyAt(x), g>>,
                    ![x].active = IF Past(x, expiry[<<KeyAt(x), g>>]) THEN job[x].active
                                  ELSE job[x].active \cup {g},
                    ![x].at = IF Past(x, expiry[<<KeyAt(x), g>>]) THEN "dropLapsed" ELSE "expiries"]
    BY DEF ActiveExpiry
  <1>3. PICK p, d, t, a :
          /\ p = <<KeyAt(x), g>> /\ d = job[x].todo \ {g}
          /\ t = (IF Past(x, expiry[p]) THEN job[x].active ELSE job[x].active \cup {g})
          /\ a = (IF Past(x, expiry[p]) THEN "dropLapsed" ELSE "expiries")
    OBVIOUS
  <1>4. p \in Pairs /\ d \subseteq Groups /\ t \subseteq Groups /\ a \in Steps
    BY <1>1, <1>3, JobFields, PairParts DEF Steps, KeyAt
  <1>5. PICK s : s = [job[x] EXCEPT !.todo = d, !.pair = p, !.active = t, !.at = a]
    OBVIOUS
  <1>6. /\ s \in Jobs /\ s.pair = p /\ SameTask(s, job[x]) /\ SameLists(s, job[x])
        /\ SameVisit(s, job[x]) /\ s.todo = d /\ s.active = t /\ s.at = a
    BY <1>1, <1>4, <1>5 DEF Jobs, Steps, SameTask, SameLists, SameVisit
  <1>7. job' = [job EXCEPT ![x] = s]
    BY <1>1, <1>2, <1>3, <1>5
  <1>8. Moves(x, s)
    BY <1>1, <1>6, <1>7, JobUpdate DEF Moves
  <1> QED
    BY <1>3, <1>6, <1>8 DEF KeyAt

LEMMA AddExpiryMoves ==
  ASSUME TypeOK, NEW x \in Tasks, AddExpiry(x), job[x].op # "ban"
  PROVE  \E s \in Jobs :
            /\ Moves(x, s) /\ s.at = "mirror" /\ s.pair = job[x].pair /\ s.op = job[x].op
            /\ s.clock = job[x].clock /\ s.until = 0 /\ s.drop = job[x].drop /\ s.mirror = {job[x].pair}
            /\ SameActive(s, job[x]) /\ SameVisit(s, job[x])
  <1>1. job[x] \in Jobs /\ job \in [Tasks -> Jobs]
    BY DEF TypeOK
  <1>2. PICK m : m = {job[x].pair}
    OBVIOUS
  <1>3. m \subseteq Pairs /\ 0 \in Time
    BY <1>1, <1>2, JobFields, Constants DEF Time
  <1>4. PICK s : s = [job[x] EXCEPT !.mirror = m, !.at = "mirror", !.until = 0]
    OBVIOUS
  <1>5. /\ s \in Jobs /\ s.at = "mirror" /\ s.pair = job[x].pair /\ s.op = job[x].op
        /\ s.clock = job[x].clock /\ s.until = 0 /\ s.drop = job[x].drop /\ s.mirror = m
        /\ SameActive(s, job[x]) /\ SameVisit(s, job[x])
    BY <1>1, <1>3, <1>4 DEF Jobs, SameActive, SameVisit
  <1>6. job' = [job EXCEPT ![x] = s]
    BY <1>1, <1>2, <1>4 DEF AddExpiry, Added
  <1>7. Moves(x, s)
    BY <1>1, <1>5, <1>6, JobUpdate DEF Moves
  <1> QED
    BY <1>2, <1>5, <1>7

LEMMA SweepScanMoves ==
  ASSUME TypeOK, NEW x \in Tasks, SweepScan(x)
  PROVE  \E s \in Jobs, t \in Jobs :
            /\ Moves(x, s) /\ Onward(s, t) /\ t.op = "sweep" /\ t.pair = NoJob.pair /\ t.clock = job[x].clock
            /\ t.until = 0 /\ t.drop = {p \in Pairs : Past(x, expiry[p])} /\ t.mirror = t.drop
            /\ t.visit = {}
  <1>1. job[x] \in Jobs /\ job \in [Tasks -> Jobs] /\ job[x].clock \in Time
    BY JobFields DEF TypeOK
  <1>2. PICK d : d = {p \in Pairs : Past(x, expiry[p])}
    OBVIOUS
  <1>3. PICK n \in Pairs : n = NoJob.pair
    BY NoJobType
  <1>4. PICK r \in Jobs : r = Start("sweep", "drop", n) /\ r.op = "sweep" /\ r.pair = n /\ r.until = 0 /\ r.visit = {}
    BY Started
  <1>5. PICK t : t = [r EXCEPT !.clock = job[x].clock, !.drop = d, !.mirror = d]
    OBVIOUS
  <1>6. t \in Jobs /\ t.op = "sweep" /\ t.pair = n /\ t.until = 0 /\ t.visit = {}
        /\ t.clock = job[x].clock /\ t.drop = d /\ t.mirror = d
    <2>1. d \subseteq Pairs
      BY <1>2
    <2> QED
      BY <2>1, <1>1, <1>4, <1>5 DEF Jobs
  <1>7. PICK s \in Jobs : s = AfterDrops(t) /\ Onward(s, t)
    BY <1>6, AfterDropsIs
  <1>8. job' = [job EXCEPT ![x] = s]
    BY <1>2, <1>3, <1>4, <1>5, <1>7 DEF SweepScan, SweepPairs
  <1>9. Moves(x, s)
    BY <1>1, <1>7, <1>8, JobUpdate DEF Moves
  <1> QED
    BY <1>2, <1>3, <1>6, <1>7, <1>9

LEMMA SweepMoves ==
  ASSUME TypeOK, NEW x \in Tasks, Sweep(x)
  PROVE  \E s \in Jobs, t \in Jobs :
            /\ Moves(x, s) /\ Onward(s, t) /\ t.op = "sweepBans" /\ t.pair = NoJob.pair /\ t.clock = now
            /\ t.until = 0 /\ t.drop = BansOver \X {Banned} /\ t.mirror = {}
  <1>1. job \in [Tasks -> Jobs] /\ now \in Time
    BY Constants DEF TypeOK, Time
  <1>2. PICK d : d = BansOver \X {Banned}
    OBVIOUS
  <1>3. PICK n \in Pairs : n = NoJob.pair
    BY NoJobType
  <1>4. PICK r \in Jobs : r = Start("sweepBans", "unban", n) /\ r.op = "sweepBans" /\ r.pair = n
                             /\ r.until = 0 /\ r.mirror = {}
    BY Started
  <1>5. PICK t : t = [r EXCEPT !.clock = now, !.drop = d]
    OBVIOUS
  <1>6. t \in Jobs /\ t.op = "sweepBans" /\ t.pair = n /\ t.until = 0
        /\ t.clock = now /\ t.drop = d /\ t.mirror = {}
    <2>1. d \subseteq Pairs
      BY <1>2, Constants DEF Pairs, BansOver, TypeOK
    <2> QED
      BY <2>1, <1>1, <1>4, <1>5 DEF Jobs
  <1>7. PICK s \in Jobs : s = AfterDrops(t) /\ Onward(s, t)
    BY <1>6, AfterDropsIs
  <1>8. job' = [job EXCEPT ![x] = s]
    BY <1>2, <1>3, <1>4, <1>5, <1>7 DEF Sweep
  <1>9. Moves(x, s)
    BY <1>1, <1>7, <1>8, JobUpdate DEF Moves
  <1> QED
    BY <1>2, <1>3, <1>6, <1>7, <1>9

LEMMA LoginMoves ==
  ASSUME TypeOK, NEW c \in Conns, Login(c)
  PROVE  \E s \in Jobs, t \in Jobs :
            /\ Moves(c, s) /\ Onward(s, t) /\ t.op = "login" /\ t.pair = <<KeyOf[c], Banned>> /\ t.clock = now
            /\ t.until = 0 /\ t.drop = (BansOver \cap {KeyOf[c]}) \X {Banned} /\ t.mirror = {}
  <1>1. job \in [Tasks -> Jobs] /\ now \in Time /\ c \in Tasks
    BY Constants DEF TypeOK, Time
  <1>2. PICK d : d = (BansOver \cap {KeyOf[c]}) \X {Banned}
    OBVIOUS
  <1>3. PICK n \in Pairs : n = <<KeyOf[c], Banned>>
    BY Constants, PairParts
  <1>4. PICK r \in Jobs : r = Start("login", "unban", n) /\ r.op = "login" /\ r.pair = n
                             /\ r.until = 0 /\ r.mirror = {}
    BY Started
  <1>5. PICK t : t = [r EXCEPT !.clock = now, !.drop = d]
    OBVIOUS
  <1>6. t \in Jobs /\ t.op = "login" /\ t.pair = n /\ t.until = 0
        /\ t.clock = now /\ t.drop = d /\ t.mirror = {}
    <2>1. d \subseteq Pairs
      BY <1>2, Constants DEF Pairs, BansOver, TypeOK
    <2> QED
      BY <2>1, <1>1, <1>4, <1>5 DEF Jobs
  <1>7. PICK s \in Jobs : s = AfterDrops(t) /\ Onward(s, t)
    BY <1>6, AfterDropsIs
  <1>8. job' = [job EXCEPT ![c] = s]
    BY <1>2, <1>3, <1>4, <1>5, <1>7 DEF Login
  <1>9. Moves(c, s)
    BY <1>1, <1>7, <1>8, JobUpdate DEF Moves
  <1> QED
    BY <1>2, <1>3, <1>6, <1>7, <1>9

LEMMA LoginGoesOn ==
  ASSUME TypeOK, NEW c \in Conns, job' = [job EXCEPT ![c].op = "load", ![c].at = "groups", ![c].clock = now]
  PROVE  \E s \in Jobs :
            /\ Moves(c, s) /\ s.op = "load" /\ s.at = "groups" /\ s.clock = now /\ s.pair = job[c].pair
            /\ s.until = job[c].until /\ SameLists(s, job[c]) /\ SameActive(s, job[c]) /\ SameVisit(s, job[c])
  <1>1. job[c] \in Jobs /\ job \in [Tasks -> Jobs] /\ now \in Time /\ c \in Tasks
    BY Constants DEF TypeOK, Time
  <1>2. PICK s : s = [job[c] EXCEPT !.op = "load", !.at = "groups", !.clock = now]
    OBVIOUS
  <1>3. /\ s \in Jobs /\ s.op = "load" /\ s.at = "groups" /\ s.clock = now /\ s.pair = job[c].pair
        /\ s.until = job[c].until /\ SameLists(s, job[c]) /\ SameActive(s, job[c]) /\ SameVisit(s, job[c])
    BY <1>1, <1>2 DEF Jobs, SameLists, SameActive, SameVisit
  <1>4. Moves(c, s)
    BY <1>1, <1>2, <1>3, JobUpdate DEF Moves
  <1> QED
    BY <1>3, <1>4

(* A job as an admin starts it *)
Fresh(s, o, a, p) == s.op = o /\ s.at = a /\ s.pair = p /\ s.todo = {} /\ s.active = {} /\ s.seen = {}

LEMMA ListRegisteredMoves ==
  ASSUME TypeOK, NEW x \in Tasks, NEW k \in Keys, ListRegistered(x, k)
  PROVE  \E s \in Jobs :
            /\ Moves(x, s) /\ Fresh(s, "list", "groups", <<k, Banned>>)
            /\ s.clock = now /\ s.until = 0 /\ s.drop = {} /\ s.mirror = {} /\ s.visit = {}
  <1>1. job \in [Tasks -> Jobs] /\ now \in Time
    BY JobFields, Constants DEF TypeOK, Time, Connected
  <1>2. PICK q \in Pairs : q = <<k, Banned>>
    BY <1>1, JobFields, PairParts, Constants
  <1>3. PICK r \in Jobs : /\ r = Start("list", "groups", q) /\ Fresh(r, "list", "groups", q)
                          /\ r.until = 0 /\ r.drop = {} /\ r.mirror = {} /\ r.visit = {}
    BY Started DEF Fresh
  <1>4. PICK s : s = [r EXCEPT !.clock = now]
    OBVIOUS
  <1>5. s \in Jobs /\ Fresh(s, "list", "groups", q) /\ s.clock = now /\ s.until = 0 /\ s.drop = {} /\ s.mirror = {} /\ s.visit = {}
    BY <1>1, <1>3, <1>4 DEF Jobs, Fresh
  <1>6. job' = [job EXCEPT ![x] = s]
    BY <1>2, <1>3, <1>4 DEF ListRegistered
  <1>7. Moves(x, s)
    BY <1>1, <1>5, <1>6, JobUpdate DEF Moves
  <1> QED
    BY <1>2, <1>5, <1>7

LEMMA AddUserGroupMoves ==
  ASSUME TypeOK, NEW x \in Tasks, NEW k \in Keys, NEW g \in Groups, NEW u \in Time, AddUserGroup(x, k, g, u)
  PROVE  \E s \in Jobs :
            /\ Moves(x, s) /\ Fresh(s, "add", "write", <<k, g>>)
            /\ s.clock = 0 /\ s.until = u /\ s.drop = {} /\ s.mirror = {} /\ s.visit = {}
  <1>1. job \in [Tasks -> Jobs] /\ u \in Time
    BY JobFields, Constants DEF TypeOK, Time, Connected
  <1>2. PICK q \in Pairs : q = <<k, g>>
    BY <1>1, JobFields, PairParts, Constants
  <1>3. PICK r \in Jobs : /\ r = Start("add", "write", q) /\ Fresh(r, "add", "write", q)
                          /\ r.clock = 0 /\ r.drop = {} /\ r.mirror = {} /\ r.visit = {}
    BY Started DEF Fresh
  <1>4. PICK s : s = [r EXCEPT !.until = u]
    OBVIOUS
  <1>5. s \in Jobs /\ Fresh(s, "add", "write", q) /\ s.clock = 0 /\ s.until = u /\ s.drop = {} /\ s.mirror = {} /\ s.visit = {}
    BY <1>1, <1>3, <1>4 DEF Jobs, Fresh
  <1>6. job' = [job EXCEPT ![x] = s]
    BY <1>2, <1>3, <1>4 DEF AddUserGroup
  <1>7. Moves(x, s)
    BY <1>1, <1>5, <1>6, JobUpdate DEF Moves
  <1> QED
    BY <1>2, <1>5, <1>7

LEMMA RemoveUserGroupMoves ==
  ASSUME TypeOK, NEW x \in Tasks, NEW k \in Keys, NEW g \in Groups, RemoveUserGroup(x, k, g)
  PROVE  \E s \in Jobs :
            /\ Moves(x, s) /\ Fresh(s, "remove", "drop", <<k, g>>)
            /\ s.clock = 0 /\ s.until = 0 /\ s.drop = {<<k, g>>} /\ s.mirror = {<<k, g>>} /\ s.visit = {}
  <1>1. job \in [Tasks -> Jobs]
    BY JobFields, Constants DEF TypeOK, Time, Connected
  <1>2. PICK q \in Pairs : q = <<k, g>>
    BY <1>1, JobFields, PairParts, Constants
  <1>3. PICK r \in Jobs : /\ r = Start("remove", "drop", q) /\ Fresh(r, "remove", "drop", q)
                          /\ r.clock = 0 /\ r.until = 0 /\ r.visit = {}
    BY Started DEF Fresh
  <1>4. PICK s : s = [r EXCEPT !.drop = {q}, !.mirror = {q}]
    OBVIOUS
  <1>5. s \in Jobs /\ Fresh(s, "remove", "drop", q) /\ s.clock = 0 /\ s.until = 0 /\ s.drop = {q} /\ s.mirror = {q} /\ s.visit = {}
    BY <1>1, <1>3, <1>4 DEF Jobs, Fresh
  <1>6. job' = [job EXCEPT ![x] = s]
    BY <1>2, <1>3, <1>4 DEF RemoveUserGroup
  <1>7. Moves(x, s)
    BY <1>1, <1>5, <1>6, JobUpdate DEF Moves
  <1> QED
    BY <1>2, <1>5, <1>7

LEMMA BanUserMoves ==
  ASSUME TypeOK, NEW x \in Tasks, NEW c \in Conns, BanUser(x, c)
  PROVE  \E s \in Jobs :
            /\ Moves(x, s) /\ Fresh(s, "ban", "write", <<KeyOf[c], Banned>>)
            /\ s.clock = 0 /\ s.until = 0 /\ s.drop = {} /\ s.mirror = {} /\ s.visit = {} /\ s.conn = c
  <1>1. job \in [Tasks -> Jobs]
    BY JobFields, Constants DEF TypeOK, Time, Connected
  <1>2. PICK q \in Pairs : q = <<KeyOf[c], Banned>>
    BY <1>1, JobFields, PairParts, Constants
  <1>3. PICK r \in Jobs : /\ r = Start("ban", "write", q) /\ Fresh(r, "ban", "write", q)
                          /\ r.clock = 0 /\ r.until = 0 /\ r.drop = {} /\ r.mirror = {} /\ r.visit = {}
    BY Started DEF Fresh
  <1>4. PICK s : s = [r EXCEPT !.conn = c]
    OBVIOUS
  <1>5. s \in Jobs /\ Fresh(s, "ban", "write", q) /\ s.clock = 0 /\ s.until = 0 /\ s.drop = {} /\ s.mirror = {} /\ s.visit = {} /\ s.conn = c
    BY <1>1, <1>3, <1>4 DEF Jobs, Fresh
  <1>6. job' = [job EXCEPT ![x] = s]
    BY <1>2, <1>3, <1>4 DEF BanUser
  <1>7. Moves(x, s)
    BY <1>1, <1>5, <1>6, JobUpdate DEF Moves
  <1> QED
    BY <1>2, <1>5, <1>7

LEMMA CreateGroupMoves ==
  ASSUME TypeOK, NEW x \in Tasks, NEW g \in Groups, CreateGroup(x, g)
  PROVE  \E s \in Jobs :
            /\ Moves(x, s) /\ Fresh(s, "create", "insert", <<job[x].pair[1], g>>)
            /\ s.clock = 0 /\ s.until = 0 /\ s.drop = {} /\ s.mirror = {} /\ s.visit = {}
  <1>1. job \in [Tasks -> Jobs] /\ job[x] \in Jobs
    BY JobFields, Constants DEF TypeOK, Time, Connected
  <1>2. PICK q \in Pairs : q = <<job[x].pair[1], g>>
    BY <1>1, JobFields, PairParts, Constants
  <1>3. PICK r \in Jobs : /\ r = Start("create", "insert", q) /\ Fresh(r, "create", "insert", q)
                          /\ r.clock = 0 /\ r.until = 0 /\ r.drop = {} /\ r.mirror = {} /\ r.visit = {}
    BY Started DEF Fresh
  <1>4. PICK s : s = r
    OBVIOUS
  <1>5. s \in Jobs /\ Fresh(s, "create", "insert", q) /\ s.clock = 0 /\ s.until = 0 /\ s.drop = {} /\ s.mirror = {} /\ s.visit = {}
    BY <1>1, <1>3, <1>4 DEF Jobs, Fresh
  <1>6. job' = [job EXCEPT ![x] = s]
    BY <1>2, <1>3, <1>4 DEF CreateGroup, KeyAt
  <1>7. Moves(x, s)
    BY <1>1, <1>5, <1>6, JobUpdate DEF Moves
  <1> QED
    BY <1>2, <1>5, <1>7

LEMMA DeleteGroupMoves ==
  ASSUME TypeOK, NEW x \in Tasks, NEW g \in Groups, DeleteGroup(x, g)
  PROVE  \E s \in Jobs :
            /\ Moves(x, s) /\ Fresh(s, "delete", "read", <<job[x].pair[1], g>>)
            /\ s.clock = 0 /\ s.until = 0 /\ s.drop = {} /\ s.mirror = {} /\ s.visit = Connected
  <1>1. job \in [Tasks -> Jobs] /\ job[x] \in Jobs /\ Connected \subseteq Conns
    BY JobFields, Constants DEF TypeOK, Time, Connected
  <1>2. PICK q \in Pairs : q = <<job[x].pair[1], g>>
    BY <1>1, JobFields, PairParts, Constants
  <1>3. PICK r \in Jobs : /\ r = Start("delete", "read", q) /\ Fresh(r, "delete", "read", q)
                          /\ r.clock = 0 /\ r.until = 0 /\ r.drop = {} /\ r.mirror = {}
    BY Started DEF Fresh
  <1>4. PICK s : s = [r EXCEPT !.visit = Connected]
    OBVIOUS
  <1>5. s \in Jobs /\ Fresh(s, "delete", "read", q) /\ s.clock = 0 /\ s.until = 0 /\ s.drop = {} /\ s.mirror = {} /\ s.visit = Connected
    BY <1>1, <1>3, <1>4 DEF Jobs, Fresh
  <1>6. job' = [job EXCEPT ![x] = s]
    BY <1>2, <1>3, <1>4 DEF DeleteGroup, KeyAt
  <1>7. Moves(x, s)
    BY <1>1, <1>5, <1>6, JobUpdate DEF Moves
  <1> QED
    BY <1>2, <1>5, <1>7

-----------------------------------------------------------------------------
(* Every step leaves its job in shape, and right about the pairs it is at. *)
Right(x) == \E s : Moves(x, s) /\ Shape(x, s) /\ Local(x, s)

LEMMA StillRight ==
  ASSUME TypeOK, NEW x \in Tasks, NEW s, Moves(x, s), Shape(x, s),
         UNCHANGED <<now, exists, held, expiry, banEnd, want>>,
         \A p \in Pairs : Good(job[x], p) => Good(s, p)
  PROVE  Right(x)
  BY Clocks, StillLocal DEF Right

LEMMA MirrorNextRight ==
  ASSUME TypeOK, NEW x \in Tasks, Shape(x, job[x]), MirrorNext(x)
  PROVE  Right(x)
  <1>1. PICK s \in Jobs, p \in job[x].mirror :
            /\ Moves(x, s) /\ s.at = "read" /\ s.pair = p /\ SameTask(s, job[x])
            /\ s.drop = job[x].drop /\ s.mirror = job[x].mirror \ {p} /\ SameActive(s, job[x])
    BY MirrorNextMoves
  <1>2. job[x] \in Jobs /\ job[x].at = "mirror" /\ UNCHANGED <<now, exists, held, expiry, banEnd, want>>
    BY DEF TypeOK, MirrorNext, store
  <1>3. job[x].op \in {"add", "remove", "sweep"}
    BY <1>2 DEF Shape, Jobs, Lifting, Listing, Visiting
  <1>4. Shape(x, s)
    BY <1>1, <1>2, <1>3 DEF Shape, SameTask, Visiting
  <1>5. ASSUME NEW r \in Pairs, Good(job[x], r) PROVE Good(s, r)
    BY <1>1, <1>2, <1>3, <1>5
    DEF Good, Duty, Pending, Condemned, Of, Shape, SameTask, SameActive, Listing, Visiting
  <1> QED
    BY <1>1, <1>2, <1>4, <1>5, StillRight

LEMMA MirrorReadRight ==
  ASSUME TypeOK, NEW x \in Tasks, Shape(x, job[x]), MirrorRead(x)
  PROVE  Right(x)
  <1>1. PICK s \in Jobs :
            /\ Moves(x, s) /\ s.at \in Visiting /\ s.pair = job[x].pair /\ SameTask(s, job[x])
            /\ SameLists(s, job[x]) /\ SameActive(s, job[x])
    BY MirrorReadMoves DEF Visiting
  <1>2. job[x] \in Jobs /\ job[x].at = "read" /\ UNCHANGED <<now, exists, held, expiry, banEnd, want>>
    BY DEF TypeOK, MirrorRead, store
  <1>3. job[x].op \in {"add", "remove", "delete", "sweep"}
    BY <1>2 DEF Shape, Jobs, Lifting, Listing, Visiting
  <1>4. Shape(x, s)
    BY <1>1, <1>2, <1>3 DEF Shape, SameTask, SameLists, Visiting
  <1>5. ASSUME NEW r \in Pairs, Good(job[x], r) PROVE Good(s, r)
    BY <1>1, <1>2, <1>3, <1>5
    DEF Good, Duty, Pending, Condemned, Of, Shape, SameTask, SameLists, SameActive, Listing, Visiting
  <1> QED
    BY <1>1, <1>2, <1>4, <1>5, StillRight

LEMMA MirrorWriteRight ==
  ASSUME TypeOK, NEW x \in Tasks, Shape(x, job[x]), MirrorWrite(x)
  PROVE  Right(x)
  <1>1. PICK s \in Jobs :
            /\ Moves(x, s) /\ s.at = "read" /\ s.pair = job[x].pair /\ SameTask(s, job[x])
            /\ SameLists(s, job[x]) /\ SameActive(s, job[x])
    BY MirrorWriteMoves
  <1>2. job[x] \in Jobs /\ job[x].at = "cache" /\ UNCHANGED <<now, exists, held, expiry, banEnd, want>>
    BY DEF TypeOK, MirrorWrite, store
  <1>3. job[x].op \in {"add", "remove", "delete", "sweep"}
    BY <1>2 DEF Shape, Jobs, Lifting, Listing, Visiting
  <1>4. Shape(x, s)
    BY <1>1, <1>2, <1>3 DEF Shape, SameTask, SameLists, Visiting
  <1>5. ASSUME NEW r \in Pairs, Good(job[x], r) PROVE Good(s, r)
    BY <1>1, <1>2, <1>3, <1>5
    DEF Good, Duty, Pending, Condemned, Of, Shape, SameTask, SameLists, SameActive, Listing, Visiting
  <1> QED
    BY <1>1, <1>2, <1>4, <1>5, StillRight

LEMMA NoJobGood ==
  ASSUME NEW p \in Pairs, want[p].clean => Kept(p), Held(p) => p[2] \in exists
  PROVE  Good(NoJob, p)
  BY NoJobType DEF Good, Duty, Condemned, Of, Listing, Visiting

LEMMA NoJobShape == ASSUME NEW x PROVE Shape(x, NoJob)
  BY NoJobType DEF Shape

LEMMA DoneRight ==
  ASSUME TypeOK, NEW x \in Tasks, Done(x), UNCHANGED <<now, exists, held, expiry, banEnd, want>>,
         \A p \in Pairs : ~Pending(job[x], p)
  PROVE  Right(x)
  <1>1. \A p \in Pairs : Good(job[x], p) => Good(NoJob, p)
    BY NoJobGood DEF Good
  <1> QED
    BY <1>1, DoneMoves, NoJobShape, StillRight

LEMMA ListedRight ==
  ASSUME TypeOK, NEW x \in Tasks, Shape(x, job[x]), Listed(x)
  PROVE  Right(x)
  BY DoneRight DEF Listed, ActiveDone, Pending, Shape, store

LEMMA BanKickRight ==
  ASSUME TypeOK, NEW x \in Tasks, Shape(x, job[x]), BanKick(x)
  PROVE  Right(x)
  <1>1. job[x] \in Jobs /\ job[x].at = "kick"
    BY DEF TypeOK, BanKick
  <1>2. job[x].op = "ban"
    BY <1>1 DEF Shape, Jobs, Lifting, Listing, Visiting
  <1>3. \A p \in Pairs : ~Pending(job[x], p)
    BY <1>1, <1>2 DEF Pending, Shape
  <1> QED
    BY <1>3, DoneRight DEF BanKick, store

LEMMA LoginEnterRight ==
  ASSUME TypeOK, NEW c \in Conns, Shape(c, job[c]), LoginEnter(c)
  PROVE  Right(c)
  <1>1. job[c] \in Jobs /\ job[c].at = "enter" /\ c \in Tasks
    BY Constants DEF TypeOK, LoginEnter
  <1>2. job[c].op = "load"
    BY <1>1 DEF Shape, Jobs, Lifting, Listing, Visiting
  <1>3. \A p \in Pairs : ~Pending(job[c], p)
    BY <1>1, <1>2 DEF Pending, Shape
  <1> QED
    BY <1>1, <1>3, DoneRight DEF LoginEnter, store

LEMMA LoginLoadRight ==
  ASSUME TypeOK, NEW c \in Conns, Shape(c, job[c]), LoginLoad(c)
  PROVE  Right(c)
  <1>1. job[c] \in Jobs /\ job[c].at = "expiries" /\ job[c].op = "load" /\ c \in Tasks
    BY Constants DEF TypeOK, LoginLoad, ActiveDone
  <1>2. PICK s \in Jobs : /\ Moves(c, s) /\ s.at = "enter" /\ s.pair = job[c].pair /\ SameTask(s, job[c])
                          /\ SameLists(s, job[c]) /\ SameActive(s, job[c])
    <2>1. "enter" \in Steps
      BY DEF Steps
    <2> QED
      BY <1>1, <2>1, GotoMoves DEF LoginLoad
  <1>3. Shape(c, s)
    BY <1>1, <1>2 DEF Shape, SameTask, SameLists
  <1>4. ASSUME NEW r \in Pairs, Good(job[c], r) PROVE Good(s, r)
    BY <1>1, <1>2, <1>4
    DEF Good, Duty, Pending, Condemned, Of, Shape, SameTask, SameLists, SameActive, Listing, Visiting
  <1> QED
    BY <1>1, <1>2, <1>3, <1>4, StillRight DEF LoginLoad, store

LEMMA ActiveListRight ==
  ASSUME TypeOK, NEW x \in Tasks, Shape(x, job[x]), ActiveList(x)
  PROVE  Right(x)
  <1>1. job[x] \in Jobs /\ job[x].at = "groups" /\ UNCHANGED <<now, exists, held, expiry, banEnd, want>>
    BY DEF TypeOK, ActiveList, store
  <1>2. job[x].op \in {"list", "login", "load"}
    BY <1>1 DEF Shape, Jobs, Lifting, Listing, Visiting
  <1>3. PICK s \in Jobs :
            /\ Moves(x, s) /\ s.at = "expiries" /\ s.pair = job[x].pair /\ SameTask(s, job[x])
            /\ SameLists(s, job[x]) /\ s.todo = held[job[x].pair[1]] /\ s.active = {}
    BY ActiveListMoves DEF KeyAt
  <1>4. Shape(x, s)
    BY <1>1, <1>2, <1>3 DEF Shape, SameTask, SameLists, Lifting, Listing
  <1>5. ASSUME NEW r \in Pairs, Good(job[x], r) PROVE Good(s, r)
    <2>1. (want[r].clean => Kept(r)) /\ (Held(r) => r[2] \in exists)
      BY <1>1, <1>2, <1>5 DEF Good, Pending, Shape, Lifting
    <2>2. want[r].clean /\ r[1] = s.pair[1] => /\ InForce(r) => r[2] \in s.todo \cup s.active
                                               /\ ~want[r].in => r[2] \notin s.todo \cup s.active
      BY <1>3, <2>1 DEF Kept, Held
    <2> QED
      BY <1>1, <1>2, <1>3, <1>5, <2>1, <2>2
      DEF Good, Duty, Pending, Condemned, Of, Shape, SameTask, SameLists, Listing, Lifting, Visiting
  <1> QED
    BY <1>1, <1>3, <1>4, <1>5, StillRight

LEMMA ActiveExpiryRight ==
  ASSUME TypeOK, NEW x \in Tasks, Shape(x, job[x]), job[x].clock <= now, ActiveExpiry(x)
  PROVE  Right(x)
  <1>1. job[x] \in Jobs /\ job[x].at = "expiries" /\ UNCHANGED <<now, exists, held, expiry, banEnd, want>>
    BY DEF TypeOK, ActiveExpiry, store
  <1>2. job[x].op \in {"list", "login", "load"}
    BY <1>1 DEF Shape, Jobs, Lifting, Listing, Visiting
  <1>3. PICK s \in Jobs, g \in job[x].todo :
            /\ Moves(x, s) /\ s.pair = <<job[x].pair[1], g>> /\ SameTask(s, job[x])
            /\ SameLists(s, job[x]) /\ s.todo = job[x].todo \ {g}
            /\ IF Past(x, expiry[s.pair])
               THEN s.at = "dropLapsed" /\ s.active = job[x].active
               ELSE s.at = "expiries" /\ s.active = job[x].active \cup {g}
    BY ActiveExpiryMoves
  <1>4. s.pair[1] = job[x].pair[1] /\ s.pair[2] = g /\ s.pair \in Pairs
    BY <1>1, <1>3, JobFields
  <1>5. Shape(x, s)
    BY <1>1, <1>2, <1>3, <1>4 DEF Shape, SameTask, SameLists, Lifting, Listing
  <1>6. ASSUME NEW r \in Pairs, Good(job[x], r) PROVE Good(s, r)
    <2>1. (want[r].clean => Kept(r)) /\ (Held(r) => r[2] \in exists)
      BY <1>1, <1>2, <1>6 DEF Good, Pending, Shape, Lifting, Listing
    <2>2. want[r].clean /\ r = s.pair /\ Past(x, expiry[r]) => ~InForce(r)
      <3>1. now \in Nat /\ job[x].clock \in Nat /\ expiry[r] \in Nat
        BY <1>1, Constants, JobFields DEF TypeOK, Time
      <3> QED
        BY <2>1, <3>1 DEF Past, Kept, Stands, InForce, Ended
    <2>3. want[r].clean /\ r[1] = s.pair[1] => /\ InForce(r) => r[2] \in s.todo \cup s.active
                                               /\ ~want[r].in => r[2] \notin s.todo \cup s.active
      <3>1. r = s.pair <=> r[1] = s.pair[1] /\ r[2] = g
        BY <1>4, PairParts
      <3>2. want[r].clean /\ r[1] = job[x].pair[1] => 
               /\ InForce(r) => r[2] \in job[x].todo \cup job[x].active
               /\ ~want[r].in => r[2] \notin job[x].todo \cup job[x].active
        BY <1>1, <1>6 DEF Good, Duty, Listing
      <3> QED
        BY <1>3, <1>4, <2>2, <3>1, <3>2
    <2> QED
      BY <1>1, <1>2, <1>3, <1>4, <1>6, <2>1, <2>2, <2>3
      DEF Good, Duty, Pending, Condemned, Of, Shape, SameTask, SameLists, Listing, Lifting, Visiting
  <1> QED
    BY <1>1, <1>3, <1>5, <1>6, StillRight

LEMMA LoginCheckRight ==
  ASSUME TypeOK, NEW c \in Conns, Shape(c, job[c]), LoginCheck(c)
  PROVE  Right(c)
  <1>1. /\ job[c] \in Jobs /\ job[c].at = "expiries" /\ job[c].op = "login" /\ job[c].todo = {} /\ c \in Tasks
        /\ UNCHANGED <<now, exists, held, expiry, banEnd, want>>
    BY Constants DEF TypeOK, LoginCheck, ActiveDone, store
  <1>2. CASE Banned \in job[c].active \cap exists
    <2>1. \A p \in Pairs : ~Pending(job[c], p)
      BY <1>1 DEF Pending, Shape, Lifting
    <2> QED
      BY <1>1, <1>2, <2>1, DoneRight DEF LoginCheck
  <1>3. CASE Banned \notin job[c].active \cap exists
    <2>1. PICK s \in Jobs :
            /\ Moves(c, s) /\ s.op = "load" /\ s.at = "groups" /\ s.clock = now /\ s.pair = job[c].pair
            /\ s.until = job[c].until /\ SameLists(s, job[c]) /\ SameActive(s, job[c]) /\ SameVisit(s, job[c])
      BY <1>3, LoginGoesOn DEF LoginCheck
    <2>2. Shape(c, s)
      BY <1>1, <2>1 DEF Shape, SameLists, Lifting
    <2>3. ASSUME NEW r \in Pairs, Good(job[c], r) PROVE Good(s, r)
      <3>1. (want[r].clean => Kept(r)) /\ (Held(r) => r[2] \in exists)
        BY <1>1, <2>3 DEF Good, Pending, Shape, Lifting
      <3>2. want[r].clean /\ r = <<s.pair[1], Banned>> => ~InForce(r)
        <4>1. r = <<s.pair[1], Banned>> => r[1] = job[c].pair[1] /\ r[2] = Banned
          BY <2>1
        <4>2. want[r].clean /\ r[1] = job[c].pair[1] /\ InForce(r) => r[2] \in job[c].active
          BY <1>1, <2>3 DEF Good, Duty, Listing
        <4> QED
          BY <1>3, <3>1, <4>1, <4>2 DEF Kept, Held
      <3> QED
        BY <1>1, <2>1, <2>3, <3>1, <3>2
        DEF Good, Duty, Pending, Condemned, Of, Shape, SameLists, Listing, Lifting, Visiting
    <2> QED
      BY <1>1, <2>1, <2>2, <2>3, StillRight
  <1> QED
    BY <1>2, <1>3

LEMMA MirrorDoneRight ==
  ASSUME TypeOK, NEW x \in Tasks, Shape(x, job[x]), MirrorDone(x)
  PROVE  Right(x)
  <1>1. job[x] \in Jobs /\ job[x].at = "read" /\ UNCHANGED <<now, exists, held, expiry, banEnd, want>>
    BY DEF TypeOK, MirrorDone, store
  <1>2. job[x].op \in {"add", "remove", "delete", "sweep"} /\ job[x].drop = {}
    BY <1>1 DEF Shape, Jobs, Lifting, Listing, Visiting
  <1>3. PICK s \in Jobs, t \in Jobs :
            /\ Moves(x, s) /\ Onward(s, t) /\ t.pair = job[x].pair /\ SameTask(t, job[x])
            /\ t.drop = IF job[x].op = "delete" THEN Keys \X {job[x].pair[2]} ELSE {}
            /\ t.mirror = job[x].mirror /\ SameActive(t, job[x]) /\ SameVisit(t, job[x])
    BY MirrorDoneMoves
  <1>4. CASE s = NoJob /\ Ends(t)
    <2>1. job[x].op # "delete" /\ \A p \in Pairs : ~Pending(job[x], p)
      BY <1>1, <1>2, <1>3, <1>4 DEF Ends, SameTask, Pending
    <2>2. \A p \in Pairs : Good(job[x], p) => Good(s, p)
      BY <1>4, <2>1, NoJobGood DEF Good
    <2> QED
      BY <1>1, <1>3, <1>4, <2>2, NoJobShape, StillRight
  <1>5. CASE /\ s.pair = t.pair /\ SameTask(s, t) /\ SameLists(s, t) /\ s.at = OnTo(t) /\ ~Ends(t)
    <2>1. CASE job[x].op = "delete"
      <3>1. s.drop = Keys \X {job[x].pair[2]} /\ s.at = "drop" /\ s.op = "delete" /\ s.mirror = {}
            /\ s.pair = job[x].pair
        <4>1. s.drop = Keys \X {job[x].pair[2]} /\ s.op = "delete" /\ s.mirror = {} /\ s.pair = job[x].pair
          BY <1>3, <1>5, <2>1 DEF SameTask, SameLists, Shape
        <4>2. t.drop # {}
          <5>1. PICK k \in Keys : TRUE
            BY Constants
          <5>2. <<k, job[x].pair[2]>> \in t.drop
            BY <1>3, <2>1, <5>1
          <5> QED
            BY <5>2
        <4> QED
          BY <1>3, <1>5, <2>1, <4>1, <4>2 DEF OnTo, SameTask
      <3>2. Shape(x, s)
        BY <3>1 DEF Shape
      <3>3. ASSUME NEW r \in Pairs, Good(job[x], r) PROVE Good(s, r)
        <4>1. r \in s.drop <=> r[2] = job[x].pair[2]
          BY <3>1, PairParts
        <4>2. Of(s) = s.drop /\ Of(job[x]) = s.drop
          BY <1>1, <2>1, <3>1 DEF Of
        <4>3. r \in s.drop => ~want[r].in
          BY <2>1, <3>3, <4>2 DEF Good, Duty
        <4>4. s.pair # r \/ s.at \notin {"write", "expire", "record", "erase", "eraseLapsed", "unhold", "dropLapsed"}
          BY <3>1
        <4>5. Condemned(s, r) => r \in s.drop
          BY <3>1 DEF Condemned
        <4>6. r \in s.drop => ~InForce(r)
          BY <4>3 DEF InForce
        <4>7. Duty(s, r)
          BY <3>1, <3>3, <4>1, <4>2, <4>3, <4>5, <4>6 DEF Duty, Listing, Visiting
        <4>8. Pending(job[x], r) => Pending(s, r)
          BY <1>1, <1>2, <2>1, <3>1, <4>1 DEF Pending, Visiting
        <4> QED
          BY <3>3, <4>7, <4>8 DEF Good
      <3> QED
        BY <1>1, <1>3, <3>2, <3>3, StillRight
    <2>2. CASE job[x].op # "delete"
      <3>1. s.drop = {} /\ s.at = "mirror" /\ s.op = job[x].op /\ s.mirror = job[x].mirror /\ s.pair = job[x].pair
        BY <1>2, <1>3, <1>5, <2>2 DEF SameTask, SameLists, OnTo, Ends
      <3>2. Shape(x, s)
        BY <1>1, <1>2, <2>2, <3>1 DEF Shape
      <3>3. ASSUME NEW r \in Pairs, Good(job[x], r) PROVE Good(s, r)
        BY <1>1, <1>2, <2>2, <3>1, <3>3
        DEF Good, Duty, Pending, Condemned, Of, Shape, Listing, Visiting
      <3> QED
        BY <1>1, <1>3, <3>2, <3>3, StillRight
    <2> QED
      BY <2>1, <2>2
  <1> QED
    BY <1>3, <1>4, <1>5 DEF Onward

(* A job that starts, or goes on from nothing, at what is as it was decided *)
LEMMA FreshRight ==
  ASSUME TypeOK, NEW x \in Tasks, Shape(x, job[x]), Of(job[x]) = {},
         UNCHANGED <<now, exists, held, expiry, banEnd, want>>,
         NEW s, Moves(x, s), Shape(x, s),
         \A p \in Pairs : (want[p].clean => Kept(p)) /\ (Held(p) => p[2] \in exists) => Duty(s, p)
  PROVE  Right(x)
  <1>1. job[x] \in Jobs
    BY DEF TypeOK
  <1>2. ASSUME NEW p \in Pairs, Good(job[x], p) PROVE Good(s, p)
    BY <1>1, <1>2, Settles DEF Good
  <1> QED
    BY <1>2, StillRight

LEMMA IdleFree ==
  ASSUME TypeOK, NEW x \in Tasks, Shape(x, job[x]), Starts(x)
  PROVE  Of(job[x]) = {}
  BY IdleAt DEF Starts, Idle

LEMMA ListRegisteredRight ==
  ASSUME TypeOK, NEW x \in Tasks, Shape(x, job[x]), NEW k \in Keys, ListRegistered(x, k)
  PROVE  Right(x)
  <1>1. PICK s \in Jobs :
            /\ Moves(x, s) /\ Fresh(s, "list", "groups", <<k, Banned>>)
            /\ s.clock = now /\ s.until = 0 /\ s.drop = {} /\ s.mirror = {} /\ s.visit = {}
    BY ListRegisteredMoves
  <1>2. Shape(x, s)
    BY <1>1 DEF Shape, Fresh
  <1>3. \A p \in Pairs : Duty(s, p)
    BY <1>1 DEF Fresh, Duty, Condemned, Listing, Visiting
  <1> QED
    BY <1>1, <1>2, <1>3, FreshRight, IdleFree DEF ListRegistered, store

LEMMA AddUserGroupRight ==
  ASSUME TypeOK, NEW x \in Tasks, Shape(x, job[x]), NEW k \in Keys, NEW g \in Groups,
         NEW u \in Time, AddUserGroup(x, k, g, u)
  PROVE  Right(x)
  <1>1. PICK s \in Jobs :
            /\ Moves(x, s) /\ Fresh(s, "add", "write", <<k, g>>)
            /\ s.clock = 0 /\ s.until = u /\ s.drop = {} /\ s.mirror = {} /\ s.visit = {}
    BY AddUserGroupMoves
  <1>2. Shape(x, s)
    BY <1>1 DEF Shape, Fresh
  <1>3. s.pair[2] \in exists
    BY <1>1 DEF Fresh, AddUserGroup
  <1>4. \A p \in Pairs : Duty(s, p)
    BY <1>1, <1>3 DEF Fresh, Duty, Condemned, Listing, Visiting
  <1> QED
    BY <1>1, <1>2, <1>4, FreshRight, IdleFree DEF AddUserGroup, store

LEMMA CreateGroupRight ==
  ASSUME TypeOK, NEW x \in Tasks, Shape(x, job[x]), NEW g \in Groups, CreateGroup(x, g)
  PROVE  Right(x)
  <1>1. PICK s \in Jobs :
            /\ Moves(x, s) /\ Fresh(s, "create", "insert", <<job[x].pair[1], g>>)
            /\ s.clock = 0 /\ s.until = 0 /\ s.drop = {} /\ s.mirror = {} /\ s.visit = {}
    BY CreateGroupMoves
  <1>2. Shape(x, s)
    BY <1>1 DEF Shape, Fresh
  <1>3. \A p \in Pairs : Duty(s, p)
    BY <1>1 DEF Fresh, Duty, Condemned, Listing, Visiting
  <1> QED
    BY <1>1, <1>2, <1>3, FreshRight, IdleFree DEF CreateGroup, store

(* A ban whose record has run out is not in force. *)
LEMMA BanIsOver ==
  ASSUME TypeOK, NEW p \in Pairs, p[1] \in BansOver, p[2] = Banned, want[p].clean => Kept(p)
  PROVE  want[p].clean => ~InForce(p)
  BY DEF BansOver, Kept, Stands, Recorded, InForce, Ended

LEMMA LoginRight ==
  ASSUME TypeOK, NEW c \in Conns, Shape(c, job[c]), Login(c)
  PROVE  Right(c)
  <1>1. PICK s \in Jobs, t \in Jobs :
            /\ Moves(c, s) /\ Onward(s, t) /\ t.op = "login" /\ t.pair = <<KeyOf[c], Banned>> /\ t.clock = now
            /\ t.until = 0 /\ t.drop = (BansOver \cap {KeyOf[c]}) \X {Banned} /\ t.mirror = {}
    BY LoginMoves
  <1>2. /\ s.op = "login" /\ s.drop = t.drop /\ s.mirror = {} /\ s.pair = <<KeyOf[c], Banned>>
        /\ s.at = IF t.drop # {} THEN "unban" ELSE "groups"
    BY <1>1 DEF Onward, Ends, OnTo, SameTask, SameLists
  <1>3. s.pair[1] = KeyOf[c] /\ s.pair[2] = Banned /\ c \in Tasks
    BY <1>2, Constants
  <1>4. s.drop \subseteq {<<KeyOf[c], Banned>>}
    BY <1>1, <1>2
  <1>5. Shape(c, s)
    BY <1>2, <1>3, <1>4 DEF Shape, Lifting, Listing
  <1>6. ASSUME NEW p \in Pairs, want[p].clean => Kept(p) PROVE Duty(s, p)
    <2>1. p \in s.drop => p[1] \in BansOver /\ p[2] = Banned
      BY <1>1, <1>2
    <2>2. want[p].clean /\ p \in s.drop => ~InForce(p)
      BY <1>6, <2>1, BanIsOver
    <2> QED
      BY <1>2, <2>2 DEF Duty, Condemned, Listing, Visiting
  <1> QED
    BY <1>1, <1>3, <1>5, <1>6, FreshRight, IdleFree DEF Login, store

LEMMA SweepRight ==
  ASSUME TypeOK, Shape(Sweeper, job[Sweeper]), Sweep(Sweeper)
  PROVE  Right(Sweeper)
  <1>1. PICK s \in Jobs, t \in Jobs :
            /\ Moves(Sweeper, s) /\ Onward(s, t) /\ t.op = "sweepBans" /\ t.pair = NoJob.pair /\ t.clock = now
            /\ t.until = 0 /\ t.drop = BansOver \X {Banned} /\ t.mirror = {}
    BY SweepMoves, Constants
  <1>2. /\ s.op = "sweepBans" /\ s.drop = BansOver \X {Banned} /\ s.mirror = {} /\ s.pair = NoJob.pair
        /\ s.at = IF t.drop # {} THEN "unban" ELSE "scan"
    BY <1>1 DEF Onward, Ends, OnTo, SameTask, SameLists
  <1>3. s.pair[2] = Banned /\ Sweeper \in Tasks
    BY <1>2, NoJobType, Constants
  <1>4. s.drop \subseteq Keys \X {Banned}
    BY <1>2 DEF BansOver, TypeOK
  <1>5. Shape(Sweeper, s)
    BY <1>1, <1>2, <1>3, <1>4 DEF Shape, Lifting
  <1>6. ASSUME NEW p \in Pairs, want[p].clean => Kept(p) PROVE Duty(s, p)
    <2>1. p \in s.drop => p[1] \in BansOver /\ p[2] = Banned
      BY <1>2
    <2>2. want[p].clean /\ p \in s.drop => ~InForce(p)
      BY <1>6, <2>1, BanIsOver
    <2> QED
      BY <1>2, <2>2 DEF Duty, Condemned, Listing, Visiting
  <1> QED
    BY <1>1, <1>3, <1>5, <1>6, FreshRight, IdleFree DEF Sweep, store

LEMMA SweepScanRight ==
  ASSUME TypeOK, NEW x \in Tasks, Shape(x, job[x]), job[x].clock <= now, SweepScan(x)
  PROVE  Right(x)
  <1>1. PICK s \in Jobs, t \in Jobs :
            /\ Moves(x, s) /\ Onward(s, t) /\ t.op = "sweep" /\ t.pair = NoJob.pair /\ t.clock = job[x].clock
            /\ t.until = 0 /\ t.drop = {p \in Pairs : Past(x, expiry[p])} /\ t.mirror = t.drop
    BY SweepScanMoves
  <1>2. job[x] \in Jobs /\ job[x].at = "scan" /\ UNCHANGED <<now, exists, held, expiry, banEnd, want>>
    BY DEF SweepScan, SweepPairs, TypeOK, store
  <1>3. x = Sweeper /\ Of(job[x]) = {}
    BY <1>2 DEF Shape, Jobs, Lifting, Listing, Visiting, Of
  <1>4. CASE s = NoJob
    <2>1. \A p \in Pairs : Duty(s, p)
      BY <1>4, NoJobType DEF Duty, Condemned, Of, Listing, Visiting
    <2> QED
      BY <1>1, <1>2, <1>3, <1>4, <2>1, NoJobShape, FreshRight
  <1>5. CASE /\ s.pair = t.pair /\ SameTask(s, t) /\ SameLists(s, t) /\ s.at = OnTo(t) /\ ~Ends(t)
    <2>1. s.op = "sweep" /\ s.at = "drop" /\ s.mirror = s.drop /\ s.drop = {p \in Pairs : Past(x, expiry[p])}
      BY <1>1, <1>5 DEF SameTask, SameLists, OnTo, Ends
    <2>2. Shape(x, s)
      BY <1>3, <2>1 DEF Shape
    <2>3. ASSUME NEW p \in Pairs, want[p].clean => Kept(p) PROVE Duty(s, p)
      <3>1. now \in Nat /\ job[x].clock \in Nat /\ expiry[p] \in Nat
        BY <1>2, Constants, JobFields DEF TypeOK, Time
      <3>2. want[p].clean /\ p \in s.drop => ~InForce(p)
        BY <2>1, <2>3, <3>1 DEF Past, Kept, Stands, InForce, Ended
      <3> QED
        BY <2>1, <3>2 DEF Duty, Condemned, Listing, Visiting
    <2> QED
      BY <1>1, <1>2, <1>3, <2>2, <2>3, FreshRight
  <1> QED
    BY <1>1, <1>4, <1>5 DEF Onward

(* Steps that write *)
Only(p) == \A r \in Pairs \ {p} : Same(r)

LEMMA Unheld ==
  ASSUME TypeOK, NEW p \in Pairs, held' = [held EXCEPT ![p[1]] = held[p[1]] \ {p[2]}],
         UNCHANGED <<exists, expiry, banEnd, want>>
  PROVE  Only(p) /\ ~Held(p)'
  <1>1. held \in [Keys -> SUBSET Groups] /\ p[1] \in Keys
    BY PairParts DEF TypeOK
  <1>2. ~Held(p)'
    BY <1>1 DEF Held
  <1>3. ASSUME NEW r \in Pairs, r # p PROVE Held(r)' = Held(r)
    <2>1. r[1] \in Keys /\ (r[1] # p[1] \/ r[2] # p[2])
      BY <1>3, PairParts
    <2> QED
      BY <1>1, <2>1 DEF Held
  <1> QED
    BY <1>2, <1>3 DEF Only, Same, Recorded

LEMMA ExpirySet ==
  ASSUME TypeOK, NEW p \in Pairs, NEW v, expiry' = [expiry EXCEPT ![p] = v],
         UNCHANGED <<exists, held, banEnd>>, \A r \in Pairs \ {p} : want'[r] = want[r]
  PROVE  Only(p) /\ expiry'[p] = v /\ Held(p)' = Held(p) /\ Recorded(p)' = Recorded(p)
  <1>1. expiry \in [Pairs -> Time]
    BY DEF TypeOK
  <1> QED
    BY <1>1 DEF Only, Same, Held, Recorded

LEMMA OneRight ==
  ASSUME TypeOK, now' = now, NEW x \in Tasks, NEW s, Moves(x, s), Shape(x, s),
         NEW p \in Pairs, p \in Of(job[x]) \cup Of(s), Only(p),
         \A r \in Pairs \ {p} : Good(job[x], r) => Good(s, r),
         Good(job[x], p) => Good(s, p)'
  PROVE  Right(x)
  <1>1. Clocked
    BY Clocks
  <1>2. Local(x, s)
    BY <1>1, TouchLocal, {p} \in SUBSET Pairs DEF Only
  <1> QED
    BY <1>2 DEF Right

LEMMA DropHeldRight ==
  ASSUME TypeOK, NEW x \in Tasks, Shape(x, job[x]), DropHeld(x)
  PROVE  Right(x)
  <1>1. PICK s \in Jobs, p \in job[x].drop :
            /\ held' = [held EXCEPT ![p[1]] = held[p[1]] \ {p[2]}]
            /\ Moves(x, s) /\ s.at = "erase" /\ s.pair = p /\ SameTask(s, job[x])
            /\ s.drop = job[x].drop \ {p} /\ s.mirror = job[x].mirror
            /\ SameActive(s, job[x]) /\ SameVisit(s, job[x])
    BY DropHeldMoves
  <1>2. job[x] \in Jobs /\ job[x].at = "drop" /\ now' = now /\ UNCHANGED <<exists, expiry, banEnd, want>>
    BY DEF TypeOK, DropHeld
  <1>3. job[x].op \in {"remove", "delete", "sweep"} /\ s.op = job[x].op
    BY <1>1, <1>2 DEF Shape, Jobs, Lifting, Listing, Visiting, SameTask
  <1>4. p \in Pairs /\ p \in Of(job[x])
    BY <1>1, <1>2, DropAt
  <1>5. /\ job[x].op = "delete" => p[2] = job[x].pair[2]
        /\ job[x].op = "remove" => p = job[x].pair
    BY <1>1 DEF Shape
  <1>6. Shape(x, s)
    BY <1>1, <1>2, <1>3, <1>5 DEF Shape
  <1>7. Only(p) /\ ~Held(p)'
    BY <1>1, <1>2, <1>4, Unheld
  <1>8. ASSUME NEW r \in Pairs \ {p}, Good(job[x], r) PROVE Good(s, r)
    BY <1>1, <1>2, <1>3, <1>5, <1>8
    DEF Good, Duty, Pending, Condemned, Of, Shape, Listing, Visiting
  <1>9. ASSUME Good(job[x], p) PROVE Good(s, p)'
    <2>1. (want[p].clean => ~InForce(p)) /\ InForce(p)' = InForce(p) /\ want'[p] = want[p]
      BY <1>1, <1>2, <1>9 DEF Good, Duty, Condemned, InForce, Ended
    <2>2. job[x].op \in {"remove", "delete"} => ~want[p].in
      BY <1>4, <1>9 DEF Good, Duty
    <2> QED
      BY <1>1, <1>3, <1>7, <2>1, <2>2 DEF Good, Duty, Kept, Pending, Condemned, Of, Listing, Visiting
  <1> QED
    BY <1>1, <1>2, <1>4, <1>6, <1>7, <1>8, <1>9, OneRight

LEMMA DropBanRight ==
  ASSUME TypeOK, NEW x \in Tasks, Shape(x, job[x]), DropBan(x)
  PROVE  Right(x)
  <1>1. PICK s \in Jobs, p \in job[x].drop :
            /\ banEnd' = [k \in DOMAIN banEnd \ {p[1]} |-> banEnd[k]] /\ Moves(x, s)
            /\ s.at = "unhold" /\ s.pair = p /\ SameTask(s, job[x])
            /\ s.drop = job[x].drop \ {p} /\ s.mirror = job[x].mirror /\ SameActive(s, job[x])
    BY DropBanMoves
  <1>2. job[x] \in Jobs /\ job[x].at = "unban" /\ now' = now /\ UNCHANGED <<exists, held, expiry, want>>
    BY DEF TypeOK, DropBan
  <1>3. job[x].op \in {"login", "sweepBans"} /\ s.op = job[x].op
    BY <1>1, <1>2 DEF Shape, Jobs, Lifting, Listing, Visiting, SameTask
  <1>4. p \in Pairs /\ p \in Of(job[x])
    BY <1>1, <1>2, DropAt
  <1>5. p[2] = Banned /\ (job[x].op = "login" => p = <<KeyOf[x], Banned>> /\ p[1] = KeyOf[x])
    BY <1>1, <1>3 DEF Shape
  <1>6. Shape(x, s)
    BY <1>1, <1>2, <1>3, <1>5 DEF Shape, Lifting
  <1>7. Only(p)
    <2>1. ASSUME NEW r \in Pairs, r # p, r[2] = Banned PROVE r[1] # p[1]
      BY <1>4, <1>5, <2>1, PairParts
    <2> QED
      BY <1>1, <1>2, <1>5, <2>1 DEF Only, Same, Held, Recorded
  <1>8. ASSUME NEW r \in Pairs \ {p}, Good(job[x], r) PROVE Good(s, r)
    BY <1>1, <1>2, <1>3, <1>8
    DEF Good, Duty, Pending, Condemned, Of, Shape, Listing, Visiting
  <1>9. ASSUME Good(job[x], p) PROVE Good(s, p)'
    <2>1. (want[p].clean => ~InForce(p)) /\ InForce(p)' = InForce(p) /\ want'[p] = want[p]
      BY <1>1, <1>2, <1>9 DEF Good, Duty, Condemned, InForce, Ended
    <2>2. Held(p)' => p[2] \in exists'
      BY <1>2, <1>9 DEF Good, Held
    <2> QED
      BY <1>1, <1>3, <2>1, <2>2 DEF Good, Duty, Pending, Condemned, Of, Listing, Visiting
  <1> QED
    BY <1>1, <1>2, <1>4, <1>6, <1>7, <1>8, <1>9, OneRight

LEMMA DropBannedRight ==
  ASSUME TypeOK, NEW x \in Tasks, Shape(x, job[x]), DropBanned(x)
  PROVE  Right(x)
  <1>1. job[x] \in Jobs /\ job[x].at = "unhold" /\ now' = now /\ UNCHANGED <<exists, expiry, banEnd, want>>
    BY DEF TypeOK, DropBanned
  <1>2. PICK s \in Jobs : /\ Moves(x, s) /\ s.at = "erase" /\ s.pair = job[x].pair /\ SameTask(s, job[x])
                          /\ SameLists(s, job[x]) /\ SameActive(s, job[x]) /\ SameVisit(s, job[x])
    BY GotoMoves, "erase" \in Steps DEF DropBanned, Steps
  <1>3. job[x].op \in {"login", "sweepBans"} /\ s.op = job[x].op
    BY <1>1, <1>2 DEF Shape, Jobs, Lifting, Listing, Visiting, SameTask
  <1>4. PICK p \in Pairs : p = job[x].pair
    BY <1>1, JobFields
  <1>5. p[2] = Banned /\ p \in Of(job[x])
    <2>1. p[1] \in Keys /\ p[2] \in Groups /\ p = <<p[1], p[2]>>
      BY PairParts
    <2> QED
      BY <1>1, <1>3, <1>4, <2>1 DEF Shape, Of, Lifting
  <1>6. Shape(x, s)
    BY <1>1, <1>2, <1>3 DEF Shape, Lifting, SameLists
  <1>7. Only(p) /\ ~Held(p)'
    <2>1. held' = [held EXCEPT ![p[1]] = held[p[1]] \ {p[2]}]
      BY <1>4, <1>5 DEF DropBanned, KeyAt
    <2> QED
      BY <1>1, <2>1, Unheld
  <1>8. ASSUME NEW r \in Pairs \ {p}, Good(job[x], r) PROVE Good(s, r)
    BY <1>1, <1>2, <1>3, <1>4, <1>8
    DEF Good, Duty, Pending, Condemned, Of, Shape, SameLists, Listing, Visiting
  <1>9. ASSUME Good(job[x], p) PROVE Good(s, p)'
    <2>1. (want[p].clean => ~InForce(p)) /\ InForce(p)' = InForce(p) /\ want'[p] = want[p]
      BY <1>1, <1>4, <1>9 DEF Good, Duty, Condemned, InForce, Ended
    <2> QED
      BY <1>2, <1>3, <1>4, <1>7, <2>1 DEF Good, Duty, Kept, Pending, Condemned, Of, Listing, Visiting
  <1> QED
    BY <1>1, <1>2, <1>5, <1>6, <1>7, <1>8, <1>9, OneRight

LEMMA DropExpiryRight ==
  ASSUME TypeOK, NEW x \in Tasks, Shape(x, job[x]), DropExpiry(x)
  PROVE  Right(x)
  <1>1. job[x] \in Jobs /\ job[x].at = "erase" /\ now' = now /\ UNCHANGED <<exists, held, banEnd, want>>
    BY DEF TypeOK, DropExpiry
  <1>2. PICK s \in Jobs : Moves(x, s) /\ Onward(s, job[x])
    BY DropExpiryMoves
  <1>3. job[x].op \in {"remove", "delete", "login", "sweepBans", "sweep"}
    BY <1>1 DEF Shape, Jobs, Lifting, Listing, Visiting
  <1>4. PICK p \in Pairs : p = job[x].pair
    BY <1>1, JobFields
  <1>5. p \in Of(job[x])
    <2>1. p[1] \in Keys /\ p[2] \in Groups /\ p = <<p[1], p[2]>>
      BY PairParts
    <2> QED
      BY <1>1, <1>3, <1>4, <2>1 DEF Of
  <1>6. Only(p) /\ expiry'[p] = 0 /\ Held(p)' = Held(p) /\ Recorded(p)' = Recorded(p)
    BY <1>1, <1>4, ExpirySet DEF DropExpiry
  <1>7. ASSUME Good(job[x], p)
        PROVE  /\ ~Held(p)' /\ (want[p].clean => ~InForce(p)) /\ InForce(p)' = InForce(p) /\ want'[p] = want[p]
               /\ want'[p].clean => Kept(p)'
    <2>1. ~Held(p)' /\ (want[p].clean => ~InForce(p))
      BY <1>1, <1>4, <1>6, <1>7 DEF Good, Duty, Condemned
    <2> QED
      BY <1>1, <2>1 DEF InForce, Ended, Kept
  <1>8. CASE s = NoJob /\ Ends(job[x])
    <2>1. \A r \in Pairs \ {p} : Good(job[x], r) => Good(s, r)
      <3>1. ASSUME NEW r \in Pairs \ {p} PROVE ~Pending(job[x], r)
        BY <1>1, <1>8 DEF Pending, Ends, Visiting
      <3> QED
        BY <1>8, <3>1, NoJobGood DEF Good
    <2>2. Good(job[x], p) => Good(s, p)'
      BY <1>7, <1>8, NoJobType DEF Good, Duty, Condemned, Of, Listing, Visiting
    <2> QED
      BY <1>1, <1>2, <1>5, <1>6, <1>8, <2>1, <2>2, NoJobShape, OneRight
  <1>9. CASE /\ s.pair = job[x].pair /\ SameTask(s, job[x]) /\ SameLists(s, job[x]) /\ SameActive(s, job[x])
             /\ s.at = OnTo(job[x]) /\ ~Ends(job[x])
    <2>1. s.op = job[x].op /\ s.drop = job[x].drop /\ s.mirror = job[x].mirror
      BY <1>9 DEF SameTask, SameLists
    <2>2. Shape(x, s)
      BY <1>1, <1>3, <1>9, <2>1 DEF Shape, OnTo, Ends, Lifting, Listing
    <2>3. s.at \in {"unban", "drop", "groups", "scan", "unlist", "mirror"} /\ (s.at = "unlist" => s.op = "delete")
          /\ (s.op = "delete" => s.at \in {"drop", "unlist"})
      BY <1>3, <1>9, <2>1 DEF OnTo
    <2>4. Of(s) \subseteq Of(job[x])
      BY <1>1, <1>9, <2>1 DEF Of
    <2>5. ASSUME NEW r \in Pairs \ {p}, Good(job[x], r) PROVE Good(s, r)
      BY <1>1, <1>3, <1>4, <1>9, <2>1, <2>3, <2>4, <2>5
      DEF Good, Duty, Pending, Condemned, Listing, Visiting
    <2>6. ASSUME Good(job[x], p) PROVE Good(s, p)'
      <3>1. s.op \in {"remove", "delete"} /\ p \in Of(s) => ~want[p].in
        BY <2>1, <2>4, <2>6 DEF Good, Duty
      <3> QED
        BY <1>3, <1>4, <1>7, <1>9, <2>1, <2>3, <2>6, <3>1
        DEF Good, Duty, Condemned, Listing, Visiting, Of
    <2> QED
      BY <1>1, <1>2, <1>5, <1>6, <2>2, <2>5, <2>6, OneRight
  <1> QED
    BY <1>2, <1>8, <1>9 DEF Onward

LEMMA DropLapsedRight ==
  ASSUME TypeOK, NEW x \in Tasks, Shape(x, job[x]), DropLapsed(x)
  PROVE  Right(x)
  <1>1. job[x] \in Jobs /\ job[x].at = "dropLapsed" /\ now' = now /\ UNCHANGED <<exists, expiry, banEnd, want>>
    BY DEF TypeOK, DropLapsed
  <1>2. PICK s \in Jobs : /\ Moves(x, s) /\ s.at = "eraseLapsed" /\ s.pair = job[x].pair /\ SameTask(s, job[x])
                          /\ SameLists(s, job[x]) /\ SameActive(s, job[x]) /\ SameVisit(s, job[x])
    BY GotoMoves, "eraseLapsed" \in Steps DEF DropLapsed, Steps
  <1>3. job[x].op \in {"list", "login", "load"} /\ s.op = job[x].op
    BY <1>1, <1>2 DEF Shape, Jobs, Lifting, Listing, Visiting, SameTask
  <1>4. PICK p \in Pairs : p = job[x].pair
    BY <1>1, JobFields
  <1>5. p \in Of(job[x])
    <2>1. p[1] \in Keys /\ p[2] \in Groups /\ p = <<p[1], p[2]>>
      BY PairParts
    <2> QED
      BY <1>1, <1>3, <1>4, <2>1 DEF Of
  <1>6. Shape(x, s)
    BY <1>1, <1>2, <1>3 DEF Shape, Lifting, Listing, SameLists
  <1>7. Only(p) /\ ~Held(p)'
    <2>1. held' = [held EXCEPT ![p[1]] = held[p[1]] \ {p[2]}]
      BY <1>4 DEF DropLapsed, KeyAt, GroupAt
    <2> QED
      BY <1>1, <2>1, Unheld
  <1>8. ASSUME NEW r \in Pairs \ {p}, Good(job[x], r) PROVE Good(s, r)
    BY <1>1, <1>2, <1>3, <1>4, <1>8
    DEF Good, Duty, Pending, Condemned, Of, Shape, SameLists, SameActive, Lifting, Listing, Visiting
  <1>9. ASSUME Good(job[x], p) PROVE Good(s, p)'
    <2>1. (want[p].clean => ~InForce(p)) /\ InForce(p)' = InForce(p) /\ want'[p] = want[p]
      BY <1>1, <1>4, <1>9 DEF Good, Duty, Condemned, InForce, Ended
    <2>2. want[p].clean /\ p[1] = s.pair[1] => (~want[p].in => p[2] \notin s.todo \cup s.active)
      BY <1>1, <1>2, <1>9 DEF Good, Duty, Listing, SameActive
    <2> QED
      BY <1>2, <1>3, <1>4, <1>7, <2>1, <2>2 DEF Good, Duty, Kept, Pending, Condemned, Of, Listing, Visiting
  <1> QED
    BY <1>1, <1>2, <1>5, <1>6, <1>7, <1>8, <1>9, OneRight

LEMMA EraseLapsedRight ==
  ASSUME TypeOK, NEW x \in Tasks, Shape(x, job[x]), EraseLapsed(x)
  PROVE  Right(x)
  <1>1. job[x] \in Jobs /\ job[x].at = "eraseLapsed" /\ now' = now /\ UNCHANGED <<exists, held, banEnd, want>>
    BY DEF TypeOK, EraseLapsed
  <1>2. PICK s \in Jobs : /\ Moves(x, s) /\ s.at = "expiries" /\ s.pair = job[x].pair /\ SameTask(s, job[x])
                          /\ SameLists(s, job[x]) /\ SameActive(s, job[x]) /\ SameVisit(s, job[x])
    BY GotoMoves, "expiries" \in Steps DEF EraseLapsed, Steps
  <1>3. job[x].op \in {"list", "login", "load"} /\ s.op = job[x].op
    BY <1>1, <1>2 DEF Shape, Jobs, Lifting, Listing, Visiting, SameTask
  <1>4. PICK p \in Pairs : p = job[x].pair
    BY <1>1, JobFields
  <1>5. p \in Of(job[x])
    <2>1. p[1] \in Keys /\ p[2] \in Groups /\ p = <<p[1], p[2]>>
      BY PairParts
    <2> QED
      BY <1>1, <1>3, <1>4, <2>1 DEF Of
  <1>6. Shape(x, s)
    BY <1>1, <1>2, <1>3 DEF Shape, Lifting, Listing, SameLists
  <1>7. Only(p) /\ expiry'[p] = 0 /\ Held(p)' = Held(p) /\ Recorded(p)' = Recorded(p)
    BY <1>1, <1>4, ExpirySet DEF EraseLapsed
  <1>8. ASSUME NEW r \in Pairs \ {p}, Good(job[x], r) PROVE Good(s, r)
    BY <1>1, <1>2, <1>3, <1>4, <1>8
    DEF Good, Duty, Pending, Condemned, Of, Shape, SameLists, SameActive, Lifting, Listing, Visiting
  <1>9. ASSUME Good(job[x], p) PROVE Good(s, p)'
    <2>1. (want[p].clean => ~InForce(p)) /\ InForce(p)' = InForce(p) /\ want'[p] = want[p] /\ ~Held(p)'
      BY <1>1, <1>4, <1>7, <1>9 DEF Good, Duty, Condemned, InForce, Ended
    <2>2. want[p].clean /\ p[1] = s.pair[1] => (~want[p].in => p[2] \notin s.todo \cup s.active)
      BY <1>1, <1>2, <1>9 DEF Good, Duty, Listing, SameActive
    <2>3. s.drop = {} /\ s.mirror = {}
      BY <1>1, <1>2, <1>3 DEF Shape, SameLists, Lifting
    <2> QED
      BY <1>2, <1>3, <1>4, <2>1, <2>2, <2>3 DEF Good, Duty, Kept, Pending, Condemned, Of, Listing, Visiting
  <1> QED
    BY <1>1, <1>2, <1>5, <1>6, <1>7, <1>8, <1>9, OneRight

LEMMA AddHeldRight ==
  ASSUME TypeOK, NEW x \in Tasks, Shape(x, job[x]), AddHeld(x)
  PROVE  Right(x)
  <1>1. job[x] \in Jobs /\ job[x].at = "write" /\ now' = now /\ UNCHANGED <<exists, expiry, banEnd, want>>
    BY DEF TypeOK, AddHeld
  <1>2. PICK s \in Jobs : /\ Moves(x, s) /\ s.at = "expire" /\ s.pair = job[x].pair /\ SameTask(s, job[x])
                          /\ SameLists(s, job[x]) /\ SameActive(s, job[x]) /\ SameVisit(s, job[x])
    BY GotoMoves, "expire" \in Steps DEF AddHeld, Steps
  <1>3. job[x].op \in {"add", "ban"} /\ s.op = job[x].op
    BY <1>1, <1>2 DEF Shape, Jobs, Lifting, Listing, Visiting, SameTask
  <1>4. PICK p \in Pairs : p = job[x].pair
    BY <1>1, JobFields
  <1>5. p \in Of(job[x])
    BY <1>1, <1>3, <1>4 DEF Of
  <1>6. Shape(x, s)
    BY <1>1, <1>2, <1>3 DEF Shape, SameLists, SameTask
  <1>7. Only(p) /\ Held(p)'
    <2>1. held' = [held EXCEPT ![p[1]] = held[p[1]] \cup {p[2]}]
      BY <1>4 DEF AddHeld, KeyAt, GroupAt
    <2>2. held \in [Keys -> SUBSET Groups] /\ p[1] \in Keys
      BY PairParts DEF TypeOK
    <2>3. ASSUME NEW r \in Pairs, r # p PROVE Held(r)' = Held(r)
      <3>1. r[1] \in Keys /\ (r[1] # p[1] \/ r[2] # p[2])
        BY <2>3, PairParts
      <3> QED
        BY <2>1, <2>2, <3>1 DEF Held
    <2> QED
      BY <1>1, <2>1, <2>2, <2>3 DEF Only, Same, Held, Recorded
  <1>8. ASSUME NEW r \in Pairs \ {p}, Good(job[x], r) PROVE Good(s, r)
    BY <1>1, <1>2, <1>3, <1>4, <1>8
    DEF Good, Duty, Pending, Condemned, Of, Shape, SameLists, Listing, Visiting
  <1>9. ASSUME Good(job[x], p) PROVE Good(s, p)'
    <2>1. p[2] \in exists'
      BY <1>1, <1>4, <1>9 DEF Good, Duty
    <2>2. s.drop = {}
      BY <1>1, <1>2, <1>3 DEF Shape, SameLists
    <2> QED
      BY <1>2, <1>3, <1>4, <1>7, <2>1, <2>2 DEF Good, Duty, Pending, Condemned, Of, Listing, Visiting
  <1> QED
    BY <1>1, <1>2, <1>5, <1>6, <1>7, <1>8, <1>9, OneRight

LEMMA AddExpiryRight ==
  ASSUME TypeOK, NEW x \in Tasks, Shape(x, job[x]), AddExpiry(x)
  PROVE  Right(x)
  <1>1. job[x] \in Jobs /\ job[x].at = "expire" /\ now' = now /\ UNCHANGED <<exists, held, banEnd>>
    BY DEF TypeOK, AddExpiry
  <1>2. job[x].op \in {"add", "ban"} /\ job[x].drop = {}
    BY <1>1 DEF Shape, Jobs, Lifting, Listing, Visiting
  <1>3. PICK p \in Pairs : p = job[x].pair
    BY <1>1, JobFields
  <1>4. p \in Of(job[x])
    BY <1>1, <1>2, <1>3 DEF Of
  <1>5. CASE job[x].op = "ban"
    <2>1. Goto(x, "record") /\ UNCHANGED want
      BY <1>5 DEF AddExpiry, Added
    <2>2. PICK s \in Jobs : /\ Moves(x, s) /\ s.at = "record" /\ s.pair = job[x].pair /\ SameTask(s, job[x])
                            /\ SameLists(s, job[x]) /\ SameActive(s, job[x]) /\ SameVisit(s, job[x])
      BY <2>1, GotoMoves, "record" \in Steps DEF Steps
    <2>3. Shape(x, s) /\ s.op = "ban" /\ s.drop = {} /\ job[x].until = 0
      BY <1>5, <2>2 DEF Shape, SameLists, SameTask
    <2>4. Only(p) /\ expiry'[p] = 0 /\ Held(p)' = Held(p)
      BY <1>1, <1>3, <2>1, <2>3, ExpirySet DEF AddExpiry
    <2>5. ASSUME NEW r \in Pairs \ {p}, Good(job[x], r) PROVE Good(s, r)
      BY <1>1, <1>3, <1>5, <2>2, <2>3, <2>5
      DEF Good, Duty, Pending, Condemned, Of, Shape, SameLists, Listing, Visiting
    <2>6. ASSUME Good(job[x], p) PROVE Good(s, p)'
      <3>1. p[2] \in exists' /\ Held(p)'
        BY <1>1, <1>3, <2>4, <2>6 DEF Good, Duty
      <3> QED
        BY <1>3, <2>2, <2>3, <2>4, <3>1 DEF Good, Duty, Pending, Condemned, Of, Listing, Visiting
    <2> QED
      BY <1>1, <1>4, <2>2, <2>3, <2>4, <2>5, <2>6, OneRight
  <1>6. CASE job[x].op = "add"
    <2>1. Decide({p}, TRUE, job[x].until, ~(GroupAt(x) = Banned /\ KeyAt(x) \in DOMAIN banEnd))
      BY <1>3, <1>6 DEF AddExpiry, Added
    <2>2. /\ want'[p].in = TRUE /\ want'[p].until = job[x].until
          /\ want'[p].clean = ~(GroupAt(x) = Banned /\ KeyAt(x) \in DOMAIN banEnd)
          /\ \A r \in Pairs \ {p} : want'[r] = want[r]
      BY <2>1 DEF Decide
    <2>3. want'[p].clean => ~Recorded(p)
      BY <1>3, <2>2 DEF Recorded, GroupAt, KeyAt
    <2>4. PICK s \in Jobs :
            /\ Moves(x, s) /\ s.at = "mirror" /\ s.pair = job[x].pair /\ s.op = "add"
            /\ s.until = 0 /\ s.drop = {} /\ s.mirror = {job[x].pair}
      BY <1>2, <1>6, AddExpiryMoves
    <2>5. Shape(x, s)
      BY <2>4 DEF Shape
    <2>6. Only(p) /\ expiry'[p] = job[x].until /\ Held(p)' = Held(p) /\ Recorded(p)' = Recorded(p)
      BY <1>1, <1>3, <2>2, ExpirySet DEF AddExpiry
    <2>7. ASSUME NEW r \in Pairs \ {p}, Good(job[x], r) PROVE Good(s, r)
      BY <1>1, <1>2, <1>3, <1>6, <2>4, <2>7
      DEF Good, Duty, Pending, Condemned, Of, Shape, Listing, Visiting
    <2>8. ASSUME Good(job[x], p) PROVE Good(s, p)'
      <3>1. p[2] \in exists' /\ Held(p)'
        BY <1>1, <1>3, <2>6, <2>8 DEF Good, Duty
      <3>2. want'[p].clean => Kept(p)'
        BY <2>2, <2>3, <2>6, <3>1 DEF Kept, Stands
      <3> QED
        BY <1>3, <2>2, <2>4, <3>1, <3>2 DEF Good, Duty, Condemned, Of, Listing, Visiting
    <2> QED
      BY <1>1, <1>4, <2>4, <2>5, <2>6, <2>7, <2>8, OneRight
  <1> QED
    BY <1>2, <1>5, <1>6

LEMMA BanRecordRight ==
  ASSUME TypeOK, NEW x \in Tasks, Shape(x, job[x]), BanRecord(x)
  PROVE  Right(x)
  <1>1. job[x] \in Jobs /\ job[x].at = "record"
    BY DEF TypeOK, BanRecord
  <1>2. PICK end : WriteBan(x, end)
    BY DEF BanRecord
  <1>3. job[x].op = "ban" /\ job[x].drop = {} /\ job[x].mirror = {} /\ job[x].pair[2] = Banned
    BY <1>1 DEF Shape, Jobs, Lifting, Listing, Visiting
  <1>4. PICK p \in Pairs : p = job[x].pair
    BY <1>1, JobFields
  <1>5. p \in Of(job[x]) /\ p[2] = Banned
    BY <1>1, <1>3, <1>4 DEF Of
  <1>6. PICK s \in Jobs : /\ Moves(x, s) /\ s.at = "kick" /\ s.pair = job[x].pair /\ SameTask(s, job[x])
                          /\ SameLists(s, job[x])
    BY <1>2, GotoMoves, "kick" \in Steps DEF Steps, WriteBan
  <1>7. Shape(x, s) /\ s.op = "ban" /\ s.drop = {}
    BY <1>3, <1>6 DEF Shape, SameLists, SameTask
  <1>8. /\ banEnd' = [k \in DOMAIN banEnd \cup {p[1]} |-> IF k = p[1] THEN end ELSE banEnd[k]]
        /\ UNCHANGED <<now, exists, held, expiry>>
    BY <1>2, <1>4 DEF WriteBan, KeyAt
  <1>9. /\ want'[p].in = TRUE /\ want'[p].until = end /\ \A r \in Pairs \ {p} : want'[r] = want[r]
    BY <1>2, <1>4 DEF WriteBan, Decide
  <1>10. Only(p)
    <2>1. ASSUME NEW r \in Pairs, r # p, r[2] = Banned PROVE r[1] # p[1]
      BY <1>5, <2>1, PairParts
    <2> QED
      BY <1>5, <1>8, <1>9, <2>1 DEF Only, Same, Held, Recorded
  <1>11. ASSUME NEW r \in Pairs \ {p}, Good(job[x], r) PROVE Good(s, r)
    BY <1>1, <1>3, <1>4, <1>6, <1>7, <1>11
    DEF Good, Duty, Pending, Condemned, Of, SameLists, Listing, Visiting
  <1>12. ASSUME Good(job[x], p) PROVE Good(s, p)'
    <2>1. Held(p)' /\ expiry'[p] = 0 /\ (Held(p)' => p[2] \in exists')
      BY <1>1, <1>4, <1>8, <1>12 DEF Good, Duty, Held
    <2>2. Recorded(p)' /\ banEnd'[p[1]] = end
      BY <1>5, <1>8 DEF Recorded
    <2>3. Kept(p)'
      BY <1>9, <2>1, <2>2 DEF Kept, Stands
    <2> QED
      BY <1>4, <1>6, <1>7, <2>1, <2>3 DEF Good, Duty, Condemned, Of, Listing, Visiting
  <1> QED
    BY <1>5, <1>6, <1>7, <1>8, <1>10, <1>11, <1>12, OneRight

LEMMA RemoveUserGroupRight ==
  ASSUME TypeOK, NEW x \in Tasks, Shape(x, job[x]), NEW k \in Keys, NEW g \in Groups, RemoveUserGroup(x, k, g)
  PROVE  Right(x)
  <1>1. PICK p \in Pairs : p = <<k, g>>
    BY PairParts
  <1>2. PICK s \in Jobs :
            /\ Moves(x, s) /\ Fresh(s, "remove", "drop", p)
            /\ s.clock = 0 /\ s.until = 0 /\ s.drop = {p} /\ s.mirror = {p}
    BY <1>1, RemoveUserGroupMoves
  <1>3. Shape(x, s)
    BY <1>2 DEF Shape, Fresh
  <1>4. Of(s) = {p} /\ Of(job[x]) = {} /\ job[x] \in Jobs
    BY <1>2, IdleFree DEF Of, Fresh, RemoveUserGroup, TypeOK
  <1>5. UNCHANGED <<now, exists, held, expiry, banEnd>> /\ Decide({p}, FALSE, 0, TRUE)
    BY <1>1 DEF RemoveUserGroup, store
  <1>6. want'[p].in = FALSE /\ \A r \in Pairs \ {p} : want'[r] = want[r]
    BY <1>5 DEF Decide
  <1>7. Only(p)
    BY <1>5, <1>6 DEF Only, Same, Held, Recorded
  <1>8. ASSUME NEW r \in Pairs, Good(job[x], r) PROVE (want[r].clean => Kept(r)) /\ (Held(r) => r[2] \in exists)
    BY <1>4, <1>8, Settles
  <1>9. ASSUME NEW r \in Pairs \ {p}, Good(job[x], r) PROVE Good(s, r)
    BY <1>2, <1>4, <1>8, <1>9 DEF Good, Duty, Condemned, Fresh, Listing, Visiting
  <1>10. ASSUME Good(job[x], p) PROVE Good(s, p)'
    <2>1. Held(p)' => p[2] \in exists'
      BY <1>5, <1>8, <1>10 DEF Held
    <2> QED
      BY <1>2, <1>6, <2>1 DEF Good, Duty, Pending, Condemned, InForce, Fresh, Listing, Visiting
  <1> QED
    BY <1>2, <1>3, <1>4, <1>5, <1>7, <1>9, <1>10, OneRight

LEMMA BanUserRight ==
  ASSUME TypeOK, NEW x \in Tasks, Shape(x, job[x]), NEW c \in Conns, BanUser(x, c)
  PROVE  Right(x)
  <1>1. PICK p \in Pairs : p = <<KeyOf[c], Banned>> /\ p[2] = Banned
    BY PairParts, Constants
  <1>2. PICK s \in Jobs :
            /\ Moves(x, s) /\ Fresh(s, "ban", "write", p)
            /\ s.clock = 0 /\ s.until = 0 /\ s.drop = {} /\ s.mirror = {}
    BY <1>1, BanUserMoves
  <1>3. Shape(x, s)
    BY <1>1, <1>2 DEF Shape, Fresh
  <1>4. Of(s) = {p} /\ Of(job[x]) = {} /\ job[x] \in Jobs
    BY <1>2, IdleFree DEF Of, Fresh, BanUser, TypeOK
  <1>5. UNCHANGED <<now, held, expiry, banEnd, want>> /\ exists' = exists \cup {Banned}
    BY DEF BanUser
  <1>6. \A r \in Pairs : Same(r)
    BY <1>5 DEF Same, Held, Recorded
  <1>7. ASSUME NEW r \in Pairs, Good(job[x], r) PROVE (want[r].clean => Kept(r)) /\ (Held(r) => r[2] \in exists)
    BY <1>4, <1>7, Settles
  <1>8. ASSUME NEW r \in Pairs \ {p}, Good(job[x], r) PROVE Good(s, r)
    BY <1>2, <1>7, <1>8 DEF Good, Duty, Condemned, Fresh, Listing, Visiting
  <1>9. ASSUME Good(job[x], p) PROVE Good(s, p)'
    <2>1. (want'[p].clean => Kept(p)') /\ (Held(p)' => p[2] \in exists')
      BY <1>5, <1>6, <1>7, <1>9, KeptSame, Clocks DEF Same
    <2>2. p[2] \in exists'
      BY <1>1, <1>5
    <2> QED
      BY <1>2, <2>1, <2>2 DEF Good, Duty, Condemned, Fresh, Listing, Visiting
  <1> QED
    BY <1>2, <1>3, <1>4, <1>5, <1>6, <1>8, <1>9, OneRight DEF Only

LEMMA InsertGroupRight ==
  ASSUME TypeOK, NEW x \in Tasks, Shape(x, job[x]), InsertGroup(x)
  PROVE  Right(x)
  <1>1. job[x] \in Jobs /\ job[x].at = "insert" /\ UNCHANGED <<now, held, expiry, banEnd, want>> /\ exists \subseteq exists'
    BY DEF TypeOK, InsertGroup
  <1>2. job[x].op = "create" /\ job[x].drop = {}
    BY <1>1 DEF Shape, Jobs, Lifting, Listing, Visiting
  <1>3. Moves(x, NoJob) /\ Shape(x, NoJob)
    BY DoneMoves, NoJobShape DEF InsertGroup
  <1>4. \A p \in Pairs : Same(p)
    BY <1>1 DEF Same, Held, Recorded
  <1>5. \A p \in Pairs : Good(job[x], p) => Good(NoJob, p)
    BY <1>1, <1>2, NoJobGood DEF Good, Pending, Visiting
  <1>6. Clocked
    BY <1>1, Clocks
  <1>7. Local(x, NoJob)
    BY <1>4, <1>5, <1>6, TouchLocal, {} \in SUBSET Pairs
  <1> QED
    BY <1>3, <1>7 DEF Right

LEMMA DeleteGroupRight ==
  ASSUME TypeOK, NEW x \in Tasks, Shape(x, job[x]), NEW g \in Groups, DeleteGroup(x, g)
  PROVE  Right(x)
  <1>1. PICK P \in SUBSET Pairs : P = Keys \X {g}
    BY DEF Pairs
  <1>2. job[x] \in Jobs /\ Of(job[x]) = {}
    BY IdleFree DEF DeleteGroup, TypeOK
  <1>3. PICK s \in Jobs :
            /\ Moves(x, s) /\ Fresh(s, "delete", "read", <<job[x].pair[1], g>>)
            /\ s.clock = 0 /\ s.until = 0 /\ s.drop = {} /\ s.mirror = {}
    BY DeleteGroupMoves
  <1>4. s.op = "delete" /\ s.at = "read" /\ s.pair[2] = g
    BY <1>3 DEF Fresh
  <1>5. Shape(x, s) /\ Of(s) = P
    BY <1>1, <1>3, <1>4 DEF Shape, Of, Visiting
  <1>6. UNCHANGED <<now, exists, held, expiry, banEnd>> /\ Decide(P, FALSE, 0, TRUE)
    BY <1>1 DEF DeleteGroup, store
  <1>7. /\ \A p \in P : want'[p].in = FALSE
        /\ \A p \in Pairs \ P : want'[p] = want[p]
    BY <1>6 DEF Decide
  <1>8. ASSUME NEW p \in Pairs, Good(job[x], p) PROVE (want[p].clean => Kept(p)) /\ (Held(p) => p[2] \in exists)
    BY <1>2, <1>8, Settles
  <1>9. \A p \in Pairs : p \in P <=> p[2] = g
    BY <1>1, PairParts
  <1>10. ASSUME NEW p \in Pairs \ P PROVE Same(p) /\ (Good(job[x], p) => Good(s, p))
    <2>1. Same(p)
      BY <1>6, <1>7 DEF Same, Held, Recorded
    <2>2. ASSUME Good(job[x], p) PROVE Good(s, p)
      BY <1>3, <1>4, <1>5, <1>8, <1>9, <2>2 DEF Good, Duty, Condemned, Listing, Visiting
    <2> QED
      BY <2>1, <2>2
  <1>11. ASSUME NEW p \in P, Good(job[x], p) PROVE Good(s, p)'
    <2>1. p \in Pairs /\ p[2] = g /\ want'[p].in = FALSE
      BY <1>1, <1>7, <1>9
    <2>2. Held(p)' => p[2] \in exists'
      BY <1>6, <1>8, <1>11, <2>1 DEF Held
    <2> QED
      BY <1>3, <1>4, <2>1, <2>2 DEF Good, Duty, Pending, Condemned, InForce, Listing, Visiting
  <1>12. Clocked
    BY <1>6, Clocks
  <1>13. Local(x, s)
    BY <1>5, <1>10, <1>11, <1>12, TouchLocal
  <1> QED
    BY <1>3, <1>5, <1>13 DEF Right

LEMMA RemoveGroupRight ==
  ASSUME TypeOK, NEW x \in Tasks, Shape(x, job[x]), RemoveGroup(x)
  PROVE  Right(x)
  <1>1. job[x] \in Jobs /\ job[x].at = "unlist" /\ UNCHANGED <<now, held, expiry, banEnd, want>>
        /\ exists' = exists \ {job[x].pair[2]}
    BY DEF TypeOK, RemoveGroup, GroupAt
  <1>2. job[x].op = "delete" /\ job[x].drop = {}
    BY <1>1 DEF Shape, Jobs, Lifting, Listing, Visiting
  <1>3. PICK P \in SUBSET Pairs : P = Of(job[x]) /\ \A p \in Pairs : p \in P <=> p[2] = job[x].pair[2]
    <2>1. Of(job[x]) = Keys \X {job[x].pair[2]} /\ job[x].pair[2] \in Groups
      BY <1>1, <1>2, JobFields, PairParts DEF Of
    <2> QED
      BY <2>1, PairParts DEF Pairs
  <1>4. Moves(x, NoJob) /\ Shape(x, NoJob)
    BY DoneMoves, NoJobShape DEF RemoveGroup
  <1>5. ASSUME NEW p \in Pairs \ P PROVE Same(p) /\ (Good(job[x], p) => Good(NoJob, p))
    <2>1. Same(p)
      BY <1>1, <1>3 DEF Same, Held, Recorded
    <2>2. ~Pending(job[x], p)
      BY <1>1, <1>2 DEF Pending, Visiting
    <2> QED
      BY <2>1, <2>2, NoJobGood DEF Good
  <1>6. ASSUME NEW p \in P, Good(job[x], p) PROVE Good(NoJob, p)'
    <2>1. ~Held(p) /\ ~want[p].in
      BY <1>1, <1>2, <1>3, <1>6 DEF Good, Duty
    <2>2. ~Held(p)' /\ Kept(p)'
      BY <1>1, <2>1 DEF Held, Kept, InForce
    <2> QED
      BY <2>2, NoJobType DEF Good, Duty, Condemned, Of, Listing, Visiting
  <1>7. Clocked
    BY <1>1, Clocks
  <1>8. Local(x, NoJob)
    BY <1>3, <1>5, <1>6, <1>7, TouchLocal
  <1> QED
    BY <1>4, <1>8 DEF Right

-----------------------------------------------------------------------------
(* Types *)
DataType ==
    /\ now \in 1..MaxTime
    /\ exists \subseteq Groups
    /\ held \in [Keys -> SUBSET Groups]
    /\ expiry \in [Pairs -> Time]
    /\ DOMAIN banEnd \subseteq Keys /\ banEnd \in [DOMAIN banEnd -> Time]
    /\ link \in [Conns -> {"new", "login", "on", "gone"}]
    /\ cache \in [Conns -> SUBSET Groups]
    /\ want \in [Pairs -> [in : BOOLEAN, until : Time, clean : BOOLEAN, since : Time]]

LEMMA HeldType ==
  ASSUME TypeOK, NEW k \in Keys, NEW G \in SUBSET Groups, held' = [held EXCEPT ![k] = G]
  PROVE  held' \in [Keys -> SUBSET Groups]
  BY DEF TypeOK

LEMMA ExpiryType ==
  ASSUME TypeOK, NEW p \in Pairs, NEW u \in Time, expiry' = [expiry EXCEPT ![p] = u]
  PROVE  expiry' \in [Pairs -> Time]
  BY DEF TypeOK

LEMMA LeaveType ==
  ASSUME TypeOK, NEW C, Leave(C)
  PROVE  link' \in [Conns -> {"new", "login", "on", "gone"}] /\ cache' \in [Conns -> SUBSET Groups]
  BY DEF TypeOK, Leave

LEMMA DecideType ==
  ASSUME TypeOK, NEW P, NEW i \in BOOLEAN, NEW u \in Time, NEW c \in BOOLEAN, Decide(P, i, u, c)
  PROVE  want' \in [Pairs -> [in : BOOLEAN, until : Time, clean : BOOLEAN, since : Time]]
  <1>1. now \in Time /\ want \in [Pairs -> [in : BOOLEAN, until : Time, clean : BOOLEAN, since : Time]]
    BY Constants DEF TypeOK, Time
  <1>2. PICK d : d = [in |-> i, until |-> u, clean |-> c, since |-> now]
    OBVIOUS
  <1>3. d \in [in : BOOLEAN, until : Time, clean : BOOLEAN, since : Time]
    BY <1>1, <1>2
  <1>4. want' = [p \in Pairs |-> IF p \in P THEN d ELSE want[p]]
    BY <1>2 DEF Decide
  <1> QED
    BY <1>1, <1>3, <1>4

LEMMA StoreSame == ASSUME TypeOK, UNCHANGED <<now, store, link, cache, want>> PROVE DataType'
  BY DEF TypeOK, DataType, store

LEMMA ContinueType ==
  ASSUME TypeOK, NEW x \in Tasks, Continue(x)
  PROVE  DataType'
  <1>0. /\ job[x].pair \in Pairs /\ job[x].pair[1] \in Keys /\ job[x].pair[2] \in Groups
        /\ job[x].drop \subseteq Pairs /\ job[x].until \in Time /\ job[x].active \subseteq Groups
        /\ job[x].seen \subseteq Groups /\ job[x].conn \in Conns
    BY JobFields, PairParts DEF TypeOK
  <1>t. 0 \in Time /\ held \in [Keys -> SUBSET Groups]
    BY Constants DEF Time, TypeOK
  <1>1. CASE DropHeld(x)
    <2>1. PICK p \in job[x].drop : held' = [held EXCEPT ![p[1]] = held[p[1]] \ {p[2]}]
      BY <1>1 DEF DropHeld
    <2>2. p[1] \in Keys
      BY <1>0, PairParts
    <2>3. held' \in [Keys -> SUBSET Groups]
      BY <1>t, <2>1, <2>2, HeldType
    <2> QED
      BY <1>1, <2>3 DEF DropHeld, TypeOK, DataType
  <1>2. CASE DropBan(x)
    BY <1>2 DEF DropBan, TypeOK, DataType
  <1>3. CASE DropBanned(x)
    <2>1. held' \in [Keys -> SUBSET Groups]
      BY <1>0, <1>t, <1>3, HeldType DEF DropBanned, KeyAt
    <2> QED
      BY <1>3, <2>1 DEF DropBanned, TypeOK, DataType
  <1>4. CASE DropExpiry(x)
    BY <1>0, <1>t, <1>4, ExpiryType DEF DropExpiry, TypeOK, DataType
  <1>5. CASE MirrorNext(x) \/ MirrorRead(x) \/ MirrorDone(x)
    BY <1>5, StoreSame DEF MirrorNext, MirrorRead, MirrorDone
  <1>6. CASE MirrorWrite(x)
    <2>1. cache' \in [Conns -> SUBSET Groups]
      <3>1. PICK new \in SUBSET Groups :
              new = IF job[x].op = "add" THEN job[x].seen \cup {GroupAt(x)} ELSE job[x].seen \ {GroupAt(x)}
        BY <1>0 DEF GroupAt
      <3>2. cache' = cache \/ cache' = [cache EXCEPT ![job[x].conn] = new]
        BY <1>6, <3>1 DEF MirrorWrite
      <3> QED
        BY <1>0, <3>2 DEF TypeOK
    <2> QED
      BY <1>6, <2>1 DEF MirrorWrite, TypeOK, DataType, store
  <1>7. CASE ActiveList(x) \/ ActiveExpiry(x) \/ Listed(x)
    BY <1>7, StoreSame DEF ActiveList, ActiveExpiry, Listed
  <1>8. CASE DropLapsed(x)
    <2>1. held' \in [Keys -> SUBSET Groups]
      BY <1>0, <1>t, <1>8, HeldType DEF DropLapsed, KeyAt
    <2> QED
      BY <1>8, <2>1 DEF DropLapsed, TypeOK, DataType
  <1>9. CASE EraseLapsed(x)
    BY <1>0, <1>t, <1>9, ExpiryType DEF EraseLapsed, TypeOK, DataType
  <1>10. CASE AddHeld(x)
    <2>1. held' \in [Keys -> SUBSET Groups]
      BY <1>0, <1>t, <1>10, HeldType DEF AddHeld, KeyAt, GroupAt
    <2> QED
      BY <1>10, <2>1 DEF AddHeld, TypeOK, DataType
  <1>11. CASE AddExpiry(x)
    <2>1. want' \in [Pairs -> [in : BOOLEAN, until : Time, clean : BOOLEAN, since : Time]]
      <3>1. CASE job[x].op = "ban"
        BY <1>11, <3>1 DEF AddExpiry, Added, TypeOK
      <3>2. CASE job[x].op # "ban"
        BY <1>0, <1>11, <3>2, DecideType DEF AddExpiry, Added
      <3> QED
        BY <3>1, <3>2
    <2>2. expiry' \in [Pairs -> Time]
      BY <1>0, <1>11, ExpiryType DEF AddExpiry
    <2> QED
      BY <1>11, <2>1, <2>2 DEF AddExpiry, TypeOK, DataType
  <1>12. CASE BanRecord(x)
    <2>1. PICK end \in Time : WriteBan(x, end)
      BY <1>t, <1>12, Constants DEF BanRecord, Time, TypeOK
    <2>2. want' \in [Pairs -> [in : BOOLEAN, until : Time, clean : BOOLEAN, since : Time]]
      BY <2>1, DecideType DEF WriteBan
    <2>3. DOMAIN banEnd' \subseteq Keys /\ banEnd' \in [DOMAIN banEnd' -> Time]
      BY <1>0, <2>1 DEF WriteBan, KeyAt, TypeOK
    <2> QED
      BY <2>1, <2>2, <2>3 DEF WriteBan, TypeOK, DataType
  <1>13. CASE BanKick(x)
    BY <1>13, LeaveType DEF BanKick, TypeOK, DataType, store
  <1>14. CASE InsertGroup(x) \/ RemoveGroup(x)
    BY <1>0, <1>14 DEF InsertGroup, RemoveGroup, GroupAt, TypeOK, DataType
  <1>15. CASE LoginCheck(x)
    BY <1>15, LeaveType DEF LoginCheck, TypeOK, DataType, store
  <1>16. CASE LoginLoad(x)
    BY <1>0, <1>16 DEF LoginLoad, TypeOK, DataType, store
  <1>17. CASE LoginEnter(x)
    BY <1>17 DEF LoginEnter, TypeOK, DataType, store
  <1>18. CASE SweepScan(x)
    BY <1>18, StoreSame DEF SweepScan, SweepPairs
  <1> QED
    BY <1>1, <1>2, <1>3, <1>4, <1>5, <1>6, <1>7, <1>8, <1>9, <1>10, <1>11, <1>12, <1>13, <1>14, <1>15, <1>16,
       <1>17, <1>18 DEF Continue

LEMMA RequestType ==
  ASSUME TypeOK, NEW x \in Tasks, Request(x)
  PROVE  DataType'
  <1>t. 0 \in Time
    BY Constants DEF Time
  <1>1. CASE \E k \in Keys : ListRegistered(x, k)
    BY <1>1, StoreSame DEF ListRegistered
  <1>2. CASE \E k \in Keys, g \in Groups : RemoveUserGroup(x, k, g)
    <2>1. PICK k \in Keys, g \in Groups : RemoveUserGroup(x, k, g)
      BY <1>2
    <2>2. want' \in [Pairs -> [in : BOOLEAN, until : Time, clean : BOOLEAN, since : Time]]
      BY <1>t, <2>1, DecideType DEF RemoveUserGroup
    <2> QED
      BY <2>1, <2>2 DEF RemoveUserGroup, TypeOK, DataType, store
  <1>3. CASE \E k \in Keys, g \in Groups : \E until \in {0} \cup (now + 1)..MaxTime : AddUserGroup(x, k, g, until)
    BY <1>3, StoreSame DEF AddUserGroup
  <1>4. CASE \E c \in Conns : BanUser(x, c)
    BY <1>4, Constants DEF BanUser, TypeOK, DataType
  <1>5. CASE \E g \in Groups : CreateGroup(x, g)
    BY <1>5, StoreSame DEF CreateGroup
  <1>6. CASE \E g \in Groups : DeleteGroup(x, g)
    <2>1. PICK g \in Groups : DeleteGroup(x, g)
      BY <1>6
    <2>2. want' \in [Pairs -> [in : BOOLEAN, until : Time, clean : BOOLEAN, since : Time]]
      BY <1>t, <2>1, DecideType DEF DeleteGroup
    <2> QED
      BY <2>1, <2>2 DEF DeleteGroup, TypeOK, DataType, store
  <1> QED
    BY <1>1, <1>2, <1>3, <1>4, <1>5, <1>6 DEF Request

-----------------------------------------------------------------------------
(* The whole of a task's steps *)
Timely(x) == job[x].clock <= now
Punctual(x) == \E s \in Jobs : Moves(x, s) /\ s.clock \in {0, now, job[x].clock}

LEMMA OnwardClock == ASSUME NEW s, NEW j, Onward(s, j) PROVE s.clock \in {0, j.clock}
  BY NoJobType DEF Onward, SameTask

LEMMA ContinueClock ==
  ASSUME TypeOK, NEW x \in Tasks, Shape(x, job[x]), Continue(x)
  PROVE  Punctual(x)
  <1>g. ASSUME NEW a \in Steps, Goto(x, a) PROVE Punctual(x)
    BY <1>g, GotoMoves DEF Punctual, SameTask
  <1>d. ASSUME Done(x) PROVE Punctual(x)
    BY <1>d, DoneMoves, NoJobType DEF Punctual
  <1>s. /\ "erase" \in Steps /\ "eraseLapsed" \in Steps /\ "expiries" \in Steps /\ "expire" \in Steps
        /\ "record" \in Steps /\ "kick" \in Steps /\ "enter" \in Steps
    BY DEF Steps
  <1>1. CASE DropHeld(x)
    BY <1>1, DropHeldMoves DEF Punctual, SameTask
  <1>2. CASE DropBan(x)
    BY <1>2, DropBanMoves DEF Punctual, SameTask
  <1>3. CASE DropBanned(x) \/ DropLapsed(x) \/ EraseLapsed(x) \/ AddHeld(x) \/ LoginLoad(x) \/ BanRecord(x)
    BY <1>3, <1>g, <1>s DEF DropBanned, DropLapsed, EraseLapsed, AddHeld, LoginLoad, BanRecord, WriteBan
  <1>4. CASE DropExpiry(x)
    BY <1>4, DropExpiryMoves, OnwardClock DEF Punctual
  <1>5. CASE MirrorNext(x)
    BY <1>5, MirrorNextMoves DEF Punctual, SameTask
  <1>6. CASE MirrorRead(x)
    BY <1>6, MirrorReadMoves DEF Punctual, SameTask
  <1>7. CASE MirrorWrite(x)
    BY <1>7, MirrorWriteMoves DEF Punctual, SameTask
  <1>8. CASE MirrorDone(x)
    <2>1. PICK s \in Jobs, t \in Jobs : Moves(x, s) /\ Onward(s, t) /\ t.clock = job[x].clock
      BY <1>8, MirrorDoneMoves DEF SameTask
    <2> QED
      BY <2>1, OnwardClock DEF Punctual
  <1>9. CASE ActiveList(x)
    BY <1>9, ActiveListMoves DEF Punctual, SameTask
  <1>10. CASE ActiveExpiry(x)
    BY <1>10, ActiveExpiryMoves DEF Punctual, SameTask
  <1>11. CASE Listed(x) \/ BanKick(x) \/ InsertGroup(x) \/ RemoveGroup(x) \/ LoginEnter(x)
    BY <1>11, <1>d DEF Listed, BanKick, InsertGroup, RemoveGroup, LoginEnter
  <1>12. CASE AddExpiry(x)
    <2>1. CASE job[x].op = "ban"
      BY <1>12, <1>g, <1>s, <2>1 DEF AddExpiry, Added
    <2>2. CASE job[x].op # "ban"
      BY <1>12, <2>2, AddExpiryMoves DEF Punctual
    <2> QED
      BY <2>1, <2>2
  <1>13. CASE LoginCheck(x)
    <2>1. x \in Conns
      BY <1>13 DEF LoginCheck, Shape
    <2> QED
      BY <1>13, <1>d, <2>1, LoginGoesOn DEF LoginCheck, Punctual
  <1>14. CASE SweepScan(x)
    <2>1. PICK s \in Jobs, t \in Jobs : Moves(x, s) /\ Onward(s, t) /\ t.clock = job[x].clock
      BY <1>14, SweepScanMoves
    <2> QED
      BY <2>1, OnwardClock DEF Punctual
  <1> QED
    BY <1>1, <1>2, <1>3, <1>4, <1>5, <1>6, <1>7, <1>8, <1>9, <1>10, <1>11, <1>12, <1>13, <1>14 DEF Continue

LEMMA RequestClock ==
  ASSUME TypeOK, NEW x \in Tasks, Request(x)
  PROVE  Punctual(x)
  <1>1. CASE \E k \in Keys : ListRegistered(x, k)
    BY <1>1, ListRegisteredMoves DEF Punctual
  <1>2. CASE \E k \in Keys, g \in Groups : RemoveUserGroup(x, k, g)
    BY <1>2, RemoveUserGroupMoves DEF Punctual
  <1>3. CASE \E k \in Keys, g \in Groups, u \in Time : AddUserGroup(x, k, g, u)
    <2>1. PICK k \in Keys, g \in Groups, u \in Time : AddUserGroup(x, k, g, u)
      BY <1>3
    <2>2. PICK s \in Jobs :
            /\ Moves(x, s) /\ Fresh(s, "add", "write", <<k, g>>)
            /\ s.clock = 0 /\ s.until = u /\ s.drop = {} /\ s.mirror = {} /\ s.visit = {}
      BY <2>1, AddUserGroupMoves
    <2> QED
      BY <2>2 DEF Punctual
  <1>4. CASE \E c \in Conns : BanUser(x, c)
    <2>1. PICK c \in Conns : BanUser(x, c)
      BY <1>4
    <2>2. PICK s \in Jobs :
            /\ Moves(x, s) /\ Fresh(s, "ban", "write", <<KeyOf[c], Banned>>)
            /\ s.clock = 0 /\ s.until = 0 /\ s.drop = {} /\ s.mirror = {} /\ s.visit = {} /\ s.conn = c
      BY <2>1, BanUserMoves
    <2> QED
      BY <2>2 DEF Punctual
  <1>5. CASE \E g \in Groups : CreateGroup(x, g)
    BY <1>5, CreateGroupMoves DEF Punctual
  <1>6. CASE \E g \in Groups : DeleteGroup(x, g)
    BY <1>6, DeleteGroupMoves DEF Punctual
  <1>7. \A u \in {0} \cup (now + 1)..MaxTime : u \in Time
    BY Constants DEF Time, TypeOK
  <1> QED
    BY <1>1, <1>2, <1>3, <1>4, <1>5, <1>6, <1>7 DEF Request

LEMMA ContinueRight ==
  ASSUME TypeOK, NEW x \in Tasks, Shape(x, job[x]), Timely(x), Continue(x)
  PROVE  Right(x)
  <1>1. LoginCheck(x) \/ LoginLoad(x) \/ LoginEnter(x) => x \in Conns
    <2>1. job[x].at = "enter" => job[x].op = "load"
      BY DEF Shape, TypeOK, Jobs, Lifting, Listing, Visiting
    <2> QED
      BY <2>1 DEF LoginCheck, LoginLoad, LoginEnter, Shape
  <1> QED
    BY <1>1, DropHeldRight, DropBanRight, DropBannedRight, DropExpiryRight, MirrorNextRight, MirrorReadRight,
       MirrorWriteRight, MirrorDoneRight, ActiveListRight, ActiveExpiryRight, DropLapsedRight, EraseLapsedRight,
       ListedRight, AddHeldRight, AddExpiryRight, BanRecordRight, BanKickRight, InsertGroupRight,
       RemoveGroupRight, LoginCheckRight, LoginLoadRight, LoginEnterRight, SweepScanRight
    DEF Continue, Timely

LEMMA RequestRight ==
  ASSUME TypeOK, NEW x \in Tasks, Shape(x, job[x]), Request(x)
  PROVE  Right(x)
  <1>1. \A u \in {0} \cup (now + 1)..MaxTime : u \in Time
    BY Constants DEF Time, TypeOK
  <1> QED
    BY <1>1, ListRegisteredRight, RemoveUserGroupRight, AddUserGroupRight, BanUserRight, CreateGroupRight,
       DeleteGroupRight DEF Request

(* A pair nobody can be at twice: what two jobs come to is disputed. *)
PairsInv ==
    /\ TypeOK
    /\ \A x \in Tasks : Shape(x, job[x]) /\ Timely(x)
    /\ Contended \subseteq disputed
    /\ PairInv

(* One task goes on, and nothing else happens. *)
Going(x) == Right(x) /\ Punctual(x) /\ DataType' /\ now' = now

LEMMA StepGoes ==
  ASSUME PairsInv, Step
  PROVE  \/ Tick \/ \E c \in Conns : Disconnect(c)
         \/ \E x \in Tasks : Going(x)
  <1> USE DEF PairsInv
  <1>1. CASE \E x \in Admins : Request(x)
    <2>1. PICK x \in Tasks : Request(x)
      BY <1>1, Constants
    <2>2. now' = now
      BY <2>1 DEF Request, ListRegistered, RemoveUserGroup, AddUserGroup, BanUser, CreateGroup, DeleteGroup
    <2> QED
      BY <2>1, <2>2, RequestRight, RequestClock, RequestType DEF Going
  <1>2. CASE \E x \in Tasks : Continue(x)
    <2>1. PICK x \in Tasks : Continue(x)
      BY <1>2
    <2>2. now' = now
      BY <2>1 DEF Continue, DropHeld, DropBan, DropBanned, DropExpiry, MirrorNext, MirrorRead, MirrorWrite,
                  MirrorDone, ActiveList, ActiveExpiry, DropLapsed, EraseLapsed, Listed, AddHeld, AddExpiry,
                  BanRecord, WriteBan, BanKick, InsertGroup, RemoveGroup, LoginCheck, LoginLoad, LoginEnter,
                  SweepScan, SweepPairs
    <2> QED
      BY <2>1, <2>2, ContinueRight, ContinueClock, ContinueType DEF Going
  <1>3. CASE Sweep(Sweeper)
    <2>1. PICK s \in Jobs, t \in Jobs : Moves(Sweeper, s) /\ Onward(s, t) /\ t.clock = now
      BY <1>3, SweepMoves, Constants
    <2>2. Punctual(Sweeper)
      BY <2>1, OnwardClock DEF Punctual
    <2>3. DataType' /\ now' = now
      BY <1>3, StoreSame DEF Sweep
    <2> QED
      BY <1>3, <2>2, <2>3, SweepRight, Constants DEF Going
  <1>4. CASE \E c \in Conns : Login(c)
    <2>1. PICK c \in Conns : Login(c)
      BY <1>4
    <2>2. PICK s \in Jobs, t \in Jobs : Moves(c, s) /\ Onward(s, t) /\ t.clock = now
      BY <2>1, LoginMoves, Constants
    <2>3. Punctual(c)
      BY <2>2, OnwardClock DEF Punctual
    <2>4. DataType' /\ now' = now
      BY <2>1 DEF Login, TypeOK, DataType, store
    <2>5. c \in Tasks
      BY Constants
    <2> QED
      BY <2>1, <2>3, <2>4, <2>5, LoginRight DEF Going
  <1> QED
    BY <1>1, <1>2, <1>3, <1>4 DEF Step

LEMMA HistoryType ==
  ASSUME TypeOK, Next
  PROVE  /\ asked' \in 0..MaxRequests /\ disputed' \subseteq Pairs /\ blurred' \subseteq Conns
         /\ disputed \subseteq disputed' /\ Contended' \subseteq disputed \cup Contended'
  <1>1. MaxRequests \in Nat
    BY GroupsConstants
  <1>2. asked' \in 0..MaxRequests
    BY <1>1 DEF Next, Step, Counted, TypeOK
  <1>3. Contended' \subseteq Pairs /\ Overlooked' \subseteq Conns
    BY DEF Contended, Overlooked, Connected
  <1>4. \A x \in Tasks : At(x) \subseteq Pairs
    <2>1. ASSUME NEW x \in Tasks PROVE At(x) \subseteq Pairs
      <3>1. PICK j \in Jobs : j = job[x]
        BY DEF TypeOK
      <3>2. /\ j.pair \in Pairs /\ j.drop \subseteq Pairs /\ j.mirror \subseteq Pairs
            /\ j.pair[1] \in Keys /\ j.pair[2] \in Groups
        BY JobFields, PairParts
      <3>3. {j.pair[1]} \X Groups \subseteq Pairs /\ Keys \X {j.pair[2]} \subseteq Pairs
        BY <3>2 DEF Pairs
      <3> QED
        BY <3>1, <3>2, <3>3, AtJob DEF Of
    <2> QED
      BY <2>1
  <1> QED
    BY <1>2, <1>3, <1>4 DEF Next, TypeOK

LEMMA GoingKeeps ==
  ASSUME PairsInv, Next, Step, NEW x \in Tasks, Going(x), Contended' \subseteq disputed'
  PROVE  PairsInv'
  <1> USE DEF PairsInv, Going
  <1>1. PICK s : Moves(x, s) /\ Shape(x, s) /\ Local(x, s)
    BY DEF Right
  <1>2. PICK r \in Jobs : Moves(x, r) /\ r.clock \in {0, now, job[x].clock}
    BY DEF Punctual
  <1>3. r = s /\ job'[x] = s
    BY <1>1, <1>2 DEF Moves
  <1>4. TypeOK'
    BY <1>1, HistoryType DEF TypeOK, DataType, Moves
  <1>5. \A z \in Tasks : Shape(z, job[z])'
    <2>1. Shape(x, job'[x])
      BY <1>1, <1>3
    <2>2. \A z \in Tasks : Shape(z, job'[z])
      BY <1>1, <2>1 DEF Moves
    <2> QED
      BY <2>2 DEF Shape
  <1>6. \A z \in Tasks : Timely(z)'
    <2>1. now \in Nat /\ now' = now
      BY DEF TypeOK
    <2>2. \A z \in Tasks : job'[z].clock <= now
      BY <1>1, <1>2, <1>3, <2>1 DEF Moves, Timely
    <2> QED
      BY <2>1, <2>2 DEF Timely
  <1>7. PairInv'
    BY <1>1, PairMove, Clocks, HistoryType DEF TypeOK
  <1> QED
    BY <1>4, <1>5, <1>6, <1>7

(* Time passes, or a client goes: no job moves. *)
LEMMA QuietKeeps ==
  ASSUME PairsInv, job' = job, UNCHANGED <<exists, held, expiry, banEnd, want>>, now' \in Nat, now <= now',
         disputed \subseteq disputed', TypeOK'
  PROVE  PairsInv'
  <1> USE DEF PairsInv
  <1>1. Clocked
    BY Clocks DEF TypeOK, Clocked, Time
  <1>2. PICK j \in Jobs : j = job[Sweeper]
    BY Constants DEF TypeOK
  <1>3. Moves(Sweeper, j) /\ Shape(Sweeper, j)
    BY <1>2, Constants DEF Moves, TypeOK
  <1>4. Local(Sweeper, j)
    BY <1>1, <1>2, StillLocal, Constants
  <1>5. PairInv'
    BY <1>1, <1>3, <1>4, PairMove, Constants DEF TypeOK
  <1>6. \A x \in Tasks : Shape(x, job[x])' /\ Timely(x)'
    <2>1. \A x \in Tasks : job'[x].clock \in Nat /\ job[x].clock <= now
      BY JobFields DEF TypeOK, Timely, Time
    <2>2. now \in Nat
      BY DEF TypeOK
    <2> QED
      BY <2>1, <2>2 DEF Shape, Timely
  <1>7. Contended' \subseteq disputed'
    <2>1. Contended' = Contended
      BY DEF Contended, At, KeyAt, GroupAt
    <2> QED
      BY <2>1
  <1> QED
    BY <1>5, <1>6, <1>7

LEMMA RestartKeeps ==
  ASSUME PairsInv, Restart, disputed' = disputed \cup UNION {At(x) : x \in Tasks}, TypeOK'
  PROVE  PairsInv'
  <1> USE DEF PairsInv
  <1>1. \A x \in Tasks : job'[x] = NoJob /\ At(x)' = {}
    BY NoJobType, AtJob DEF Restart, Of
  <1>2. now' = now /\ UNCHANGED <<exists, held, expiry, banEnd, want>>
    BY DEF Restart, store
  <1>3. \A x \in Tasks : Shape(x, job[x])' /\ Timely(x)'
    <2>1. \A x \in Tasks : Shape(x, job'[x]) /\ job'[x].clock <= now
      BY <1>1, NoJobShape, NoJobType DEF TypeOK
    <2> QED
      BY <1>2, <2>1 DEF Shape, Timely
  <1>4. Contended' = {}
    BY <1>1 DEF Contended
  <1>5. ASSUME NEW p \in Pairs \ disputed' PROVE Good(NoJob, p)'
    <2>1. p \notin disputed /\ \A x \in Tasks : p \notin At(x)
      OBVIOUS
    <2>2. Good(job[Sweeper], p) /\ p \notin Of(job[Sweeper])
      BY <2>1, Constants, AtJob DEF PairInv, Alone
    <2>3. (want[p].clean => Kept(p)) /\ (Held(p) => p[2] \in exists)
      BY <2>2, Settles, Constants DEF TypeOK
    <2>4. Good(NoJob, p) /\ Same(p)
      BY <1>2, <2>3, NoJobGood DEF Same, Held, Recorded
    <2>5. PICK j : j = NoJob
      OBVIOUS
    <2>6. Good(j, p)'
      BY <1>2, <2>4, <2>5, GoodSame, Clocks
    <2> QED
      BY <2>5, <2>6
  <1>6. PairInv'
    <2>1. PICK j : j = NoJob
      OBVIOUS
    <2>2. \A p \in Pairs \ disputed' : Good(j, p)'
      BY <1>5, <2>1
    <2>3. \A x \in Tasks : job'[x] = j
      BY <1>1, <2>1
    <2> QED
      BY <2>2, <2>3 DEF PairInv, Good, Duty, Pending, Condemned, Of
  <1> QED
    BY <1>3, <1>4, <1>6

LEMMA PairsInit == Init => PairsInv
  <1> SUFFICES ASSUME Init PROVE PairsInv
    OBVIOUS
  <1> USE DEF Init
  <1>1. \A x \in Tasks : job[x] = NoJob /\ At(x) = {}
    BY NoJobType DEF At
  <1>2. 0 \in Time /\ MaxRequests \in Nat
    BY Constants, GroupsConstants DEF Time
  <1>3. want \in [Pairs -> [in : BOOLEAN, until : Time, clean : BOOLEAN, since : Time]]
    BY <1>2
  <1>4. TypeOK
    <2>1. now \in 1..MaxTime /\ job \in [Tasks -> Jobs]
      BY Constants, NoJobType
    <2>2. expiry \in [Pairs -> Time] /\ asked \in 0..MaxRequests
      BY <1>2
    <2> QED
      BY <1>3, <2>1, <2>2 DEF TypeOK
  <1>5. \A x \in Tasks : Shape(x, job[x]) /\ Timely(x)
    BY <1>1, NoJobShape, NoJobType DEF Timely
  <1>6. Contended \subseteq disputed
    BY <1>1 DEF Contended
  <1>7. PairInv
    <2>1. ASSUME NEW p \in Pairs PROVE Good(NoJob, p)
      <3>1. ~Held(p) /\ ~InForce(p)
        BY PairParts DEF Held, InForce
      <3> QED
        BY <3>1, NoJobGood DEF Kept
    <2> QED
      BY <1>1, <2>1 DEF PairInv
  <1> QED
    BY <1>4, <1>5, <1>6, <1>7 DEF PairsInv

LEMMA PairsStep == PairsInv /\ [Next]_vars => PairsInv'
  <1> SUFFICES ASSUME PairsInv, [Next]_vars PROVE PairsInv'
    OBVIOUS
  <1>t. TypeOK
    BY DEF PairsInv
  <1>1. CASE UNCHANGED vars
    <2>1. /\ job' = job /\ UNCHANGED <<exists, held, expiry, banEnd, want>> /\ now' = now
          /\ disputed' = disputed /\ UNCHANGED <<link, cache, asked, blurred>>
      BY <1>1 DEF vars, store, history
    <2>2. TypeOK'
      BY <1>t, <2>1 DEF TypeOK
    <2>3. now' \in Nat /\ now <= now'
      BY <1>t, <2>1 DEF TypeOK
    <2> QED
      BY <2>1, <2>2, <2>3, QuietKeeps
  <1>2. CASE Next
    <2>h. /\ asked' \in 0..MaxRequests /\ disputed' \subseteq Pairs /\ blurred' \subseteq Conns
          /\ disputed \subseteq disputed'
      BY <1>t, <1>2, HistoryType
    <2>1. CASE Step /\ disputed' = disputed \cup Contended'
      <3>1. CASE \E x \in Tasks : Going(x)
        BY <1>2, <2>1, <3>1, GoingKeeps
      <3>2. CASE Tick
        <4>1. now' \in 1..MaxTime /\ now' \in Nat /\ now <= now' /\ UNCHANGED <<exists, held, expiry, banEnd, link, cache, job, want>>
          BY <1>t, <3>2, Constants DEF Tick, TypeOK, store
        <4>2. TypeOK'
          BY <1>t, <2>h, <4>1 DEF TypeOK
        <4> QED
          BY <2>h, <4>1, <4>2, QuietKeeps
      <3>3. CASE \E c \in Conns : Disconnect(c)
        <4>1. PICK c \in Conns : Disconnect(c)
          BY <3>3
        <4>2. now' = now /\ UNCHANGED <<exists, held, expiry, banEnd, job, want>>
          BY <4>1 DEF Disconnect, store
        <4>3. link' \in [Conns -> {"new", "login", "on", "gone"}] /\ cache' \in [Conns -> SUBSET Groups]
          BY <1>t, <4>1, LeaveType DEF Disconnect
        <4>4. TypeOK' /\ now' \in Nat /\ now <= now'
          BY <1>t, <2>h, <4>2, <4>3 DEF TypeOK
        <4> QED
          BY <2>h, <4>2, <4>4, QuietKeeps
      <3> QED
        BY <2>1, <3>1, <3>2, <3>3, StepGoes
    <2>2. CASE Restart /\ disputed' = disputed \cup UNION {At(x) : x \in Tasks}
      <3>1. now' = now /\ UNCHANGED <<exists, held, expiry, banEnd, want>> /\ job' = [x \in Tasks |-> NoJob]
        BY <2>2 DEF Restart, store
      <3>2. link' \in [Conns -> {"new", "login", "on", "gone"}] /\ cache' \in [Conns -> SUBSET Groups]
        BY <1>t, <2>2, LeaveType DEF Restart
      <3>3. TypeOK'
        BY <1>t, <2>h, <3>1, <3>2, NoJobType DEF TypeOK
      <3> QED
        BY <2>2, <3>3, RestartKeeps
    <2> QED
      BY <1>2, <2>1, <2>2 DEF Next
  <1> QED
    BY <1>1, <1>2

LEMMA PairsAlways == Spec => []PairsInv
  BY PairsInit, PairsStep, PTL DEF Spec

-----------------------------------------------------------------------------
(* What the sweep has still to take *)
SweepInv ==
    LET j == job[Sweeper] IN
    /\ j.op = "sweepBans" => \A k \in DOMAIN banEnd : Past(Sweeper, banEnd[k]) => <<k, Banned>> \in j.drop
    /\ j.op = "sweep" =>
          /\ \A k \in DOMAIN banEnd : ~Past(Sweeper, banEnd[k])
          /\ \A p \in Pairs : Past(Sweeper, expiry[p]) =>
                p \in j.drop \/ (j.pair = p /\ j.at = "erase") \/ want[p].since >= j.clock

(* No step makes an end that is over already, unless it has just been decided. *)
Mild ==
    /\ \A k \in DOMAIN banEnd' : \/ k \in DOMAIN banEnd /\ banEnd'[k] = banEnd[k]
                                 \/ banEnd'[k] = 0 \/ banEnd'[k] > now
    /\ \A p \in Pairs : expiry'[p] \in {0, expiry[p]} \/ want'[p].since = now
    /\ \A p \in Pairs : want'[p] = want[p] \/ want'[p].since = now

LEMMA StillMild == ASSUME UNCHANGED <<banEnd, expiry, want>> PROVE Mild
  BY DEF Mild

LEMMA ExpiryMild ==
  ASSUME TypeOK, NEW p \in Pairs, expiry' = [expiry EXCEPT ![p] = 0], UNCHANGED <<banEnd, want>>
  PROVE  Mild
  BY DEF Mild, TypeOK

LEMMA DecideMild ==
  ASSUME TypeOK, NEW P, NEW i, NEW u, NEW c, Decide(P, i, u, c)
  PROVE  \A p \in Pairs : want'[p] = want[p] \/ want'[p].since = now
  BY DEF Decide

LEMMA ContinueMild ==
  ASSUME TypeOK, NEW x \in Tasks, Shape(x, job[x]), Continue(x)
  PROVE  Mild
  <1>0. job[x].pair \in Pairs /\ job[x] \in Jobs
    BY JobFields DEF TypeOK
  <1>1. CASE DropHeld(x) \/ DropBanned(x) \/ MirrorNext(x) \/ MirrorRead(x) \/ MirrorWrite(x) \/ MirrorDone(x)
              \/ ActiveList(x) \/ ActiveExpiry(x) \/ DropLapsed(x) \/ Listed(x) \/ AddHeld(x)
    BY <1>1, StillMild
    DEF DropHeld, DropBanned, MirrorNext, MirrorRead, MirrorWrite, MirrorDone, ActiveList, ActiveExpiry,
        DropLapsed, Listed, AddHeld, store
  <1>2. CASE BanKick(x) \/ InsertGroup(x) \/ RemoveGroup(x) \/ LoginCheck(x) \/ LoginLoad(x) \/ LoginEnter(x)
              \/ SweepScan(x)
    BY <1>2, StillMild
    DEF BanKick, InsertGroup, RemoveGroup, LoginCheck, LoginLoad, LoginEnter, SweepScan, SweepPairs, store
  <1>3. CASE DropBan(x)
    BY <1>3 DEF DropBan, Mild
  <1>4. CASE DropExpiry(x) \/ EraseLapsed(x)
    BY <1>0, <1>4, ExpiryMild DEF DropExpiry, EraseLapsed
  <1>5. CASE AddExpiry(x)
    <2>1. CASE job[x].op = "ban"
      <3>1. job[x].until = 0
        BY <2>1 DEF Shape
      <3> QED
        BY <1>0, <1>5, <2>1, <3>1, ExpiryMild DEF AddExpiry, Added
    <2>2. CASE job[x].op # "ban"
      <3>1. want'[job[x].pair].since = now /\ \A p \in Pairs : want'[p] = want[p] \/ want'[p].since = now
        BY <1>0, <1>5, <2>2 DEF AddExpiry, Added, Decide
      <3>2. \A p \in Pairs : expiry'[p] = expiry[p] \/ p = job[x].pair
        BY <1>0, <1>5 DEF AddExpiry, TypeOK
      <3> QED
        BY <1>5, <3>1, <3>2 DEF AddExpiry, Mild
    <2> QED
      BY <2>1, <2>2
  <1>6. CASE BanRecord(x)
    <2>1. PICK end \in {0} \cup (now + 1)..MaxTime : WriteBan(x, end)
      BY <1>6 DEF BanRecord
    <2>2. now \in Nat /\ (end = 0 \/ end > now)
      BY <2>1, Constants DEF TypeOK
    <2>3. \A p \in Pairs : want'[p] = want[p] \/ want'[p].since = now
      BY <2>1 DEF WriteBan, Decide
    <2> QED
      BY <2>1, <2>2, <2>3 DEF WriteBan, Mild
  <1> QED
    BY <1>1, <1>2, <1>3, <1>4, <1>5, <1>6 DEF Continue

LEMMA RequestMild ==
  ASSUME TypeOK, NEW x \in Tasks, Request(x)
  PROVE  Mild
  <1>1. UNCHANGED <<banEnd, expiry>>
    BY DEF Request, ListRegistered, RemoveUserGroup, AddUserGroup, BanUser, CreateGroup, DeleteGroup, store
  <1>2. \A p \in Pairs : want'[p] = want[p] \/ want'[p].since = now
    <2>1. CASE \E k \in Keys, g \in Groups : RemoveUserGroup(x, k, g)
      BY <2>1 DEF RemoveUserGroup, Decide
    <2>2. CASE \E g \in Groups : DeleteGroup(x, g)
      BY <2>2 DEF DeleteGroup, Decide
    <2>3. CASE UNCHANGED want
      BY <2>3
    <2> QED
      BY <2>1, <2>2, <2>3 DEF Request, ListRegistered, AddUserGroup, BanUser, CreateGroup
  <1> QED
    BY <1>1, <1>2 DEF Mild

LEMMA NextMild ==
  ASSUME PairsInv, [Next]_vars
  PROVE  Mild
  <1> USE DEF PairsInv
  <1>1. CASE \E x \in Admins : Request(x)
    BY <1>1, RequestMild, Constants
  <1>2. CASE \E x \in Tasks : Continue(x)
    BY <1>2, ContinueMild
  <1>3. CASE Tick \/ Sweep(Sweeper) \/ (\E c \in Conns : Login(c) \/ Disconnect(c)) \/ Restart \/ UNCHANGED vars
    BY <1>3, StillMild DEF Tick, Sweep, Login, Disconnect, Restart, vars, store
  <1> QED
    BY <1>1, <1>2, <1>3 DEF Next, Step

(* The sweep goes on, or only others do: nothing is forgotten. *)
LEMMA SweepMove ==
  ASSUME PairsInv, SweepInv, Mild, TypeOK', NEW j \in Jobs, j = job[Sweeper], NEW s \in Jobs, job'[Sweeper] = s,
         s.op = j.op, s.clock = j.clock,
         j.op = "sweepBans" => \A k \in DOMAIN banEnd' : <<k, Banned>> \in j.drop => <<k, Banned>> \in s.drop,
         j.op = "sweep" => \A p \in Pairs : p \in j.drop \/ (j.pair = p /\ j.at = "erase") =>
                              p \in s.drop \/ (s.pair = p /\ s.at = "erase") \/ expiry'[p] = 0
  PROVE  SweepInv'
  <1>1. now \in Nat /\ j.clock \in Nat /\ j.clock <= now
    BY JobFields, Constants DEF PairsInv, TypeOK, Timely, Time
  <1>2. /\ \A e : Past(Sweeper, e) <=> e # 0 /\ j.clock >= e
        /\ \A e : (Past(Sweeper, e))' <=> e # 0 /\ j.clock >= e
    BY DEF Past
  <1>3. ASSUME NEW k \in DOMAIN banEnd', banEnd'[k] # 0, j.clock >= banEnd'[k]
        PROVE  k \in DOMAIN banEnd /\ banEnd[k] # 0 /\ j.clock >= banEnd[k]
    <2>1. banEnd'[k] \in Nat
      BY <1>3 DEF TypeOK, Time
    <2> QED
      BY <1>1, <1>3, <2>1 DEF Mild
  <1>4. ASSUME NEW p \in Pairs, expiry'[p] # 0, j.clock >= expiry'[p]
        PROVE  \/ want'[p].since >= j.clock
               \/ expiry[p] # 0 /\ j.clock >= expiry[p] /\ want'[p].since = want[p].since
    BY <1>1, <1>4 DEF Mild
  <1>5. CASE j.op = "sweepBans"
    BY <1>2, <1>3, <1>5 DEF SweepInv, Past
  <1>6. CASE j.op = "sweep"
    <2>1. \A k \in DOMAIN banEnd' : ~(banEnd'[k] # 0 /\ j.clock >= banEnd'[k])
      BY <1>2, <1>3, <1>6 DEF SweepInv
    <2>2. ASSUME NEW p \in Pairs, expiry'[p] # 0, j.clock >= expiry'[p]
          PROVE  p \in s.drop \/ (s.pair = p /\ s.at = "erase") \/ want'[p].since >= j.clock
      BY <1>2, <1>4, <1>6, <2>2 DEF SweepInv
    <2> QED
      BY <1>6, <2>1, <2>2 DEF SweepInv, Past
  <1>7. CASE j.op \notin {"sweepBans", "sweep"}
    BY <1>7 DEF SweepInv
  <1> QED
    BY <1>5, <1>6, <1>7

LEMMA SweepOff == ASSUME job'[Sweeper].op \notin {"sweepBans", "sweep"} PROVE SweepInv'
  BY DEF SweepInv

LEMMA SweepStarts ==
  ASSUME TypeOK, Sweep(Sweeper)
  PROVE  SweepInv'
  <1>1. PICK s \in Jobs, t \in Jobs :
            /\ Moves(Sweeper, s) /\ Onward(s, t) /\ t.op = "sweepBans" /\ t.clock = now
            /\ t.drop = BansOver \X {Banned}
    BY SweepMoves, Constants
  <1>2. job'[Sweeper] = s /\ s.op = "sweepBans" /\ s.drop = BansOver \X {Banned} /\ s.clock = now
    BY <1>1 DEF Moves, Onward, Ends, SameTask, SameLists
  <1>3. banEnd' = banEnd
    BY DEF Sweep, store
  <1> QED
    BY <1>2, <1>3 DEF SweepInv, Past, BansOver

LEMMA SweepScans ==
  ASSUME PairsInv, SweepInv, SweepScan(Sweeper)
  PROVE  SweepInv'
  <1>1. PICK j \in Jobs : j = job[Sweeper]
    BY Constants DEF PairsInv, TypeOK
  <1>2. PICK s \in Jobs, t \in Jobs :
            /\ Moves(Sweeper, s) /\ Onward(s, t) /\ t.op = "sweep" /\ t.clock = j.clock
            /\ t.drop = {p \in Pairs : Past(Sweeper, expiry[p])}
    BY <1>1, SweepScanMoves, Constants DEF PairsInv
  <1>3. job'[Sweeper] = s /\ UNCHANGED <<banEnd, expiry>>
    BY <1>2 DEF Moves, SweepScan, SweepPairs, store
  <1>4. CASE s.op # "sweep"
    BY <1>2, <1>3, <1>4, SweepOff, NoJobType DEF Onward, SameTask
  <1>5. CASE s.op = "sweep"
    <2>1. s.clock = j.clock /\ s.drop = t.drop
      BY <1>2, <1>5, NoJobType DEF Onward, SameTask, SameLists
    <2>2. j.op = "sweepBans" /\ j.drop = {}
      <3>1. j.at = "scan" /\ Shape(Sweeper, j)
        BY <1>1, Constants DEF SweepScan, SweepPairs, PairsInv
      <3> QED
        BY <3>1 DEF Shape, Jobs, Lifting, Listing, Visiting
    <2>3. \A k \in DOMAIN banEnd : ~Past(Sweeper, banEnd[k])
      BY <1>1, <2>2 DEF SweepInv
    <2> QED
      BY <1>1, <1>2, <1>3, <1>5, <2>1, <2>3 DEF SweepInv, Past
  <1> QED
    BY <1>4, <1>5

LEMMA SweepContinues ==
  ASSUME PairsInv, SweepInv, Mild, TypeOK', Continue(Sweeper)
  PROVE  SweepInv'
  <1> DEFINE x == Sweeper
  <1>t. x \in Tasks /\ TypeOK /\ Shape(x, job[x])
    BY Constants DEF PairsInv
  <1>j. PICK j \in Jobs : j = job[x]
    BY <1>t DEF TypeOK
  <1> HIDE DEF x
  <1>x. x = Sweeper /\ Shape(x, j)
    BY <1>t, <1>j DEF x
  <1>same. ASSUME NEW s \in Jobs, Moves(x, s), s.op = j.op, s.clock = j.clock, s.drop = j.drop,
                  j.at # "erase" \/ expiry'[j.pair] = 0
           PROVE  SweepInv'
    BY <1>same, <1>t, <1>j, <1>x, SweepMove DEF Moves
  <1>else. ASSUME NEW s \in Jobs, Moves(x, s), s.op = j.op \/ s.op \in {"none", "load"}, j.op \notin {"sweepBans", "sweep"}
           PROVE  SweepInv'
    BY <1>else, <1>t, <1>x, SweepOff DEF Moves
  <1>none. ASSUME Done(x) PROVE SweepInv'
    BY <1>none, <1>t, <1>x, DoneMoves, NoJobType, SweepOff DEF Moves
  <1>goto. ASSUME NEW a \in Steps, Goto(x, a), j.at # "erase" PROVE SweepInv'
    <2>1. PICK s \in Jobs : Moves(x, s) /\ SameTask(s, j) /\ SameLists(s, j)
      BY <1>goto, <1>t, <1>j, GotoMoves
    <2> QED
      BY <1>same, <1>goto, <2>1 DEF SameTask, SameLists
  <1>s. /\ "erase" \in Steps /\ "eraseLapsed" \in Steps /\ "expiries" \in Steps /\ "expire" \in Steps
        /\ "record" \in Steps /\ "kick" \in Steps /\ "enter" \in Steps
    BY DEF Steps
  <1>1. CASE DropHeld(x)
    <2>1. PICK s \in Jobs, p \in j.drop : Moves(x, s) /\ s.at = "erase" /\ s.pair = p /\ SameTask(s, j)
                                          /\ s.drop = j.drop \ {p}
      BY <1>1, <1>t, <1>j, DropHeldMoves
    <2>2. j.at = "drop" /\ j.op # "sweepBans"
      BY <1>1, <1>j, <1>x DEF DropHeld, Shape, Lifting
    <2> QED
      BY <1>t, <1>j, <1>x, <2>1, <2>2, SweepMove DEF Moves, SameTask
  <1>2. CASE DropBan(x)
    <2>1. PICK s \in Jobs, p \in j.drop : /\ banEnd' = [k \in DOMAIN banEnd \ {p[1]} |-> banEnd[k]]
                                          /\ Moves(x, s) /\ SameTask(s, j) /\ s.drop = j.drop \ {p}
      BY <1>2, <1>t, <1>j, DropBanMoves
    <2>2. j.op # "sweep"
      BY <1>2, <1>j, <1>x DEF DropBan, Shape, Visiting
    <2>3. \A k \in DOMAIN banEnd' : <<k, Banned>> \in j.drop => <<k, Banned>> \in s.drop
      BY <2>1
    <2> QED
      BY <1>t, <1>j, <1>x, <2>1, <2>2, <2>3, SweepMove DEF Moves, SameTask
  <1>3. CASE DropBanned(x) \/ DropLapsed(x) \/ EraseLapsed(x) \/ AddHeld(x) \/ LoginLoad(x) \/ BanRecord(x)
    BY <1>3, <1>goto, <1>s, <1>j
    DEF DropBanned, DropLapsed, EraseLapsed, AddHeld, LoginLoad, ActiveDone, BanRecord, WriteBan
  <1>4. CASE DropExpiry(x)
    <2>1. PICK s \in Jobs : Moves(x, s) /\ Onward(s, j)
      BY <1>4, <1>t, <1>j, DropExpiryMoves
    <2>2. expiry'[j.pair] = 0
      BY <1>4, <1>t, <1>j, JobFields DEF DropExpiry, TypeOK
    <2>3. CASE s = NoJob
      BY <2>1, <2>3, <1>x, NoJobType, SweepOff DEF Moves
    <2>4. CASE SameTask(s, j) /\ SameLists(s, j)
      BY <2>1, <2>2, <2>4, <1>same DEF SameTask, SameLists
    <2> QED
      BY <2>1, <2>3, <2>4 DEF Onward
  <1>5. CASE MirrorNext(x)
    BY <1>5, <1>t, <1>j, <1>same, MirrorNextMoves DEF SameTask, MirrorNext
  <1>6. CASE MirrorRead(x)
    BY <1>6, <1>t, <1>j, <1>same, MirrorReadMoves DEF SameTask, SameLists, MirrorRead
  <1>7. CASE MirrorWrite(x)
    BY <1>7, <1>t, <1>j, <1>same, MirrorWriteMoves DEF SameTask, SameLists, MirrorWrite
  <1>8. CASE MirrorDone(x)
    <2>1. PICK s \in Jobs, t \in Jobs : /\ Moves(x, s) /\ Onward(s, t) /\ SameTask(t, j)
                                        /\ t.drop = IF j.op = "delete" THEN Keys \X {j.pair[2]} ELSE {}
      BY <1>8, <1>t, <1>j, MirrorDoneMoves
    <2>2. j.at = "read"
      BY <1>8, <1>j DEF MirrorDone
    <2>3. CASE s = NoJob
      BY <2>1, <2>3, <1>x, NoJobType, SweepOff DEF Moves
    <2>4. CASE j.op = "delete" /\ SameTask(s, t)
      BY <2>1, <2>4, <1>else DEF SameTask
    <2>5. CASE j.op # "delete" /\ SameTask(s, t) /\ SameLists(s, t)
      <3>1. j.drop = {}
        BY <2>2, <2>5, <1>x DEF Shape, Lifting, Listing, Visiting, Jobs
      <3> QED
        BY <2>1, <2>2, <2>5, <3>1, <1>same DEF SameTask, SameLists
    <2> QED
      BY <2>1, <2>3, <2>4, <2>5 DEF Onward
  <1>9. CASE ActiveList(x)
    BY <1>9, <1>t, <1>j, <1>same, ActiveListMoves DEF SameTask, SameLists, ActiveList
  <1>10. CASE ActiveExpiry(x)
    BY <1>10, <1>t, <1>j, <1>same, ActiveExpiryMoves DEF SameTask, SameLists, ActiveExpiry
  <1>11. CASE Listed(x) \/ BanKick(x) \/ InsertGroup(x) \/ RemoveGroup(x) \/ LoginEnter(x)
    BY <1>11, <1>none DEF Listed, BanKick, InsertGroup, RemoveGroup, LoginEnter
  <1>12. CASE AddExpiry(x)
    <2>1. CASE j.op = "ban"
      BY <1>12, <1>goto, <1>s, <1>j, <2>1 DEF AddExpiry, Added
    <2>2. CASE j.op # "ban"
      BY <1>12, <1>t, <1>j, <1>same, <2>2, AddExpiryMoves DEF AddExpiry
    <2> QED
      BY <2>1, <2>2
  <1>13. CASE LoginCheck(x)
    BY <1>13, <1>j, <1>x, Constants DEF LoginCheck, Shape
  <1>14. CASE SweepScan(x)
    BY <1>14, <1>x, SweepScans
  <1> QED
    BY <1>1, <1>2, <1>3, <1>4, <1>5, <1>6, <1>7, <1>8, <1>9, <1>10, <1>11, <1>12, <1>13, <1>14, <1>x DEF Continue

LEMMA SweepStep == PairsInv /\ SweepInv /\ [Next]_vars => SweepInv'
  <1> SUFFICES ASSUME PairsInv, SweepInv, [Next]_vars PROVE SweepInv'
    OBVIOUS
  <1>1. Mild /\ TypeOK'
    BY NextMild, PairsStep DEF PairsInv
  <1>2. ASSUME job'[Sweeper] = job[Sweeper] PROVE SweepInv'
    <2>1. PICK j \in Jobs : j = job[Sweeper]
      BY Constants DEF PairsInv, TypeOK
    <2> QED
      BY <1>1, <1>2, <2>1, SweepMove
  <1>3. CASE \E x \in Admins : Request(x)
    <2>1. PICK x \in Admins : Request(x)
      BY <1>3
    <2>2. x \in Tasks /\ x # Sweeper
      BY GroupsConstants, Constants
    <2>3. \E s : Moves(x, s)
      BY <2>1, <2>2, RequestClock DEF Punctual, PairsInv
    <2> QED
      BY <1>2, <2>2, <2>3, Constants DEF Moves
  <1>4. CASE \E x \in Tasks : Continue(x)
    <2>1. PICK x \in Tasks : Continue(x)
      BY <1>4
    <2>2. CASE x = Sweeper
      BY <1>1, <2>1, <2>2, SweepContinues
    <2>3. CASE x # Sweeper
      <3>1. \E s : Moves(x, s)
        BY <2>1, ContinueClock DEF Punctual, PairsInv
      <3> QED
        BY <1>2, <2>3, <3>1, Constants DEF Moves
    <2> QED
      BY <2>2, <2>3
  <1>5. CASE Sweep(Sweeper)
    BY <1>5, SweepStarts DEF PairsInv
  <1>6. CASE \E c \in Conns : Login(c)
    <2>1. PICK c \in Conns : Login(c)
      BY <1>6
    <2>2. \E s : Moves(c, s)
      BY <2>1, LoginMoves DEF PairsInv
    <2> QED
      BY <1>2, <2>2, Constants DEF Moves
  <1>7. CASE Tick \/ (\E c \in Conns : Disconnect(c)) \/ UNCHANGED vars
    BY <1>2, <1>7 DEF Tick, Disconnect, vars
  <1>8. CASE Restart
    BY <1>8, SweepOff, NoJobType, Constants DEF Restart
  <1> QED
    BY <1>3, <1>4, <1>5, <1>6, <1>7, <1>8 DEF Next, Step

LEMMA SweepAlways == Spec => [](PairsInv /\ SweepInv)
  <1>1. Init => SweepInv
    BY Constants, NoJobType DEF Init, SweepInv
  <1> QED
    BY <1>1, PairsInit, PairsStep, SweepStep, PTL DEF Spec

LEMMA SweepEnds ==
  ASSUME PairsInv, Continue(Sweeper), job[Sweeper].op \in {"sweepBans", "sweep"}, job'[Sweeper].op = "none"
  PROVE  \/ /\ job[Sweeper].op = "sweepBans" /\ job[Sweeper].at = "scan" /\ job[Sweeper].drop = {}
            /\ \A p \in Pairs : ~Past(Sweeper, expiry[p])
         \/ job[Sweeper].op = "sweep" /\ job[Sweeper].drop = {} /\ job[Sweeper].at \in {"read", "erase"}
  <1> DEFINE x == Sweeper
  <1>t. x \in Tasks /\ TypeOK /\ Shape(x, job[x])
    BY Constants DEF PairsInv
  <1>j. PICK j \in Jobs : j = job[x]
    BY <1>t DEF TypeOK
  <1> HIDE DEF x
  <1>x. x = Sweeper /\ Shape(x, j) /\ j.op \in {"sweepBans", "sweep"} /\ job'[x].op = "none"
    BY <1>t, <1>j DEF x
  <1>same. ASSUME NEW s \in Jobs, Moves(x, s), s.op = j.op PROVE FALSE
    BY <1>same, <1>x DEF Moves
  <1>goto. ASSUME NEW a \in Steps, Goto(x, a) PROVE FALSE
    BY <1>goto, <1>t, <1>j, <1>same, GotoMoves DEF SameTask
  <1>s. /\ "erase" \in Steps /\ "eraseLapsed" \in Steps /\ "expiries" \in Steps /\ "expire" \in Steps
        /\ "record" \in Steps /\ "kick" \in Steps /\ "enter" \in Steps
    BY DEF Steps
  <1>1. ~DropHeld(x)
    BY <1>t, <1>j, <1>same, DropHeldMoves DEF SameTask
  <1>2. ~DropBan(x)
    BY <1>t, <1>j, <1>same, DropBanMoves DEF SameTask
  <1>3. ~(DropBanned(x) \/ DropLapsed(x) \/ EraseLapsed(x) \/ AddHeld(x) \/ LoginLoad(x) \/ BanRecord(x))
    BY <1>goto, <1>s DEF DropBanned, DropLapsed, EraseLapsed, AddHeld, LoginLoad, BanRecord, WriteBan
  <1>4. CASE DropExpiry(x)
    <2>1. PICK s \in Jobs : Moves(x, s) /\ Onward(s, j)
      BY <1>4, <1>t, <1>j, DropExpiryMoves
    <2>2. Ends(j) /\ j.at = "erase"
      BY <1>4, <1>j, <2>1, <1>same DEF Onward, SameTask, DropExpiry
    <2> QED
      BY <1>j, <1>x, <2>2 DEF Ends
  <1>5. ~MirrorNext(x)
    BY <1>t, <1>j, <1>same, MirrorNextMoves DEF SameTask
  <1>6. ~MirrorRead(x)
    BY <1>t, <1>j, <1>same, MirrorReadMoves DEF SameTask
  <1>7. ~MirrorWrite(x)
    BY <1>t, <1>j, <1>same, MirrorWriteMoves DEF SameTask
  <1>8. CASE MirrorDone(x)
    <2>1. j.at = "read"
      BY <1>8, <1>j DEF MirrorDone
    <2> QED
      BY <1>j, <1>x, <2>1 DEF Shape, Lifting, Visiting
  <1>9. ~ActiveList(x)
    BY <1>t, <1>j, <1>same, ActiveListMoves DEF SameTask
  <1>10. ~ActiveExpiry(x)
    BY <1>t, <1>j, <1>same, ActiveExpiryMoves DEF SameTask
  <1>11. ~(Listed(x) \/ BanKick(x) \/ InsertGroup(x) \/ RemoveGroup(x) \/ LoginEnter(x) \/ LoginCheck(x) \/ AddExpiry(x))
    BY <1>j, <1>x DEF Listed, BanKick, InsertGroup, RemoveGroup, LoginEnter, LoginCheck, AddExpiry, Shape, Lifting, Visiting
  <1>12. CASE SweepScan(x)
    <2>1. PICK s \in Jobs, t \in Jobs : /\ Moves(x, s) /\ Onward(s, t) /\ t.op = "sweep"
                                        /\ t.drop = {p \in Pairs : Past(x, expiry[p])}
      BY <1>12, <1>t, SweepScanMoves
    <2>2. Ends(t)
      BY <1>x, <2>1 DEF Onward, SameTask, Moves
    <2>3. j.at = "scan"
      BY <1>12, <1>j DEF SweepScan, SweepPairs
    <2>4. j.op = "sweepBans" /\ j.drop = {}
      BY <1>x, <2>3 DEF Shape, Visiting
    <2> QED
      BY <1>j, <1>x, <2>1, <2>2, <2>3, <2>4 DEF Ends
  <1> QED
    BY <1>1, <1>2, <1>3, <1>4, <1>5, <1>6, <1>7, <1>8, <1>9, <1>10, <1>11, <1>12, <1>x DEF Continue


-----------------------------------------------------------------------------
(* The cached groups of a session, about all groups but "banned": while one *)
(* job at most is at the key of a connection, the cache has what was        *)
(* decided, or that job has still to bring it.                              *)
KeysOf(j) == {p[1] : p \in Of(j)}
Follows(c, p) == (InForce(p) => p[2] \in cache[c]) /\ (~want[p].in => p[2] \notin cache[c])
Owes(j, c, p) ==
    /\ j.op \in {"add", "remove", "delete"}
    /\ \/ p \in j.mirror
       \/ /\ j.at \in Visiting /\ p[2] = j.pair[2] /\ (j.op = "delete" \/ p[1] = j.pair[1])
          /\ c \in j.visit \/ (j.at = "cache" /\ j.conn = c)
Live(x, j, c) == link[c] = "on" \/ (x = c /\ j.at = "enter" /\ link[c] = "login")
Mirrors(j, c) == j.at = "cache" /\ j.conn = c /\ link[c] # "gone" => j.seen = cache[c]
Ordinary(c) == {p \in Pairs : p[1] = KeyOf[c] /\ p[2] # Banned}
Told(x, j, c) ==
    /\ Mirrors(j, c)
    /\ \A p \in Ordinary(c) \ disputed : Live(x, j, c) => Follows(c, p) \/ Owes(j, c, p)
Sole(x, c) == \A y \in Tasks \ {x} : KeyOf[c] \notin KeysOf(job[y])
CacheInv == \A c \in Conns \ blurred : \A x \in Tasks : Sole(x, c) => Told(x, job[x], c)

(* Where the client of a job is meanwhile, and the clients it visits *)
Linked(x, j) == /\ j.op \in {"login", "load"} => link[x] = "login"
                /\ j.op = "ban" => link[j.conn] \in {"on", "gone"}
Visits(j) == /\ j.at \in Visiting => \A d \in j.visit : link[d] # "new"
             /\ j.at = "cache" => link[j.conn] # "new" /\ (j.op = "delete" \/ KeyOf[j.conn] = j.pair[1])

Clean == \A p \in Pairs : p[2] # Banned => want[p].clean

SessionsInv ==
    /\ \A x \in Tasks : Linked(x, job[x]) /\ Visits(job[x])
    /\ Overlooked \subseteq blurred
    /\ Clean
    /\ CacheInv

LEMMA KeysAt == \A x \in Tasks : AtKeys(x) = KeysOf(job[x]) /\ AtKeys(x)' = KeysOf(job'[x])
  BY AtJob DEF AtKeys, KeysOf

LEMMA OwesAt ==
  ASSUME NEW x, NEW j \in Jobs, Shape(x, j), NEW c, NEW p \in Pairs, Owes(j, c, p)
  PROVE  p[1] \in KeysOf(j)
  <1>1. p[1] \in Keys /\ p[2] \in Groups /\ p = <<p[1], p[2]>> /\ j.pair \in Pairs /\ j.pair = <<j.pair[1], j.pair[2]>>
    BY PairParts, JobFields
  <1>2. p \in Of(j)
    BY <1>1 DEF Owes, Of, Shape, Visiting
  <1> QED
    BY <1>2 DEF KeysOf

LEMMA CacheAt ==
  ASSUME NEW x, NEW j \in Jobs, Shape(x, j), Visits(j), j.at = "cache"
  PROVE  KeyOf[j.conn] \in KeysOf(j)
  <1>1. j.conn \in Conns /\ KeyOf[j.conn] \in Keys /\ j.pair \in Pairs /\ j.pair[2] \in Groups
    BY Constants, JobFields, PairParts
  <1>2. CASE j.op = "delete"
    <2>1. <<KeyOf[j.conn], j.pair[2]>> \in Of(j)
      BY <1>1, <1>2 DEF Of
    <2> QED
      BY <2>1 DEF KeysOf
  <1>3. CASE j.op # "delete"
    <2>1. j.op \in {"add", "remove", "sweep"}
      BY <1>3 DEF Shape, Jobs, Lifting, Listing, Visiting
    <2>2. j.pair \in Of(j) /\ KeyOf[j.conn] = j.pair[1]
      BY <1>3, <2>1 DEF Of, Visits
    <2> QED
      BY <2>2 DEF KeysOf
  <1> QED
    BY <1>2, <1>3

LEMMA EnterAt ==
  ASSUME NEW x \in Conns, NEW j \in Jobs, Shape(x, j), j.at = "enter"
  PROVE  KeyOf[x] \in KeysOf(j)
  <1>1. j.op = "load" /\ j.pair[1] = KeyOf[x]
    BY DEF Shape, Jobs, Lifting, Listing, Visiting
  <1>2. <<KeyOf[x], Banned>> \in Of(j)
    BY <1>1, Constants DEF Of
  <1> QED
    BY <1>2 DEF KeysOf

(* A connection a step leaves alone, or ends *)
Left(c) == link'[c] = "gone" \/ (link'[c] = link[c] /\ cache'[c] = cache[c])

LEMMA ToldSame ==
  ASSUME Clocked, disputed \subseteq disputed', NEW x, NEW c \in Conns, NEW j, NEW s, Told(x, j, c), Left(c),
         \A p \in Ordinary(c) : want'[p] = want[p],
         s.at = "enter" => j.at = "enter", s.at = "cache" => j.at = "cache" /\ s.conn = j.conn /\ s.seen = j.seen,
         \A p \in Ordinary(c) : link[c] = "on" /\ Owes(j, c, p) => Owes(s, c, p),
         s.at = "enter" => s = j
  PROVE  Told(x, s, c)'
  <1>1. Mirrors(s, c)'
    BY DEF Told, Mirrors, Left
  <1>2. ASSUME NEW p \in Ordinary(c) \ disputed', Live(x, s, c)' PROVE Follows(c, p)' \/ Owes(s, c, p)'
    <2>1. p \in Pairs /\ p \in Ordinary(c) \ disputed /\ want'[p] = want[p]
      BY DEF Ordinary
    <2>2. Live(x, j, c) /\ cache'[c] = cache[c] /\ link'[c] = link[c]
      BY <1>2 DEF Live, Left
    <2>3. Follows(c, p) \/ Owes(j, c, p)
      BY <2>1, <2>2 DEF Told
    <2>4. InForce(p)' => InForce(p)
      BY <2>1 DEF InForce, Ended, Clocked
    <2>5. CASE Follows(c, p)
      BY <2>1, <2>2, <2>4, <2>5 DEF Follows
    <2>6. CASE Owes(j, c, p)
      <3>1. Owes(s, c, p)
        BY <1>2, <2>1, <2>2, <2>6 DEF Live
      <3> QED
        BY <3>1 DEF Owes
    <2> QED
      BY <2>3, <2>5, <2>6
  <1> QED
    BY <1>1, <1>2 DEF Told, Ordinary

(* x goes on as s, and the caches of the connections with its key are as   *)
(* they should be if it was alone at the key.                              *)
Tells(x, s) ==
    \A c \in Conns :
       /\ link'[c] = "new" => link[c] = "new"
       /\ c \in Connected' => c \in Connected \/ KeyOf[c] \in KeysOf(s)
       /\ KeyOf[c] \notin KeysOf(job[x]) /\ KeyOf[c] \notin KeysOf(s) => Left(c)
       /\ Told(x, job[x], c) /\ (\A p \in Ordinary(c) \ disputed : Good(job[x], p)) => Told(x, s, c)'

LEMMA TellMove ==
  ASSUME PairsInv, SessionsInv, NEW x \in Tasks, NEW s, Moves(x, s), Shape(x, s), Local(x, s), Tells(x, s),
         Clocked, disputed \subseteq disputed', blurred \subseteq blurred', TypeOK'
  PROVE  CacheInv'
  <1> USE DEF PairsInv, SessionsInv
  <1>0. job \in [Tasks -> Jobs]
    BY DEF TypeOK
  <1>1. ASSUME NEW c \in Conns, c \notin blurred, Sole(x, c) PROVE Told(x, s, c)'
    <2>1. Told(x, job[x], c)
      BY <1>1 DEF CacheInv
    <2>2. ASSUME NEW p \in Ordinary(c) \ disputed PROVE Good(job[x], p)
      <3>1. p \in Pairs /\ p[1] = KeyOf[c]
        BY DEF Ordinary
      <3>2. Alone(x, p)
        BY <1>1, <3>1, AtJob DEF Alone, Sole, KeysOf
      <3> QED
        BY <3>1, <3>2 DEF PairInv
    <2> QED
      BY <2>1, <2>2 DEF Tells
  <1> SUFFICES ASSUME NEW c \in Conns \ blurred', NEW y \in Tasks, Sole(y, c)' PROVE Told(y, job[y], c)'
    BY DEF CacheInv
  <1>2. c \notin blurred /\ \A z \in Tasks \ {y} : KeyOf[c] \notin KeysOf(job'[z])
    BY DEF Sole, KeysOf, Of
  <1>3. CASE y = x
    <2>1. Sole(x, c)
      BY <1>2, <1>3 DEF Sole, Moves
    <2>2. Told(x, s, c)' /\ job'[x] = s
      BY <1>1, <1>2, <2>1 DEF Moves
    <2> QED
      BY <1>3, <2>2 DEF Told, Mirrors, Live, Owes
  <1>4. CASE y # x
    <2>1. KeyOf[c] \notin KeysOf(s) /\ job'[y] = job[y]
      BY <1>2, <1>4 DEF Moves
    <2>2. PICK j \in Jobs : j = job[y] /\ j = job'[y] /\ Shape(y, j) /\ Visits(j)
      BY <1>0, <2>1
    <2>3. CASE KeyOf[c] \notin KeysOf(job[x])
      <3>1. Sole(y, c)
        BY <1>2, <2>3 DEF Sole, Moves
      <3>2. Told(y, j, c) /\ Left(c)
        BY <1>2, <2>1, <2>2, <2>3, <3>1 DEF CacheInv, Tells
      <3>3. ASSUME NEW p \in Ordinary(c) PROVE want'[p] = want[p]
        <4>1. p \in Pairs /\ p \notin Of(job[x]) /\ p \notin Of(s)
          BY <2>1, <2>3 DEF Ordinary, KeysOf
        <4> QED
          BY <4>1 DEF Local, Same
      <3>4. Told(y, j, c)'
        BY <3>2, <3>3, ToldSame
      <3> QED
        BY <2>2, <3>4 DEF Told, Mirrors, Live, Owes
    <2>4. CASE KeyOf[c] \in KeysOf(job[x]) /\ c \in Connected
      <3>1. \A z \in Tasks \ {x} : KeyOf[c] \notin KeysOf(job[z])
        BY <1>2, <2>4, KeysAt DEF Overlooked
      <3>2. Told(x, s, c)'
        BY <1>1, <1>2, <3>1 DEF Sole
      <3>3. KeyOf[c] \notin KeysOf(j)
        BY <1>4, <2>2, <3>1
      <3>4. j.at = "cache" => j.conn # c
        BY <2>2, <3>3, CacheAt
      <3>5. j.at = "enter" => y # c
        BY <2>2, <3>3, EnterAt
      <3>6. ASSUME NEW p \in Ordinary(c) \ disputed', Live(y, j, c)' PROVE Follows(c, p)'
        <4>1. p \in Pairs /\ p[1] = KeyOf[c] /\ Live(x, s, c)'
          BY <3>5, <3>6 DEF Live, Ordinary
        <4>2. Follows(c, p)' \/ Owes(s, c, p)'
          BY <3>2, <3>6, <4>1 DEF Told, Ordinary
        <4>3. Owes(s, c, p)' => Owes(s, c, p)
          BY DEF Owes
        <4>4. ~Owes(s, c, p)
          BY <2>1, <4>1, OwesAt DEF Moves
        <4> QED
          BY <4>2, <4>3, <4>4
      <3>7. Told(y, j, c)'
        BY <3>4, <3>6 DEF Told, Mirrors, Ordinary
      <3> QED
        BY <2>2, <3>7 DEF Told, Mirrors, Live, Owes
    <2>5. CASE c \notin Connected
      <3>1. c \notin Connected' /\ (link'[c] = "new" => link[c] = "new")
        BY <2>1, <2>5 DEF Tells
      <3>2. link'[c] \notin {"login", "on"}
        BY <3>1 DEF Connected
      <3>3. ~(j.at = "cache" /\ j.conn = c /\ link[c] = "new")
        BY <2>2 DEF Visits
      <3>4. j.at = "cache" /\ j.conn = c => link'[c] = "gone"
        BY <3>1, <3>2, <3>3 DEF TypeOK
      <3>5. Told(y, j, c)'
        BY <3>2, <3>4 DEF Told, Mirrors, Live
      <3> QED
        BY <2>2, <3>5 DEF Told, Mirrors, Live, Owes
    <2> QED
      BY <2>3, <2>4, <2>5
  <1> QED
    BY <1>3, <1>4

(* A client's state changes only when it is closed, or by its own job. *)
LinkStep(x) == \A c \in Conns : \/ link'[c] = link[c]
                                \/ link[c] \in {"on", "gone"} /\ link'[c] = "gone"
                                \/ c = x /\ link[c] \in {"new", "login"} /\ link'[c] # "new"
Informs(x) == \E s : Moves(x, s) /\ Tells(x, s) /\ Visits(s)' /\ Linked(x, s)' /\ LinkStep(x)
SameOrdinary == \A p \in Pairs : p[2] # Banned => want'[p] = want[p]

LEMMA QuietTells ==
  ASSUME TypeOK, now' = now, disputed \subseteq disputed', NEW x \in Tasks, NEW s, \A c \in Conns : Left(c),
         SameOrdinary, s.at \notin {"cache", "enter"},
         \A c \in Conns, p \in Pairs : link[c] = "on" /\ Owes(job[x], c, p) => Owes(s, c, p)
  PROVE  Tells(x, s)
  <1>1. ASSUME NEW c \in Conns, Told(x, job[x], c) PROVE Told(x, s, c)'
    <2>1. PICK j : j = job[x]
      OBVIOUS
    <2>2. \A p \in Ordinary(c) : p \in Pairs /\ want'[p] = want[p]
      BY DEF SameOrdinary, Ordinary
    <2> QED
      BY <1>1, <2>1, <2>2, ToldSame, Clocks
  <1>2. \A c \in Conns : c \in Connected' => c \in Connected
    BY DEF Connected, Left
  <1>3. \A c \in Conns : link'[c] = "new" => link[c] = "new"
    BY DEF Left
  <1> QED
    BY <1>1, <1>2, <1>3 DEF Tells

LEMMA QuietInforms ==
  ASSUME TypeOK, now' = now, disputed \subseteq disputed', UNCHANGED <<link, cache>>, SameOrdinary,
         NEW x \in Tasks, Linked(x, job[x]), NEW s, Moves(x, s), s.at \notin {"read", "cache", "enter"},
         s.op \in {"login", "load"} => job[x].op \in {"login", "load"},
         s.op = "ban" => job[x].op = "ban" /\ s.conn = job[x].conn,
         \A c \in Conns, p \in Pairs : link[c] = "on" /\ Owes(job[x], c, p) => Owes(s, c, p)
  PROVE  Informs(x)
  <1>1. \A c \in Conns : Left(c)
    BY DEF Left
  <1>2. Tells(x, s)
    BY <1>1, QuietTells
  <1>3. Visits(s)' /\ Linked(x, s)' /\ LinkStep(x)
    BY DEF Visits, Visiting, Linked, LinkStep
  <1> QED
    BY <1>2, <1>3 DEF Informs

(* The same for a job that has nothing to bring to a session *)
LEMMA IdleInforms ==
  ASSUME TypeOK, now' = now, disputed \subseteq disputed', UNCHANGED <<link, cache>>, SameOrdinary,
         NEW x \in Tasks, Linked(x, job[x]), NEW s, Moves(x, s), s.at \notin {"read", "cache", "enter"},
         s.op \in {"login", "load"} => job[x].op \in {"login", "load"},
         s.op = "ban" => job[x].op = "ban" /\ s.conn = job[x].conn,
         job[x].op \notin {"add", "remove", "delete"}
  PROVE  Informs(x)
  <1>1. \A c \in Conns, p \in Pairs : ~Owes(job[x], c, p)
    BY DEF Owes
  <1> QED
    BY <1>1, QuietInforms

LEMMA OnwardOwes ==
  ASSUME NEW x, NEW s, NEW j, Shape(x, j), j.at \notin Visiting, Onward(s, j), NEW c, NEW p, Owes(j, c, p)
  PROVE  Owes(s, c, p)
  BY DEF Owes, Onward, Ends, SameTask, SameLists, Shape

LEMMA OnwardAt ==
  ASSUME NEW s, NEW j, Onward(s, j)
  PROVE  /\ s.at \in {"idle", "unban", "drop", "groups", "scan", "unlist", "mirror"}
         /\ s.op = "none" \/ (s.op = j.op /\ s.conn = j.conn)
  BY NoJobType DEF Onward, OnTo, SameTask, SameVisit

LEMMA DropsInform ==
  ASSUME PairsInv, NEW x \in Tasks, Linked(x, job[x]), disputed \subseteq disputed',
         DropHeld(x) \/ DropBan(x) \/ DropBanned(x) \/ DropExpiry(x) \/ DropLapsed(x) \/ EraseLapsed(x) \/ AddHeld(x)
  PROVE  Informs(x)
  <1>t. TypeOK /\ Shape(x, job[x]) /\ job[x] \in Jobs
    BY DEF PairsInv, TypeOK
  <1>u. now' = now /\ UNCHANGED <<link, cache>> /\ SameOrdinary
    BY DEF DropHeld, DropBan, DropBanned, DropExpiry, DropLapsed, EraseLapsed, AddHeld, SameOrdinary
  <1>g. ASSUME NEW a \in Steps \ {"read", "cache", "enter"}, Goto(x, a), job[x].at \notin Visiting PROVE Informs(x)
    <2>1. PICK s \in Jobs : /\ Moves(x, s) /\ s.at = a /\ s.pair = job[x].pair /\ SameTask(s, job[x])
                            /\ SameLists(s, job[x]) /\ SameVisit(s, job[x])
      BY <1>g, <1>t, GotoMoves
    <2>2. \A c \in Conns, p \in Pairs : Owes(job[x], c, p) => Owes(s, c, p)
      BY <1>g, <2>1 DEF Owes, SameTask, SameLists
    <2> QED
      BY <1>t, <1>u, <1>g, <2>1, <2>2, QuietInforms DEF SameTask, SameVisit
  <1>s. /\ "erase" \in Steps \ {"read", "cache", "enter"} /\ "eraseLapsed" \in Steps \ {"read", "cache", "enter"}
        /\ "expiries" \in Steps \ {"read", "cache", "enter"} /\ "expire" \in Steps \ {"read", "cache", "enter"}
    BY DEF Steps
  <1>1. CASE DropHeld(x)
    <2>1. PICK s \in Jobs, p \in job[x].drop :
            /\ Moves(x, s) /\ s.at = "erase" /\ SameTask(s, job[x]) /\ s.mirror = job[x].mirror
            /\ SameVisit(s, job[x])
      BY <1>1, <1>t, DropHeldMoves
    <2>2. \A c \in Conns, q \in Pairs : Owes(job[x], c, q) => Owes(s, c, q)
      BY <1>1, <2>1 DEF Owes, SameTask, DropHeld, Visiting
    <2> QED
      BY <1>t, <1>u, <2>1, <2>2, QuietInforms DEF SameTask, SameVisit
  <1>2. CASE DropBan(x)
    <2>1. PICK s \in Jobs, p \in job[x].drop :
            /\ Moves(x, s) /\ s.at = "unhold" /\ SameTask(s, job[x]) /\ s.mirror = job[x].mirror
            /\ SameVisit(s, job[x])
      BY <1>2, <1>t, DropBanMoves
    <2>2. \A c \in Conns, q \in Pairs : Owes(job[x], c, q) => Owes(s, c, q)
      BY <1>2, <2>1 DEF Owes, SameTask, DropBan, Visiting
    <2> QED
      BY <1>t, <1>u, <2>1, <2>2, QuietInforms DEF SameTask, SameVisit
  <1>3. CASE DropBanned(x) \/ DropLapsed(x) \/ EraseLapsed(x) \/ AddHeld(x)
    BY <1>3, <1>g, <1>s DEF DropBanned, DropLapsed, EraseLapsed, AddHeld, Visiting
  <1>4. CASE DropExpiry(x)
    <2>1. PICK s \in Jobs : Moves(x, s) /\ Onward(s, job[x])
      BY <1>4, <1>t, DropExpiryMoves
    <2>2. job[x].at \notin Visiting
      BY <1>4 DEF DropExpiry, Visiting
    <2>3. \A c \in Conns, q \in Pairs : Owes(job[x], c, q) => Owes(s, c, q)
      BY <1>t, <2>1, <2>2, OnwardOwes
    <2>4. /\ s.at \in {"idle", "unban", "drop", "groups", "scan", "unlist", "mirror"}
          /\ s.op = "none" \/ (s.op = job[x].op /\ s.conn = job[x].conn)
      BY <2>1, OnwardAt
    <2> QED
      BY <1>t, <1>u, <2>1, <2>3, <2>4, QuietInforms
  <1> QED
    BY <1>1, <1>2, <1>3, <1>4

LEMMA ActiveInforms ==
  ASSUME PairsInv, NEW x \in Tasks, Linked(x, job[x]), disputed \subseteq disputed',
         ActiveList(x) \/ ActiveExpiry(x) \/ Listed(x)
  PROVE  Informs(x)
  <1>t. TypeOK /\ Shape(x, job[x]) /\ job[x] \in Jobs
    BY DEF PairsInv, TypeOK
  <1>u. now' = now /\ UNCHANGED <<link, cache>> /\ SameOrdinary
    BY DEF ActiveList, ActiveExpiry, Listed, SameOrdinary
  <1>0. job[x].op \in {"list", "login", "load"}
    BY <1>t DEF ActiveList, ActiveExpiry, Listed, Shape, Jobs, Lifting, Listing, Visiting
  <1>1. CASE ActiveList(x)
    <2>1. PICK s \in Jobs : Moves(x, s) /\ s.at = "expiries" /\ s.op = job[x].op
      BY <1>1, <1>t, ActiveListMoves DEF SameTask
    <2> QED
      BY <1>t, <1>u, <1>0, <2>1, IdleInforms
  <1>2. CASE ActiveExpiry(x)
    <2>1. PICK s \in Jobs : Moves(x, s) /\ s.at \in {"dropLapsed", "expiries"} /\ s.op = job[x].op
      BY <1>2, <1>t, ActiveExpiryMoves DEF SameTask
    <2> QED
      BY <1>t, <1>u, <1>0, <2>1, IdleInforms
  <1>3. CASE Listed(x)
    BY <1>3, <1>t, <1>u, <1>0, DoneMoves, NoJobType, IdleInforms DEF Listed
  <1> QED
    BY <1>1, <1>2, <1>3

LEMMA GroupInforms ==
  ASSUME PairsInv, NEW x \in Tasks, Linked(x, job[x]), disputed \subseteq disputed',
         InsertGroup(x) \/ RemoveGroup(x)
  PROVE  Informs(x)
  <1>t. TypeOK /\ Shape(x, job[x]) /\ job[x] \in Jobs
    BY DEF PairsInv, TypeOK
  <1>u. now' = now /\ UNCHANGED <<link, cache>> /\ SameOrdinary /\ Moves(x, NoJob)
    BY <1>t, DoneMoves DEF InsertGroup, RemoveGroup, SameOrdinary
  <1>1. \A c \in Conns, p \in Pairs : ~Owes(job[x], c, p)
    BY <1>t DEF InsertGroup, RemoveGroup, Shape, Jobs, Lifting, Listing, Visiting, Owes
  <1> QED
    BY <1>t, <1>u, <1>1, NoJobType, QuietInforms

LEMMA SweepScanInforms ==
  ASSUME PairsInv, NEW x \in Tasks, Linked(x, job[x]), disputed \subseteq disputed', SweepScan(x)
  PROVE  Informs(x)
  <1>t. TypeOK /\ Shape(x, job[x]) /\ job[x] \in Jobs
    BY DEF PairsInv, TypeOK
  <1>u. now' = now /\ UNCHANGED <<link, cache>> /\ SameOrdinary /\ job[x].at = "scan"
    BY DEF SweepScan, SweepPairs, SameOrdinary
  <1>1. job[x].op = "sweepBans"
    BY <1>t, <1>u DEF Shape, Jobs, Lifting, Listing, Visiting
  <1>2. PICK s \in Jobs, t \in Jobs : Moves(x, s) /\ Onward(s, t) /\ t.op = "sweep"
    BY <1>t, SweepScanMoves
  <1>3. s.at \notin {"read", "cache", "enter"} /\ s.op \in {"none", "sweep"}
    BY <1>2, OnwardAt
  <1> QED
    BY <1>t, <1>u, <1>1, <1>2, <1>3, IdleInforms

LEMMA BanInforms ==
  ASSUME PairsInv, NEW x \in Tasks, Linked(x, job[x]), disputed \subseteq disputed', BanRecord(x)
  PROVE  Informs(x)
  <1>t. TypeOK /\ Shape(x, job[x]) /\ job[x] \in Jobs /\ job[x].at = "record"
    BY DEF PairsInv, TypeOK, BanRecord
  <1>1. job[x].op = "ban" /\ job[x].pair[2] = Banned
    BY <1>t DEF Shape, Jobs, Lifting, Listing, Visiting
  <1>2. PICK end : WriteBan(x, end)
    BY DEF BanRecord
  <1>3. now' = now /\ UNCHANGED <<link, cache>> /\ SameOrdinary
    BY <1>1, <1>2 DEF WriteBan, Decide, SameOrdinary
  <1>4. PICK s \in Jobs : Moves(x, s) /\ s.at = "kick" /\ SameTask(s, job[x]) /\ SameVisit(s, job[x])
    BY <1>t, <1>2, GotoMoves, "kick" \in Steps DEF Steps, WriteBan
  <1> QED
    BY <1>t, <1>1, <1>3, <1>4, IdleInforms DEF SameTask, SameVisit

(* A step that leaves the sessions alone, but not what is decided or owed *)
LEMMA BringInforms ==
  ASSUME TypeOK, now' = now, UNCHANGED <<link, cache>>, disputed \subseteq disputed', NEW x \in Tasks, NEW s, Moves(x, s),
         s.at # "enter", s.op \notin {"login", "load", "ban"}, Visits(s),
         \A c \in Conns : Told(x, job[x], c) => Mirrors(s, c),
         \A c \in Conns, p \in Pairs :
            p \in Ordinary(c) /\ p \notin disputed /\ link[c] = "on" /\ Good(job[x], p)
              /\ (Follows(c, p) \/ Owes(job[x], c, p))
            => Follows(c, p)' \/ Owes(s, c, p)
  PROVE  Informs(x)
  <1>1. ASSUME NEW c \in Conns, Told(x, job[x], c), \A p \in Ordinary(c) \ disputed : Good(job[x], p)
        PROVE  Told(x, s, c)'
    <2>1. Mirrors(s, c)'
      BY <1>1 DEF Mirrors
    <2>2. ASSUME NEW p \in Ordinary(c) \ disputed', Live(x, s, c)' PROVE Follows(c, p)' \/ Owes(s, c, p)'
      <3>1. p \in Pairs /\ p \in Ordinary(c) \ disputed /\ link[c] = "on"
        BY <2>2 DEF Ordinary, Live
      <3>2. Follows(c, p) \/ Owes(job[x], c, p)
        BY <1>1, <3>1 DEF Told, Live
      <3>3. Follows(c, p)' \/ Owes(s, c, p)
        BY <1>1, <3>1, <3>2
      <3> QED
        BY <3>3 DEF Owes
    <2> QED
      BY <2>1, <2>2 DEF Told, Ordinary
  <1>2. Tells(x, s)
    BY <1>1 DEF Tells, Left, Connected
  <1>3. Visits(s)' /\ Linked(x, s)' /\ LinkStep(x)
    BY DEF Visits, Linked, LinkStep
  <1> QED
    BY <1>2, <1>3 DEF Informs

LEMMA FollowsSame ==
  ASSUME now' = now, UNCHANGED cache, NEW c, NEW p, want'[p] = want[p], Follows(c, p)
  PROVE  Follows(c, p)'
  BY DEF Follows, InForce, Ended

LEMMA AddExpiryInforms ==
  ASSUME PairsInv, NEW x \in Tasks, Linked(x, job[x]), disputed \subseteq disputed', AddExpiry(x)
  PROVE  Informs(x)
  <1>t. TypeOK /\ Shape(x, job[x]) /\ job[x] \in Jobs /\ job[x].at = "expire" /\ job[x].pair \in Pairs
    BY JobFields DEF PairsInv, TypeOK, AddExpiry
  <1>u. now' = now /\ UNCHANGED <<link, cache>>
    BY DEF AddExpiry
  <1>0. job[x].op \in {"add", "ban"}
    BY <1>t DEF Shape, Jobs, Lifting, Listing, Visiting
  <1>1. CASE job[x].op = "ban"
    <2>1. PICK s \in Jobs : Moves(x, s) /\ s.at = "record" /\ SameTask(s, job[x]) /\ SameVisit(s, job[x])
      BY <1>t, <1>1, GotoMoves, "record" \in Steps DEF Steps, AddExpiry, Added
    <2>2. SameOrdinary
      BY <1>1 DEF AddExpiry, Added, SameOrdinary
    <2> QED
      BY <1>t, <1>u, <1>1, <2>1, <2>2, IdleInforms DEF SameTask, SameVisit
  <1>2. CASE job[x].op = "add"
    <2>1. PICK s \in Jobs : /\ Moves(x, s) /\ s.at = "mirror" /\ s.op = "add" /\ s.mirror = {job[x].pair}
      BY <1>t, <1>2, AddExpiryMoves
    <2>2. \A p \in Pairs : p # job[x].pair => want'[p] = want[p]
      BY <1>2 DEF AddExpiry, Added, Decide
    <2>3. \A c \in Conns, p \in Pairs : Owes(job[x], c, p) => p = job[x].pair
      BY <1>t, <1>2 DEF Owes, Visiting, Shape
    <2>4. \A c \in Conns : Owes(s, c, job[x].pair) /\ Mirrors(s, c)
      BY <2>1 DEF Owes, Mirrors
    <2>5. \A c \in Conns, p \in Pairs : p # job[x].pair /\ Follows(c, p) => Follows(c, p)'
      BY <1>u, <2>2, FollowsSame
    <2>6. Visits(s)
      BY <2>1 DEF Visits, Visiting
    <2> QED
      BY <1>t, <1>u, <2>1, <2>3, <2>4, <2>5, <2>6, BringInforms
  <1> QED
    BY <1>0, <1>1, <1>2

LEMMA RemoveInforms ==
  ASSUME PairsInv, NEW x \in Tasks, Linked(x, job[x]), disputed \subseteq disputed',
         NEW k \in Keys, NEW g \in Groups, RemoveUserGroup(x, k, g)
  PROVE  Informs(x)
  <1>t. TypeOK /\ Shape(x, job[x]) /\ job[x] \in Jobs /\ job[x].op = "none"
    BY DEF PairsInv, TypeOK, RemoveUserGroup, Starts, Idle
  <1>u. now' = now /\ UNCHANGED <<link, cache>>
    BY DEF RemoveUserGroup
  <1>1. PICK q \in Pairs : q = <<k, g>>
    BY PairParts
  <1>2. PICK s \in Jobs : Moves(x, s) /\ s.at = "drop" /\ s.op = "remove" /\ s.mirror = {q}
    BY <1>t, <1>1, RemoveUserGroupMoves DEF Fresh
  <1>3. \A p \in Pairs : p # q => want'[p] = want[p]
    BY <1>1 DEF RemoveUserGroup, Decide
  <1>4. \A c \in Conns, p \in Pairs : ~Owes(job[x], c, p)
    BY <1>t DEF Owes
  <1>5. \A c \in Conns : Owes(s, c, q) /\ Mirrors(s, c)
    BY <1>2 DEF Owes, Mirrors
  <1>6. \A c \in Conns, p \in Pairs : p # q /\ Follows(c, p) => Follows(c, p)'
    BY <1>u, <1>3, FollowsSame
  <1>7. Visits(s)
    BY <1>2 DEF Visits, Visiting
  <1> QED
    BY <1>t, <1>u, <1>2, <1>4, <1>5, <1>6, <1>7, BringInforms

LEMMA DeleteInforms ==
  ASSUME PairsInv, NEW x \in Tasks, Linked(x, job[x]), disputed \subseteq disputed', NEW g \in Groups, DeleteGroup(x, g)
  PROVE  Informs(x)
  <1>t. TypeOK /\ Shape(x, job[x]) /\ job[x] \in Jobs /\ job[x].op = "none" /\ job[x].pair[1] \in Keys
    BY JobFields, PairParts DEF PairsInv, TypeOK, DeleteGroup, Starts, Idle
  <1>u. now' = now /\ UNCHANGED <<link, cache>>
    BY DEF DeleteGroup
  <1>1. PICK q \in Pairs : q = <<job[x].pair[1], g>> /\ q[2] = g
    BY <1>t, PairParts
  <1>2. PICK s \in Jobs : Moves(x, s) /\ s.at = "read" /\ s.op = "delete" /\ s.pair = q /\ s.visit = Connected
    BY <1>t, <1>1, DeleteGroupMoves DEF Fresh
  <1>3. \A p \in Pairs : p[2] # g => want'[p] = want[p]
    BY DEF DeleteGroup, Decide
  <1>4. \A c \in Conns, p \in Pairs : ~Owes(job[x], c, p)
    BY <1>t DEF Owes
  <1>5. \A c \in Conns, p \in Pairs : link[c] = "on" /\ p[2] = g => Owes(s, c, p)
    BY <1>1, <1>2 DEF Owes, Visiting, Connected
  <1>6. \A c \in Conns, p \in Pairs : p[2] # g /\ Follows(c, p) => Follows(c, p)'
    BY <1>u, <1>3, FollowsSame
  <1>7. Visits(s) /\ \A c \in Conns : Mirrors(s, c)
    BY <1>2 DEF Visits, Visiting, Connected, Mirrors
  <1> QED
    BY <1>t, <1>u, <1>2, <1>4, <1>5, <1>6, <1>7, BringInforms

LEMMA MirrorNextInforms ==
  ASSUME PairsInv, NEW x \in Tasks, Linked(x, job[x]), disputed \subseteq disputed', MirrorNext(x)
  PROVE  Informs(x)
  <1>t. TypeOK /\ Shape(x, job[x]) /\ job[x] \in Jobs /\ job[x].at = "mirror"
    BY DEF PairsInv, TypeOK, MirrorNext
  <1>u. now' = now /\ UNCHANGED <<link, cache, want>>
    BY DEF MirrorNext
  <1>0. job[x].op \in {"add", "remove", "sweep"}
    BY <1>t DEF Shape, Jobs, Lifting, Listing, Visiting
  <1>1. PICK s \in Jobs, q \in job[x].mirror :
            /\ Moves(x, s) /\ s.at = "read" /\ s.pair = q /\ s.op = job[x].op
            /\ s.mirror = job[x].mirror \ {q} /\ s.visit = Connected
    BY <1>t, MirrorNextMoves DEF SameTask
  <1>2. \A c \in Conns, p \in Pairs : link[c] = "on" /\ Owes(job[x], c, p) => Owes(s, c, p)
    BY <1>t, <1>1 DEF Owes, Visiting, Connected
  <1>3. \A c \in Conns, p \in Pairs : Follows(c, p) => Follows(c, p)'
    BY <1>u, FollowsSame
  <1>4. Visits(s) /\ \A c \in Conns : Mirrors(s, c)
    BY <1>1 DEF Visits, Visiting, Connected, Mirrors
  <1> QED
    BY <1>t, <1>u, <1>0, <1>1, <1>2, <1>3, <1>4, BringInforms

LEMMA MirrorReadInforms ==
  ASSUME PairsInv, NEW x \in Tasks, Linked(x, job[x]), Visits(job[x]), disputed \subseteq disputed', MirrorRead(x)
  PROVE  Informs(x)
  <1>t. TypeOK /\ Shape(x, job[x]) /\ job[x] \in Jobs /\ job[x].at = "read"
    BY DEF PairsInv, TypeOK, MirrorRead
  <1>u. now' = now /\ UNCHANGED <<link, cache, want>>
    BY DEF MirrorRead
  <1>0. job[x].op \in {"add", "remove", "delete", "sweep"}
    BY <1>t DEF Shape, Jobs, Lifting, Listing, Visiting
  <1>1. PICK s \in Jobs, d \in job[x].visit :
            /\ Moves(x, s) /\ s.pair = job[x].pair /\ SameTask(s, job[x]) /\ SameLists(s, job[x])
            /\ s.visit = job[x].visit \ {d} /\ s.conn = d
            /\ IF job[x].op = "delete" \/ (link[d] = "on" /\ KeyOf[d] = KeyAt(x))
               THEN s.at = "cache" /\ s.seen = cache[d] ELSE s.at = "read" /\ s.seen = {}
    BY <1>t, MirrorReadMoves
  <1>2. s.op = job[x].op /\ s.mirror = job[x].mirror /\ s.at \in Visiting
    BY <1>1 DEF SameTask, SameLists, Visiting
  <1>3. ASSUME NEW c \in Conns, NEW p \in Pairs, p \in Ordinary(c), link[c] = "on", Owes(job[x], c, p)
        PROVE  Owes(s, c, p)
    <2>1. CASE c # d
      BY <1>t, <1>1, <1>2, <1>3, <2>1 DEF Owes
    <2>2. CASE c = d
      BY <1>t, <1>1, <1>2, <1>3, <2>2 DEF Owes, Ordinary, KeyAt
    <2> QED
      BY <2>1, <2>2
  <1>4. \A c \in Conns, p \in Pairs : Follows(c, p) => Follows(c, p)'
    BY <1>u, FollowsSame
  <1>5. Visits(s)
    BY <1>t, <1>1, <1>2 DEF Visits, Visiting, KeyAt
  <1>6. \A c \in Conns : Mirrors(s, c)
    BY <1>1 DEF Mirrors
  <1> QED
    BY <1>t, <1>u, <1>0, <1>1, <1>2, <1>3, <1>4, <1>5, <1>6, BringInforms DEF Visiting

LEMMA MirrorDoneInforms ==
  ASSUME PairsInv, NEW x \in Tasks, Linked(x, job[x]), disputed \subseteq disputed', MirrorDone(x)
  PROVE  Informs(x)
  <1>t. TypeOK /\ Shape(x, job[x]) /\ job[x] \in Jobs /\ job[x].at = "read" /\ job[x].visit = {}
    BY DEF PairsInv, TypeOK, MirrorDone
  <1>u. now' = now /\ UNCHANGED <<link, cache, want>>
    BY DEF MirrorDone
  <1>0. job[x].op \in {"add", "remove", "delete", "sweep"}
    BY <1>t DEF Shape, Jobs, Lifting, Listing, Visiting
  <1>1. PICK s \in Jobs, t \in Jobs :
            Moves(x, s) /\ Onward(s, t) /\ t.op = job[x].op /\ t.mirror = job[x].mirror
    BY <1>t, MirrorDoneMoves DEF SameTask
  <1>2. s.at \in {"idle", "unban", "drop", "groups", "scan", "unlist", "mirror"} /\ s.op \in {"none", t.op}
    BY <1>1, OnwardAt
  <1>3. \A c \in Conns, p \in Pairs : Owes(job[x], c, p) => Owes(s, c, p)
    BY <1>t, <1>1 DEF Owes, Onward, Ends, SameTask, SameLists
  <1>4. \A c \in Conns, p \in Pairs : Follows(c, p) => Follows(c, p)'
    BY <1>u, FollowsSame
  <1>5. Visits(s) /\ \A c \in Conns : Mirrors(s, c)
    BY <1>2 DEF Visits, Visiting, Mirrors
  <1> QED
    BY <1>t, <1>u, <1>0, <1>1, <1>2, <1>3, <1>4, <1>5, BringInforms

(* What a cached group becomes is what the decision says: who adds knows    *)
(* that it is given, who takes away that it is not, or no longer.           *)
LEMMA MirrorWriteInforms ==
  ASSUME PairsInv, NEW x \in Tasks, Linked(x, job[x]), Visits(job[x]), Clean, disputed \subseteq disputed', MirrorWrite(x)
  PROVE  Informs(x)
  <1>t. TypeOK /\ Shape(x, job[x]) /\ job[x] \in Jobs /\ job[x].at = "cache" /\ job[x].conn \in Conns
    BY JobFields DEF PairsInv, TypeOK, MirrorWrite
  <1>u. now' = now /\ UNCHANGED <<link, want>>
    BY DEF MirrorWrite
  <1>0. job[x].op \in {"add", "remove", "delete", "sweep"}
    BY <1>t DEF Shape, Jobs, Lifting, Listing, Visiting
  <1>1. PICK s \in Jobs :
            /\ Moves(x, s) /\ s.at = "read" /\ s.pair = job[x].pair /\ s.op = job[x].op
            /\ s.mirror = job[x].mirror /\ s.visit = job[x].visit
    BY <1>t, MirrorWriteMoves DEF SameTask, SameLists
  <1>2. PICK g : g = job[x].pair[2]
    OBVIOUS
  <1>3. PICK new : new = IF job[x].op = "add" THEN job[x].seen \cup {g} ELSE job[x].seen \ {g}
    OBVIOUS
  <1>4. /\ \A d \in Conns : d # job[x].conn => cache'[d] = cache[d]
        /\ link[job[x].conn] # "gone" /\ job[x].seen = cache[job[x].conn] => cache'[job[x].conn] = new
    BY <1>t, <1>2, <1>3 DEF MirrorWrite, GroupAt, TypeOK
  <1>5. ASSUME NEW c \in Conns, Told(x, job[x], c), \A p \in Ordinary(c) \ disputed : Good(job[x], p)
        PROVE  Told(x, s, c)'
    <2>1. Mirrors(s, c)'
      BY <1>1 DEF Mirrors
    <2>2. ASSUME NEW p \in Ordinary(c) \ disputed', Live(x, s, c)' PROVE Follows(c, p)' \/ Owes(s, c, p)'
      <3>1. /\ p \in Pairs /\ p \in Ordinary(c) \ disputed /\ link[c] = "on" /\ want'[p] = want[p]
            /\ p[1] = KeyOf[c] /\ p[2] # Banned /\ want[p].clean
        BY <1>1, <1>u, <2>2 DEF Ordinary, Live, Clean
      <3>2. Follows(c, p) \/ Owes(job[x], c, p)
        BY <1>5, <3>1 DEF Told, Live
      <3>3. Owes(s, c, p) => Owes(s, c, p)'
        BY DEF Owes
      <3>4. (InForce(p)' <=> InForce(p)) /\ (InForce(p) => want[p].in)
        BY <1>u, <3>1 DEF InForce, Ended
      <3>5. CASE c # job[x].conn
        <4>1. Owes(job[x], c, p) => Owes(s, c, p)
          BY <1>1, <3>5 DEF Owes, Visiting
        <4>2. cache'[c] = cache[c]
          BY <1>4, <3>5
        <4> QED
          BY <3>1, <3>2, <3>3, <3>4, <4>1, <4>2 DEF Follows
      <3>6. CASE c = job[x].conn /\ p[2] # g
        <4>1. job[x].seen = cache[c] /\ cache'[c] = new
          BY <1>t, <1>4, <1>5, <3>1, <3>6 DEF Told, Mirrors
        <4>2. p[2] \in cache'[c] <=> p[2] \in cache[c]
          BY <1>3, <3>6, <4>1
        <4>3. Owes(job[x], c, p) => Owes(s, c, p)
          BY <1>1, <1>2, <3>6 DEF Owes
        <4> QED
          BY <3>1, <3>2, <3>3, <3>4, <4>2, <4>3 DEF Follows
      <3>7. CASE c = job[x].conn /\ p[2] = g
        <4>1. job[x].seen = cache[c] /\ cache'[c] = new
          BY <1>t, <1>4, <1>5, <3>1, <3>7 DEF Told, Mirrors
        <4>2. Good(job[x], p)
          BY <1>5, <3>1
        <4>3. job[x].op # "delete" => p = job[x].pair
          <5>1. job[x].op # "delete" => KeyOf[c] = job[x].pair[1]
            BY <1>t, <3>7 DEF Visits
          <5>2. p = <<p[1], p[2]>> /\ job[x].pair = <<job[x].pair[1], job[x].pair[2]>>
            BY <1>t, <3>1, PairParts, JobFields
          <5> QED
            BY <1>2, <3>1, <3>7, <5>1, <5>2
        <4>4. p \in Of(job[x])
          <5>1. CASE job[x].op = "delete"
            <6>1. p = <<p[1], p[2]>> /\ p[1] \in Keys
              BY <3>1, PairParts
            <6> QED
              BY <1>t, <1>2, <3>7, <5>1, <6>1 DEF Of
          <5>2. CASE job[x].op # "delete"
            BY <1>t, <1>0, <4>3, <5>2 DEF Of
          <5> QED
            BY <5>1, <5>2
        <4>5. CASE job[x].op = "add"
          <5>1. want[p].in
            BY <1>t, <4>2, <4>3, <4>5 DEF Good, Duty, Visiting
          <5>2. p[2] \in cache'[c]
            BY <1>3, <3>7, <4>1, <4>5
          <5> QED
            BY <3>1, <5>1, <5>2 DEF Follows
        <4>6. CASE job[x].op \in {"remove", "delete"}
          <5>1. ~want[p].in
            BY <4>2, <4>4, <4>6 DEF Good, Duty
          <5>2. p[2] \notin cache'[c]
            BY <1>3, <3>7, <4>1, <4>6
          <5> QED
            BY <3>4, <5>1, <5>2 DEF Follows
        <4>7. CASE job[x].op = "sweep"
          <5>1. ~InForce(p)
            BY <1>t, <3>1, <4>2, <4>3, <4>7 DEF Good, Duty, Condemned, Visiting
          <5>2. p[2] \notin cache'[c]
            BY <1>3, <3>7, <4>1, <4>7
          <5> QED
            BY <3>4, <5>1, <5>2 DEF Follows
        <4> QED
          BY <1>0, <4>5, <4>6, <4>7
      <3> QED
        BY <3>5, <3>6, <3>7
    <2> QED
      BY <2>1, <2>2 DEF Told, Ordinary
  <1>6. ASSUME NEW c \in Conns, KeyOf[c] \notin KeysOf(job[x]) PROVE cache'[c] = cache[c]
    <2>1. KeyOf[job[x].conn] \in KeysOf(job[x])
      BY <1>t, CacheAt
    <2> QED
      BY <1>4, <1>6, <2>1
  <1>7. Tells(x, s)
    BY <1>u, <1>5, <1>6 DEF Tells, Left, Connected
  <1>8. Visits(s)' /\ Linked(x, s)' /\ LinkStep(x)
    BY <1>t, <1>u, <1>0, <1>1 DEF Visits, Visiting, Linked, LinkStep
  <1> QED
    BY <1>1, <1>7, <1>8 DEF Informs

(* Clients that end, for a job that has nothing to bring *)
LEMMA LeaveInforms ==
  ASSUME TypeOK, now' = now, UNCHANGED want, disputed \subseteq disputed', NEW x \in Tasks, Done(x),
         job[x].op \notin {"add", "remove", "delete"}, NEW d \in Conns, Leave({d}),
         link[d] \in {"on", "gone"} \/ (d = x /\ link[d] = "login")
  PROVE  Informs(x)
  <1>1. PICK s \in Jobs : s = NoJob /\ Moves(x, s)
    BY NoJobType, DoneMoves
  <1>2. \A c \in Conns, p \in Pairs : ~Owes(job[x], c, p)
    BY DEF Owes
  <1>3. (\A c \in Conns : Left(c)) /\ SameOrdinary
    BY DEF Leave, Left, SameOrdinary
  <1>4. s.at \notin {"cache", "enter"} /\ s.op = "none" /\ s.at = "idle"
    BY <1>1, NoJobType
  <1>5. Tells(x, s)
    BY <1>2, <1>3, <1>4, QuietTells
  <1>6. Visits(s)' /\ Linked(x, s)' /\ LinkStep(x)
    BY <1>4 DEF Visits, Visiting, Linked, LinkStep, Leave
  <1> QED
    BY <1>1, <1>5, <1>6 DEF Informs

LEMMA BanKickInforms ==
  ASSUME PairsInv, NEW x \in Tasks, Linked(x, job[x]), disputed \subseteq disputed', BanKick(x)
  PROVE  Informs(x)
  <1>t. TypeOK /\ Shape(x, job[x]) /\ job[x] \in Jobs /\ job[x].at = "kick" /\ job[x].conn \in Conns
    BY JobFields DEF PairsInv, TypeOK, BanKick
  <1>1. job[x].op = "ban"
    BY <1>t DEF Shape, Jobs, Lifting, Listing, Visiting
  <1>2. link[job[x].conn] \in {"on", "gone"}
    BY <1>1 DEF Linked
  <1> QED
    BY <1>t, <1>1, <1>2, LeaveInforms DEF BanKick

LEMMA LoginCheckInforms ==
  ASSUME PairsInv, NEW x \in Conns, Linked(x, job[x]), disputed \subseteq disputed', LoginCheck(x)
  PROVE  Informs(x)
  <1>t. /\ TypeOK /\ Shape(x, job[x]) /\ job[x] \in Jobs /\ x \in Tasks /\ job[x].op = "login"
        /\ now' = now /\ want' = want /\ link[x] = "login" /\ SameOrdinary
    BY Constants DEF PairsInv, TypeOK, LoginCheck, Linked, SameOrdinary
  <1>1. CASE Banned \in job[x].active \cap exists
    BY <1>t, <1>1, LeaveInforms DEF LoginCheck
  <1>2. CASE Banned \notin job[x].active \cap exists
    <2>1. PICK s \in Jobs : Moves(x, s) /\ s.op = "load" /\ s.at = "groups"
      BY <1>t, <1>2, LoginGoesOn DEF LoginCheck
    <2>2. UNCHANGED <<link, cache>>
      BY <1>2 DEF LoginCheck
    <2> QED
      BY <1>t, <2>1, <2>2, IdleInforms
  <1> QED
    BY <1>1, <1>2

(* The groups a handshake found active are what the decisions say. *)
LEMMA LoginLoadInforms ==
  ASSUME PairsInv, NEW x \in Conns, Linked(x, job[x]), Clean, disputed \subseteq disputed', LoginLoad(x)
  PROVE  Informs(x)
  <1>t. /\ TypeOK /\ Shape(x, job[x]) /\ job[x] \in Jobs /\ x \in Tasks /\ job[x].op = "load"
        /\ job[x].at = "expiries" /\ job[x].todo = {} /\ UNCHANGED <<now, want, link>> /\ link[x] = "login"
    BY Constants DEF PairsInv, TypeOK, LoginLoad, Linked, ActiveDone
  <1>1. PICK s \in Jobs : Moves(x, s) /\ s.at = "enter" /\ s.op = "load"
    BY <1>t, GotoMoves, "enter" \in Steps DEF Steps, LoginLoad, SameTask
  <1>2. cache'[x] = job[x].active /\ \A c \in Conns : c # x => cache'[c] = cache[c]
    BY <1>t DEF LoginLoad, TypeOK
  <1>3. job[x].pair[1] = KeyOf[x]
    BY <1>t DEF Shape
  <1>4. KeyOf[x] \in KeysOf(job[x])
    <2>1. <<KeyOf[x], Banned>> \in Of(job[x])
      BY <1>t, <1>3, Constants DEF Of
    <2> QED
      BY <2>1 DEF KeysOf
  <1>5. ASSUME NEW c \in Conns, Told(x, job[x], c), \A p \in Ordinary(c) \ disputed : Good(job[x], p)
        PROVE  Told(x, s, c)'
    <2>1. Mirrors(s, c)'
      BY <1>1 DEF Mirrors
    <2>2. ASSUME NEW p \in Ordinary(c) \ disputed', Live(x, s, c)' PROVE Follows(c, p)'
      <3>1. /\ p \in Pairs /\ p \in Ordinary(c) \ disputed /\ p[1] = KeyOf[c] /\ p[2] # Banned /\ want[p].clean
            /\ (InForce(p)' <=> InForce(p)) /\ want'[p] = want[p]
        BY <1>t, <2>2 DEF Ordinary, Clean, InForce, Ended
      <3>2. CASE c = x
        <4>1. Good(job[x], p)
          BY <1>5, <3>1
        <4>2. (InForce(p) => p[2] \in job[x].active) /\ (~want[p].in => p[2] \notin job[x].active)
          BY <1>t, <1>3, <3>1, <3>2, <4>1 DEF Good, Duty, Listing
        <4> QED
          BY <1>2, <3>1, <3>2, <4>2 DEF Follows
      <3>3. CASE c # x
        <4>1. link[c] = "on" /\ cache'[c] = cache[c]
          BY <1>t, <1>2, <2>2, <3>3 DEF Live
        <4>2. Follows(c, p)
          BY <1>t, <1>5, <3>1, <4>1 DEF Told, Live, Owes
        <4> QED
          BY <3>1, <4>1, <4>2 DEF Follows
      <3> QED
        BY <3>2, <3>3
    <2> QED
      BY <2>1, <2>2 DEF Told, Ordinary
  <1>6. Tells(x, s)
    BY <1>t, <1>2, <1>4, <1>5 DEF Tells, Left, Connected
  <1>7. Visits(s)' /\ Linked(x, s)' /\ LinkStep(x)
    BY <1>t, <1>1 DEF Visits, Visiting, Linked, LinkStep
  <1> QED
    BY <1>1, <1>6, <1>7 DEF Informs

LEMMA LoginEnterInforms ==
  ASSUME PairsInv, NEW x \in Conns, Linked(x, job[x]), disputed \subseteq disputed', LoginEnter(x)
  PROVE  Informs(x)
  <1>t. /\ TypeOK /\ Shape(x, job[x]) /\ job[x] \in Jobs /\ x \in Tasks /\ job[x].at = "enter"
        /\ UNCHANGED <<now, want, cache>>
    BY Constants DEF PairsInv, TypeOK, LoginEnter
  <1>0. job[x].op = "load" /\ link[x] = "login"
    BY <1>t DEF Shape, Jobs, Lifting, Listing, Visiting, Linked
  <1>1. PICK s \in Jobs : Moves(x, s) /\ s.at = "idle" /\ s.op = "none"
    BY <1>t, NoJobType, DoneMoves DEF LoginEnter
  <1>2. link'[x] = "on" /\ \A c \in Conns : c # x => link'[c] = link[c]
    BY <1>t DEF LoginEnter, TypeOK
  <1>3. KeyOf[x] \in KeysOf(job[x])
    BY <1>t, EnterAt
  <1>4. ASSUME NEW c \in Conns, Told(x, job[x], c) PROVE Told(x, s, c)'
    <2>1. Mirrors(s, c)'
      BY <1>1 DEF Mirrors
    <2>2. ASSUME NEW p \in Ordinary(c) \ disputed', Live(x, s, c)' PROVE Follows(c, p)'
      <3>1. p \in Pairs /\ p \in Ordinary(c) \ disputed /\ (InForce(p)' <=> InForce(p)) /\ want'[p] = want[p]
        BY <1>t, <2>2 DEF Ordinary, InForce, Ended
      <3>2. Live(x, job[x], c)
        BY <1>t, <1>0, <1>1, <1>2, <2>2 DEF Live
      <3>3. Follows(c, p)
        BY <1>0, <1>4, <3>1, <3>2 DEF Told, Owes
      <3> QED
        BY <1>t, <3>1, <3>3 DEF Follows
    <2> QED
      BY <2>1, <2>2 DEF Told, Ordinary
  <1>5. Tells(x, s)
    BY <1>t, <1>0, <1>2, <1>3, <1>4 DEF Tells, Left, Connected
  <1>6. Visits(s)' /\ Linked(x, s)' /\ LinkStep(x)
    BY <1>0, <1>1, <1>2 DEF Visits, Visiting, Linked, LinkStep
  <1> QED
    BY <1>1, <1>5, <1>6 DEF Informs

LEMMA LoginInforms ==
  ASSUME PairsInv, NEW x \in Conns, disputed \subseteq disputed', Login(x)
  PROVE  Informs(x)
  <1>t. /\ TypeOK /\ job[x] \in Jobs /\ x \in Tasks /\ job[x].op = "none" /\ link[x] = "new"
        /\ UNCHANGED <<now, want, cache>>
    BY Constants DEF PairsInv, TypeOK, Login, Starts, Idle
  <1>1. PICK s \in Jobs, t \in Jobs :
            Moves(x, s) /\ Onward(s, t) /\ t.op = "login" /\ t.pair = <<KeyOf[x], Banned>>
    BY <1>t, LoginMoves
  <1>2. s.op = "login" /\ s.at \in {"unban", "groups"} /\ s.pair[1] = KeyOf[x]
    BY <1>1 DEF Onward, Ends, OnTo, SameTask
  <1>3. link'[x] = "login" /\ \A c \in Conns : c # x => link'[c] = link[c]
    BY <1>t DEF Login, TypeOK
  <1>4. KeyOf[x] \in KeysOf(s)
    <2>1. <<KeyOf[x], Banned>> \in Of(s)
      BY <1>2, Constants DEF Of
    <2> QED
      BY <2>1 DEF KeysOf
  <1>5. ASSUME NEW c \in Conns, Told(x, job[x], c) PROVE Told(x, s, c)'
    <2>1. Mirrors(s, c)'
      BY <1>2 DEF Mirrors
    <2>2. ASSUME NEW p \in Ordinary(c) \ disputed', Live(x, s, c)' PROVE Follows(c, p)'
      <3>1. p \in Pairs /\ p \in Ordinary(c) \ disputed /\ (InForce(p)' <=> InForce(p)) /\ want'[p] = want[p]
        BY <1>t, <2>2 DEF Ordinary, InForce, Ended
      <3>2. Live(x, job[x], c)
        BY <1>t, <1>2, <1>3, <2>2 DEF Live
      <3>3. Follows(c, p)
        BY <1>t, <1>5, <3>1, <3>2 DEF Told, Owes
      <3> QED
        BY <1>t, <3>1, <3>3 DEF Follows
    <2> QED
      BY <2>1, <2>2 DEF Told, Ordinary
  <1>6. Tells(x, s)
    BY <1>t, <1>3, <1>4, <1>5 DEF Tells, Left, Connected
  <1>7. Visits(s)' /\ Linked(x, s)' /\ LinkStep(x)
    BY <1>t, <1>2, <1>3 DEF Visits, Visiting, Linked, LinkStep
  <1> QED
    BY <1>1, <1>6, <1>7 DEF Informs

LEMMA SweepInforms ==
  ASSUME PairsInv, NEW x \in Tasks, Linked(x, job[x]), disputed \subseteq disputed', Sweep(x)
  PROVE  Informs(x)
  <1>t. TypeOK /\ job[x].op = "none" /\ now' = now /\ UNCHANGED <<link, cache>> /\ SameOrdinary
    BY DEF PairsInv, Sweep, Starts, Idle, SameOrdinary
  <1>1. PICK s \in Jobs, t \in Jobs : Moves(x, s) /\ Onward(s, t) /\ t.op = "sweepBans"
    BY <1>t, SweepMoves
  <1>2. s.at \notin {"read", "cache", "enter"} /\ s.op \in {"none", "sweepBans"}
    BY <1>1, OnwardAt
  <1> QED
    BY <1>t, <1>1, <1>2, IdleInforms

LEMMA BanUserInforms ==
  ASSUME PairsInv, NEW x \in Tasks, disputed \subseteq disputed', NEW d \in Conns, BanUser(x, d)
  PROVE  Informs(x)
  <1>t. TypeOK /\ job[x].op = "none" /\ now' = now /\ UNCHANGED <<link, cache>> /\ SameOrdinary /\ link[d] = "on"
    BY DEF PairsInv, BanUser, Starts, Idle, SameOrdinary
  <1>1. PICK s \in Jobs : Moves(x, s) /\ s.op = "ban" /\ s.at = "write" /\ s.conn = d
    BY <1>t, BanUserMoves DEF Fresh
  <1>2. \A c \in Conns, p \in Pairs : ~Owes(job[x], c, p)
    BY <1>t DEF Owes
  <1>3. \A c \in Conns : Left(c)
    BY <1>t DEF Left
  <1>4. Tells(x, s)
    BY <1>t, <1>1, <1>2, <1>3, QuietTells
  <1>5. Visits(s)' /\ Linked(x, s)' /\ LinkStep(x)
    BY <1>t, <1>1 DEF Visits, Visiting, Linked, LinkStep
  <1> QED
    BY <1>1, <1>4, <1>5 DEF Informs

LEMMA RequestInforms ==
  ASSUME PairsInv, NEW x \in Tasks, Linked(x, job[x]), disputed \subseteq disputed', Request(x)
  PROVE  Informs(x)
  <1>t. TypeOK
    BY DEF PairsInv
  <1>1. CASE \E k \in Keys : ListRegistered(x, k)
    <2>1. PICK k \in Keys : ListRegistered(x, k)
      BY <1>1
    <2>2. job[x].op = "none" /\ now' = now /\ UNCHANGED <<link, cache>> /\ SameOrdinary
      BY <2>1 DEF ListRegistered, Starts, Idle, SameOrdinary
    <2>3. PICK s \in Jobs : Moves(x, s) /\ s.op = "list" /\ s.at = "groups"
      BY <1>t, <2>1, ListRegisteredMoves DEF Fresh
    <2> QED
      BY <1>t, <2>2, <2>3, IdleInforms
  <1>2. CASE \E k \in Keys, g \in Groups, u \in {0} \cup (now + 1)..MaxTime : AddUserGroup(x, k, g, u)
    <2>0. \A u \in {0} \cup (now + 1)..MaxTime : u \in Time
      BY <1>t, Constants DEF Time, TypeOK
    <2>1. PICK k \in Keys, g \in Groups, u \in Time : AddUserGroup(x, k, g, u)
      BY <1>2, <2>0
    <2>2. job[x].op = "none" /\ now' = now /\ UNCHANGED <<link, cache>> /\ SameOrdinary
      BY <2>1 DEF AddUserGroup, Starts, Idle, SameOrdinary
    <2>3. PICK s \in Jobs : Moves(x, s) /\ s.op = "add" /\ s.at = "write"
      BY <1>t, <2>1, AddUserGroupMoves DEF Fresh
    <2> QED
      BY <1>t, <2>2, <2>3, IdleInforms
  <1>3. CASE \E g \in Groups : CreateGroup(x, g)
    <2>1. PICK g \in Groups : CreateGroup(x, g)
      BY <1>3
    <2>2. job[x].op = "none" /\ now' = now /\ UNCHANGED <<link, cache>> /\ SameOrdinary
      BY <2>1 DEF CreateGroup, Starts, Idle, SameOrdinary
    <2>3. PICK s \in Jobs : Moves(x, s) /\ s.op = "create" /\ s.at = "insert"
      BY <1>t, <2>1, CreateGroupMoves DEF Fresh
    <2> QED
      BY <1>t, <2>2, <2>3, IdleInforms
  <1> QED
    BY <1>1, <1>2, <1>3, RemoveInforms, DeleteInforms, BanUserInforms DEF Request

LEMMA ContinueInforms ==
  ASSUME PairsInv, NEW x \in Tasks, Linked(x, job[x]), Visits(job[x]), Clean, disputed \subseteq disputed', Continue(x)
  PROVE  Informs(x)
  <1>1. LoginCheck(x) \/ LoginLoad(x) \/ LoginEnter(x) => x \in Conns
    <2>1. job[x].at = "enter" => job[x].op = "load"
      BY DEF PairsInv, Shape, TypeOK, Jobs, Lifting, Listing, Visiting
    <2> QED
      BY <2>1 DEF LoginCheck, LoginLoad, LoginEnter, PairsInv, Shape
  <1> QED
    BY <1>1, DropsInform, MirrorNextInforms, MirrorReadInforms, MirrorWriteInforms, MirrorDoneInforms,
       ActiveInforms, AddExpiryInforms, BanInforms, BanKickInforms, GroupInforms, LoginCheckInforms,
       LoginLoadInforms, LoginEnterInforms, SweepScanInforms DEF Continue

(* Only "banned" memberships are ever unclear. *)
LEMMA NextClean == ASSUME PairsInv, Clean, [Next]_vars PROVE Clean'
  <1>0. ASSUME want' = want PROVE Clean'
    BY <1>0 DEF Clean
  <1>1. ASSUME NEW x \in Tasks, Continue(x) PROVE Clean'
    <2>1. CASE AddExpiry(x)
      <3>1. CASE job[x].op = "ban"
        BY <1>0, <2>1, <3>1 DEF AddExpiry, Added
      <3>2. CASE job[x].op # "ban"
        <4>1. \A p \in Pairs : want'[p] = want[p] \/
                 (p = job[x].pair /\ want'[p].clean = ~(p[2] = Banned /\ p[1] \in DOMAIN banEnd))
          BY <2>1, <3>2 DEF AddExpiry, Added, Decide, GroupAt, KeyAt
        <4> QED
          BY <4>1 DEF Clean
      <3> QED
        BY <3>1, <3>2
    <2>2. CASE BanRecord(x)
      BY <2>2 DEF BanRecord, WriteBan, Decide, Clean
    <2>3. CASE ~AddExpiry(x) /\ ~BanRecord(x)
      BY <1>0, <1>1, <2>3
      DEF Continue, DropHeld, DropBan, DropBanned, DropExpiry, MirrorNext, MirrorRead, MirrorWrite,
          MirrorDone, ActiveList, ActiveExpiry, DropLapsed, EraseLapsed, Listed, AddHeld,
          BanKick, InsertGroup, RemoveGroup, LoginCheck, LoginLoad, LoginEnter, SweepScan, SweepPairs
    <2> QED
      BY <2>1, <2>2, <2>3
  <1>2. ASSUME NEW x \in Tasks, Request(x) PROVE Clean'
    <2>1. ASSUME NEW k \in Keys, NEW g \in Groups, RemoveUserGroup(x, k, g) PROVE Clean'
      BY <2>1 DEF RemoveUserGroup, Decide, Clean
    <2>2. ASSUME NEW g \in Groups, DeleteGroup(x, g) PROVE Clean'
      BY <2>2 DEF DeleteGroup, Decide, Clean
    <2> QED
      BY <1>0, <1>2, <2>1, <2>2 DEF Request, ListRegistered, AddUserGroup, BanUser, CreateGroup
  <1>3. CASE UNCHANGED vars
    BY <1>0, <1>3 DEF vars
  <1>4. CASE Restart
    BY <1>0, <1>4 DEF Restart
  <1>5. CASE Tick \/ Sweep(Sweeper) \/ \E c \in Conns : Login(c) \/ Disconnect(c)
    BY <1>0, <1>5 DEF Tick, Sweep, Login, Disconnect
  <1> QED
    BY <1>1, <1>2, <1>3, <1>4, <1>5, Constants DEF Next, Step

LEMMA SessionsMove ==
  ASSUME PairsInv, PairsInv', SessionsInv, NEW x \in Tasks, Right(x), Informs(x), Clocked, Clean',
         disputed \subseteq disputed', blurred \subseteq blurred', Overlooked' \subseteq blurred'
  PROVE  SessionsInv'
  <1> USE DEF PairsInv, SessionsInv
  <1>1. PICK s : Moves(x, s) /\ Tells(x, s) /\ Visits(s)' /\ Linked(x, s)' /\ LinkStep(x)
    BY DEF Informs
  <1>2. PICK r : Moves(x, r) /\ Shape(x, r) /\ Local(x, r)
    BY DEF Right
  <1>3. r = s /\ job'[x] = s
    BY <1>1, <1>2 DEF Moves
  <1>4. CacheInv'
    BY <1>1, <1>2, <1>3, TellMove
  <1>5. ASSUME NEW z \in Tasks PROVE Linked(z, job[z])' /\ Visits(job[z])'
    <2>1. CASE z = x
      BY <1>1, <1>3, <2>1 DEF Linked, Visits
    <2>2. CASE z # x
      <3>1. PICK j \in Jobs : j = job[z] /\ j = job'[z] /\ Shape(z, j) /\ Linked(z, j) /\ Visits(j)
        BY <1>1, <2>2 DEF Moves, TypeOK
      <3>2. j.conn \in Conns /\ j.visit \subseteq Conns /\ (j.op \in {"login", "load"} => z \in Conns)
        BY <3>1, JobFields DEF Shape
      <3>3. Linked(z, j)'
        BY <1>1, <2>2, <3>1, <3>2 DEF Linked, LinkStep
      <3>4. Visits(j)'
        BY <1>1, <3>1, <3>2 DEF Visits, LinkStep
      <3> QED
        BY <3>1, <3>3, <3>4 DEF Linked, Visits
    <2> QED
      BY <2>1, <2>2
  <1> QED
    BY <1>4, <1>5

(* Nobody moves: time passes, or a client goes. *)
LEMMA QuietSessions ==
  ASSUME PairsInv, PairsInv', SessionsInv, job' = job, UNCHANGED <<exists, held, expiry, banEnd, want>>,
         now <= now', Clean', disputed \subseteq disputed', blurred \subseteq blurred', Overlooked' \subseteq blurred',
         \A c \in Conns : \/ link'[c] = link[c] /\ cache'[c] = cache[c]
                          \/ link[c] = "on" /\ link'[c] = "gone"
  PROVE  SessionsInv'
  <1> USE DEF PairsInv
  <1>1. Clocked
    BY Clocks DEF TypeOK, Clocked, Time
  <1>2. PICK j \in Jobs : j = job[Sweeper]
    BY Constants DEF TypeOK
  <1>3. Moves(Sweeper, j) /\ Shape(Sweeper, j) /\ Local(Sweeper, j)
    BY <1>1, <1>2, StillLocal, Constants DEF Moves, TypeOK
  <1>4. \A c \in Conns : Left(c) /\ (c \in Connected' => c \in Connected) /\ (link'[c] = "new" => link[c] = "new")
    BY DEF Left, Connected
  <1>5. ASSUME NEW c \in Conns, Told(Sweeper, job[Sweeper], c) PROVE Told(Sweeper, j, c)'
    <2>1. Told(Sweeper, j, c) /\ Left(c)
      BY <1>2, <1>4, <1>5
    <2>2. \A p \in Ordinary(c) : want'[p] = want[p]
      OBVIOUS
    <2> QED
      BY <1>1, <2>1, <2>2, ToldSame
  <1>6. Tells(Sweeper, j)
    BY <1>4, <1>5 DEF Tells
  <1>7. LinkStep(Sweeper)
    BY DEF LinkStep
  <1>8. Visits(j)' /\ Linked(Sweeper, j)'
    <2>1. Visits(j) /\ Linked(Sweeper, j) /\ j.visit \subseteq Conns /\ j.conn \in Conns
      BY <1>2, Constants, JobFields DEF SessionsInv
    <2>2. j.op \notin {"login", "load"}
      BY <1>3, Constants DEF Shape
    <2> QED
      BY <1>4, <2>1, <2>2 DEF Visits, Linked
  <1> QED
    BY <1>1, <1>3, <1>6, <1>7, <1>8, SessionsMove, Constants DEF Right, Informs

(* A crash ends every client, and every job. *)
LEMMA RestartSessions ==
  ASSUME PairsInv, SessionsInv, Restart, blurred' = blurred, Clean'
  PROVE  SessionsInv'
  <1>1. PICK j \in Jobs : j = NoJob /\ j.op = "none" /\ j.at = "idle"
    BY NoJobType
  <1>2. (\A x \in Tasks : job'[x] = j) /\ \A c \in Conns : link'[c] \notin {"login", "on"}
    BY <1>1 DEF Restart, Leave, Connected
  <1>3. Connected' = {}
    BY <1>2 DEF Connected
  <1>4. \A x \in Tasks : Linked(x, job[x])' /\ Visits(job[x])'
    BY <1>1, <1>2 DEF Linked, Visits, Visiting
  <1>5. CacheInv'
    BY <1>1, <1>2 DEF CacheInv, Told, Mirrors, Live
  <1> QED
    BY <1>3, <1>4, <1>5 DEF SessionsInv, Overlooked

LEMMA SessionsStep == PairsInv /\ PairsInv' /\ SessionsInv /\ [Next]_vars => SessionsInv'
  <1> SUFFICES ASSUME PairsInv, PairsInv', SessionsInv, [Next]_vars PROVE SessionsInv'
    OBVIOUS
  <1>c. Clean'
    BY NextClean DEF SessionsInv
  <1>1. CASE UNCHANGED vars
    <2>1. /\ job' = job /\ UNCHANGED <<exists, held, expiry, banEnd, want>> /\ now' = now
          /\ disputed' = disputed /\ UNCHANGED <<link, cache, blurred>>
      BY <1>1 DEF vars, store, history
    <2>2. Overlooked' = Overlooked
      BY <2>1 DEF Overlooked, Connected, AtKeys, At, KeyAt, GroupAt
    <2>3. now <= now' /\ Overlooked' \subseteq blurred'
      BY <2>1, <2>2 DEF PairsInv, TypeOK, SessionsInv
    <2> QED
      BY <1>c, <2>1, <2>3, QuietSessions
  <1>2. CASE Step /\ disputed' = disputed \cup Contended' /\ blurred' = blurred \cup Overlooked'
    <2>0. /\ disputed \subseteq disputed' /\ blurred \subseteq blurred' /\ Overlooked' \subseteq blurred'
          /\ now \in Nat
      BY <1>2 DEF PairsInv, TypeOK
    <2>1. ASSUME NEW x \in Tasks, Right(x), Informs(x), now' = now PROVE SessionsInv'
      BY <1>c, <2>0, <2>1, SessionsMove, Clocks DEF PairsInv
    <2>2. CASE \E x \in Admins : Request(x)
      <3>1. PICK x \in Tasks : Request(x)
        BY <2>2, Constants
      <3>2. now' = now
        BY <3>1 DEF Request, ListRegistered, RemoveUserGroup, AddUserGroup, BanUser, CreateGroup, DeleteGroup
      <3>3. Informs(x)
        BY <2>0, <3>1, RequestInforms DEF SessionsInv
      <3>4. Right(x)
        BY <3>1, RequestRight DEF PairsInv
      <3> QED
        BY <2>1, <3>2, <3>3, <3>4
    <2>3. CASE \E x \in Tasks : Continue(x)
      <3>1. PICK x \in Tasks : Continue(x)
        BY <2>3
      <3>2. now' = now
        BY <3>1 DEF Continue, DropHeld, DropBan, DropBanned, DropExpiry, MirrorNext, MirrorRead, MirrorWrite,
                    MirrorDone, ActiveList, ActiveExpiry, DropLapsed, EraseLapsed, Listed, AddHeld, AddExpiry,
                    BanRecord, WriteBan, BanKick, InsertGroup, RemoveGroup, LoginCheck, LoginLoad, LoginEnter,
                    SweepScan, SweepPairs
      <3>3. Informs(x)
        BY <2>0, <3>1, ContinueInforms DEF SessionsInv
      <3>4. Right(x)
        BY <3>1, ContinueRight DEF PairsInv
      <3> QED
        BY <2>1, <3>2, <3>3, <3>4
    <2>4. CASE Sweep(Sweeper)
      <3>1. Sweeper \in Tasks /\ now' = now
        BY <2>4, Constants DEF Sweep
      <3>2. Informs(Sweeper)
        BY <2>0, <2>4, <3>1, SweepInforms DEF SessionsInv
      <3>3. Right(Sweeper)
        BY <2>4, <3>1, SweepRight DEF PairsInv
      <3> QED
        BY <2>1, <3>1, <3>2, <3>3
    <2>5. ASSUME NEW c \in Conns, Login(c) PROVE SessionsInv'
      <3>1. c \in Tasks /\ now' = now
        BY <2>5, Constants DEF Login
      <3>2. Informs(c)
        BY <2>0, <2>5, LoginInforms
      <3>3. Right(c)
        BY <2>5, <3>1, LoginRight DEF PairsInv
      <3> QED
        BY <2>1, <3>1, <3>2, <3>3
    <2>6. CASE Tick
      <3>1. job' = job /\ UNCHANGED <<exists, held, expiry, banEnd, want, link, cache>> /\ now <= now'
        BY <2>0, <2>6 DEF Tick, store
      <3> QED
        BY <1>c, <2>0, <3>1, QuietSessions
    <2>7. ASSUME NEW c \in Conns, Disconnect(c) PROVE SessionsInv'
      <3>1. job' = job /\ UNCHANGED <<exists, held, expiry, banEnd, want>> /\ now <= now'
        BY <2>0, <2>7 DEF Disconnect, store
      <3>2. \A d \in Conns : \/ link'[d] = link[d] /\ cache'[d] = cache[d]
                             \/ link[d] = "on" /\ link'[d] = "gone"
        BY <2>7 DEF Disconnect, Leave
      <3> QED
        BY <1>c, <2>0, <3>1, <3>2, QuietSessions
    <2> QED
      BY <1>2, <2>2, <2>3, <2>4, <2>5, <2>6, <2>7 DEF Step
  <1> QED
    BY <1>c, <1>1, <1>2, RestartSessions DEF Next

LEMMA SessionsInit == Init => SessionsInv
  <1> SUFFICES ASSUME Init PROVE SessionsInv
    OBVIOUS
  <1>1. PICK j \in Jobs : j = NoJob /\ j.op = "none" /\ j.at = "idle"
    BY NoJobType
  <1>2. (\A x \in Tasks : job[x] = j) /\ \A c \in Conns : link[c] = "new"
    BY <1>1 DEF Init
  <1>3. Connected = {} /\ Clean
    BY <1>2 DEF Connected, Clean, Init
  <1>4. \A x \in Tasks : Linked(x, job[x]) /\ Visits(job[x])
    BY <1>1, <1>2 DEF Linked, Visits, Visiting
  <1>5. CacheInv
    BY <1>1, <1>2 DEF CacheInv, Told, Mirrors, Live
  <1> QED
    BY <1>3, <1>4, <1>5 DEF SessionsInv, Overlooked

LEMMA SessionsAlways == Spec => [](PairsInv /\ SessionsInv)
  <1>1. Init => PairsInv /\ SessionsInv
    BY PairsInit, SessionsInit
  <1>2. PairsInv /\ SessionsInv /\ [Next]_vars => PairsInv' /\ SessionsInv'
    BY PairsStep, SessionsStep
  <1> QED
    BY <1>1, <1>2, PTL DEF Spec

-----------------------------------------------------------------------------
(* The theorems *)

(* Every variable has its type. *)
THEOREM GroupsTyped == Spec => []TypeOK
  <1>1. PairsInv => TypeOK
    BY DEF PairsInv
  <1> QED
    BY <1>1, PairsAlways, PTL

(* What the store says of a key and a group is what was decided last, once  *)
(* nobody is at it: SetUserGroup, BanUser, DeleteGroup, the handshake and   *)
(* the sweep may interleave in any way that keeps off each other's pairs.   *)
THEOREM DecisionsAreKept == Spec => []DecisionsKept
  <1>1. ASSUME PairsInv PROVE DecisionsKept
    <2> SUFFICES ASSUME NEW p \in Pairs, Settled(p), want[p].clean PROVE Effective(p) = InForce(p)
      BY DEF DecisionsKept
    <2>1. Good(job[Sweeper], p) /\ p \notin Of(job[Sweeper])
      BY <1>1, Constants, AtJob DEF PairsInv, PairInv, Alone, Settled
    <2>2. Kept(p)
      BY <1>1, <2>1, Settles, Constants DEF PairsInv, TypeOK
    <2> QED
      BY <2>2 DEF Kept, Stands, Held, Recorded, Effective, InForce, Ended
  <1> QED
    BY <1>1, PairsAlways, PTL

(* No membership outlives its group: DeleteGroup takes the members out      *)
(* before the group, and a grant checks the group before it writes.         *)
THEOREM NoneDangles == Spec => []NoDanglingMembership
  <1>1. ASSUME PairsInv PROVE NoDanglingMembership
    <2> SUFFICES ASSUME NEW p \in Pairs, Settled(p), p[2] \in held[p[1]] PROVE p[2] \in exists
      BY DEF NoDanglingMembership
    <2>1. Good(job[Sweeper], p)
      BY <1>1, Constants DEF PairsInv, PairInv, Alone, Settled
    <2> QED
      BY <2>1 DEF Good, Held
  <1> QED
    BY <1>1, PairsAlways, PTL

(* No handshake ends with a session while a ban of its key is in force: the *)
(* check of step 4b still holds at step 9.                                  *)
THEOREM TheBannedStayOut == Spec => BannedStayOut
  <1>1. ASSUME PairsInv, [Next]_vars,
               NEW c \in Conns, NEW p \in Pairs, p = <<KeyOf[c], Banned>>,
               link[c] # "on", link'[c] = "on", p \notin disputed, want[p].clean
        PROVE  ~InForce(p)
    <2> USE <1>1 DEF PairsInv
    <2>1. link' # link
      OBVIOUS
    <2>2. LoginEnter(c)
      <3>1. \A C : ~Leave(C)
        BY DEF Leave
      <3>2. CASE \E x \in Tasks : LoginEnter(x)
        BY <3>2 DEF LoginEnter, TypeOK
      <3>3. CASE \E d \in Conns : Login(d)
        BY <3>3 DEF Login, TypeOK
      <3>4. ASSUME NEW x \in Tasks, Continue(x) PROVE LoginEnter(x)
        BY <2>1, <3>1, <3>4
        DEF Continue, DropHeld, DropBan, DropBanned, DropExpiry, MirrorNext, MirrorRead, MirrorWrite,
            MirrorDone, ActiveList, ActiveExpiry, DropLapsed, EraseLapsed, Listed, AddHeld, AddExpiry,
            BanRecord, WriteBan, BanKick, InsertGroup, RemoveGroup, LoginCheck, LoginLoad,
            SweepScan, SweepPairs
      <3>5. ASSUME NEW x \in Tasks PROVE ~Request(x)
        BY <2>1, <3>5 DEF Request, ListRegistered, RemoveUserGroup, AddUserGroup, BanUser, CreateGroup, DeleteGroup
      <3>6. ~Tick /\ ~Sweep(Sweeper) /\ ~Restart /\ \A d \in Conns : ~Disconnect(d)
        BY <2>1, <3>1 DEF Tick, Sweep, Restart, Disconnect
      <3> QED
        BY <2>1, <3>2, <3>3, <3>4, <3>5, <3>6, Constants DEF Next, Step, vars
    <2>3. job[c] \in Jobs /\ job[c].at = "enter" /\ Shape(c, job[c]) /\ c \in Tasks
      BY <2>2, Constants DEF LoginEnter, TypeOK
    <2>4. job[c].op = "load" /\ job[c].pair[1] = KeyOf[c]
      BY <2>3 DEF Shape, Jobs, Lifting, Listing, Visiting
    <2>5. p \in Of(job[c]) /\ p = <<job[c].pair[1], Banned>>
      BY <2>3, <2>4, Constants DEF Of
    <2>6. Alone(c, p)
      BY <2>3, <2>5, AtJob DEF Alone, Contended
    <2> QED
      BY <2>3, <2>4, <2>5, <2>6 DEF PairInv, Good, Duty
  <1>2. \A c \in Conns : <<KeyOf[c], Banned>> \in Pairs
    BY Constants, PairParts
  <1>3. PairsInv /\ [Next]_vars =>
          [\A c \in Conns : LET p == <<KeyOf[c], Banned>> IN
              link[c] # "on" /\ link'[c] = "on" /\ c \notin blurred /\ p \notin disputed /\ want[p].clean
                 => ~InForce(p)]_vars
    BY <1>1, <1>2
  <1> QED
    BY <1>3, PairsAlways, PTL DEF Spec, BannedStayOut

(* When a sweep is over, it has taken out every membership and every ban    *)
(* that had run out when it started.                                        *)
THEOREM SweepIsThorough == Spec => SweepTakesAll
  <1>1. ASSUME PairsInv, SweepInv, [Next]_vars,
               job[Sweeper].op \in {"sweepBans", "sweep"}, job'[Sweeper].op = "none", asked' = asked,
               NEW p \in Pairs \ disputed, want[p].clean, want[p].since < job[Sweeper].clock,
               Past(Sweeper, want[p].until), \A x \in Tasks \ {Sweeper} : p \notin At(x)
        PROVE  p[2] \notin held[p[1]]
    <2> USE <1>1
    <2>t. TypeOK /\ Sweeper \in Tasks
      BY Constants DEF PairsInv
    <2>1. Continue(Sweeper)
      <3>1. job'[Sweeper] # job[Sweeper]
        OBVIOUS
      <3>2. ASSUME NEW x \in Tasks, x # Sweeper, NEW s, Moves(x, s) PROVE FALSE
        BY <2>t, <3>1, <3>2 DEF Moves
      <3>3. \A x \in Admins : ~Request(x)
        BY <2>t, <3>2, RequestClock, GroupsConstants, Constants DEF Punctual
      <3>4. \A x \in Tasks \ {Sweeper} : ~Continue(x)
        BY <2>t, <3>2, ContinueClock DEF Punctual, PairsInv
      <3>5. ~Sweep(Sweeper)
        BY DEF Sweep, Starts, Idle
      <3>6. \A c \in Conns : ~Login(c)
        BY <2>t, <3>2, LoginMoves, Constants
      <3>7. ~Tick /\ (\A c \in Conns : ~Disconnect(c)) /\ ~UNCHANGED vars
        BY <3>1 DEF Tick, Disconnect, vars
      <3>8. ~Counted
        BY <2>t DEF Counted, TypeOK
      <3> QED
        BY <3>3, <3>4, <3>5, <3>6, <3>7, <3>8 DEF Next, Step
    <2>2. PICK j \in Jobs : j = job[Sweeper]
      BY <2>t DEF TypeOK
    <2>3. \/ j.op = "sweepBans" /\ j.at = "scan" /\ j.drop = {} /\ \A q \in Pairs : ~Past(Sweeper, expiry[q])
          \/ j.op = "sweep" /\ j.drop = {} /\ j.at \in {"read", "erase"}
      BY <2>1, <2>2, SweepEnds
    <2>4. Good(j, p)
      BY <2>2, <2>t DEF PairsInv, PairInv, Alone
    <2>5. CASE j.pair = p /\ j.at = "erase"
      BY <2>4, <2>5 DEF Good, Duty, Held
    <2>6. CASE ~(j.pair = p /\ j.at = "erase")
      <3>1. ~Past(Sweeper, expiry[p]) /\ \A k \in DOMAIN banEnd : ~Past(Sweeper, banEnd[k])
        <4>1. CASE j.op = "sweepBans"
          BY <2>2, <2>3, <4>1 DEF SweepInv
        <4>2. CASE j.op = "sweep"
          <5>1. want[p].since \in Nat /\ j.clock \in Nat
            BY <2>t, <2>2, JobFields, Constants DEF TypeOK, Time
          <5> QED
            BY <2>2, <2>3, <2>6, <4>2, <5>1 DEF SweepInv
        <4> QED
          BY <2>3, <4>1, <4>2
      <3>2. ~Pending(j, p)
        BY <2>3 DEF Pending
      <3>3. Kept(p)
        BY <2>4, <3>2 DEF Good
      <3> QED
        BY <3>1, <3>3 DEF Kept, Held, Stands, Recorded
    <2> QED
      BY <2>5, <2>6
  <1>2. PairsInv /\ SweepInv /\ [Next]_vars =>
          [job[Sweeper].op \in {"sweepBans", "sweep"} /\ job'[Sweeper].op = "none" /\ asked' = asked =>
             \A p \in Pairs \ disputed :
                want[p].clean /\ want[p].since < job[Sweeper].clock /\ Past(Sweeper, want[p].until)
                   /\ (\A x \in Tasks \ {Sweeper} : p \notin At(x))
                => p[2] \notin held[p[1]]]_vars
    BY <1>1
  <1> QED
    BY <1>2, SweepAlways, PTL DEF Spec, SweepTakesAll

(* What was decided has reached every live session once nobody is at its    *)
(* key: SetUserGroup, DeleteGroup and the sweep find every session that     *)
(* was there when they listed the clients, and a handshake that was not yet *)
(* listed reads the store itself.                                           *)
THEOREM SessionsAreTold == Spec => []SessionsFollow
  <1>1. ASSUME PairsInv, SessionsInv PROVE SessionsFollow
    <2> SUFFICES ASSUME NEW c \in Conns \ blurred, NEW g \in Groups \ {Banned}, NEW p, p = <<KeyOf[c], g>>,
                        link[c] = "on", p \notin disputed, \A x \in Tasks : KeyOf[c] \notin AtKeys(x)
                 PROVE  (InForce(p) => g \in cache[c]) /\ (~want[p].in => g \notin cache[c])
      BY DEF SessionsFollow
    <2>1. p \in Pairs /\ p[1] = KeyOf[c] /\ p[2] = g
      BY PairParts, Constants
    <2>2. Sole(Sweeper, c) /\ KeyOf[c] \notin KeysOf(job[Sweeper]) /\ job[Sweeper] \in Jobs
          /\ Shape(Sweeper, job[Sweeper])
      BY <1>1, KeysAt, Constants DEF Sole, PairsInv, TypeOK
    <2>3. Told(Sweeper, job[Sweeper], c)
      BY <1>1, <2>2, Constants DEF SessionsInv, CacheInv
    <2>4. Follows(c, p) \/ Owes(job[Sweeper], c, p)
      BY <2>1, <2>3 DEF Told, Ordinary, Live
    <2>5. ~Owes(job[Sweeper], c, p)
      BY <2>1, <2>2, OwesAt
    <2> QED
      BY <2>1, <2>4, <2>5 DEF Follows
  <1> QED
    BY <1>1, SessionsAlways, PTL

-----------------------------------------------------------------------------
(***************************************************************************)
(* Saving an ACL.  A versioned save never loses another one, for any       *)
(* number of editors, rooms and configurations, with crashes and failing   *)
(* writes.                                                                 *)
(***************************************************************************)

\* The initial states satisfy the invariant.
LEMMA SaveInvInit == SaveInit => SaveInv
  BY AclSaveConstants DEF SaveInit, SaveInv, SaveTypeOK, GateExclusive, Compared,
         Applied, ErasedIsGone, AnnouncedIsStored, StoredOf, NoSave

\* Every step of every handler, of a delete and of a restart keeps it.
LEMMA SaveInvNext == SaveInv /\ [SaveNext]_save_vars => SaveInv'
<1> SUFFICES ASSUME SaveInv, [SaveNext]_save_vars PROVE SaveInv'
  OBVIOUS
<1> USE AclSaveConstants
<1> USE DEF SaveInv, StoredOf
<1>1. ASSUME NEW e \in Editors, NEW r \in Rooms, Open(e, r) PROVE SaveInv'
  <2>1. PICK base \in {mem[r], Unversioned} :
          save' = [save EXCEPT ![e] = [NoSave EXCEPT !.pc = "editing", !.room = r, !.base = base]]
    BY <1>1 DEF Open
  <2> DEFINE s == [NoSave EXCEPT !.pc = "editing", !.room = r, !.base = base]
  <2>2. s.pc = "editing"
    BY DEF NoSave
  <2>3. s \in [pc : {"idle", "editing", "waiting", "compare", "apply", "persist", "announce"},
               room : Rooms, base : Configs \cup {Unversioned}, config : Configs]
    BY DEF NoSave, SaveTypeOK
  <2>4. save' = [save EXCEPT ![e] = s]
    BY <2>1
  <2> HIDE DEF s
  <2>5. SaveTypeOK'
    BY <1>1, <2>3, <2>4 DEF SaveTypeOK, Open
  <2>6. \A f \in Editors : save'[f] = save[f] \/ save'[f].pc = "editing"
    BY <2>2, <2>4 DEF SaveTypeOK
  <2> QED
    BY <1>1, <2>5, <2>6
       DEF Open, SaveTypeOK, GateExclusive, Compared, Applied,
           ErasedIsGone, AnnouncedIsStored
<1>2. ASSUME NEW e \in Editors, NEW c \in Configs, Submit(e, c) PROVE SaveInv'
  <2> DEFINE s == [save[e] EXCEPT !.pc = "waiting", !.config = c]
  <2>1. s \in [pc : {"idle", "editing", "waiting", "compare", "apply", "persist", "announce"},
               room : Rooms, base : Configs \cup {Unversioned}, config : Configs]
    BY DEF SaveTypeOK
  <2>2. save' = [save EXCEPT ![e] = s]
    BY <1>2 DEF Submit, SaveTypeOK
  <2>3. UNCHANGED <<live, mem, records, stored, gate, erasing, failed>>
    BY <1>2 DEF Submit
  <2> HIDE DEF s
  <2>4. SaveTypeOK'
    BY <2>1, <2>2, <2>3 DEF SaveTypeOK
  <2>5. \A f \in Editors : save'[f] = save[f] \/ save'[f].pc = "waiting"
    BY <1>2 DEF Submit, SaveTypeOK
  <2> QED
    BY <1>2, <2>4, <2>5
       DEF Submit, SaveTypeOK, GateExclusive, Compared, Applied,
           ErasedIsGone, AnnouncedIsStored
<1>3. ASSUME NEW e \in Editors, Lock(e) PROVE SaveInv'
  BY <1>3
     DEF Lock, SaveTypeOK, GateExclusive, Compared, Applied,
         ErasedIsGone, AnnouncedIsStored
<1>4. ASSUME NEW e \in Editors, Compare(e) PROVE SaveInv'
  <2>1. CASE save[e].base \in {Unversioned, StoredOf(save[e].room)}
    BY <1>4, <2>1
       DEF Compare, SaveTypeOK, GateExclusive, Compared, Applied,
           ErasedIsGone, AnnouncedIsStored
  <2>2. CASE save[e].base \notin {Unversioned, StoredOf(save[e].room)}
    <3>1. \A f \in Editors \ {e} : save[f].pc \notin {"compare", "apply", "persist", "announce"}
      BY <1>4 DEF Compare, GateExclusive, SaveTypeOK
    <3>2. save' = [save EXCEPT ![e] = NoSave] /\ gate' = Free
      BY <1>4, <2>2 DEF Compare, Answered
    <3>3. SaveTypeOK'
      BY <1>4, <3>2 DEF Compare, NoSave, SaveTypeOK
    <3>4. \A f \in Editors : save'[f].pc \notin {"compare", "apply", "persist", "announce"}
      BY <3>1, <3>2 DEF NoSave, SaveTypeOK
    <3> QED
      BY <1>4, <3>3, <3>4
         DEF Compare, GateExclusive, Compared, Applied, ErasedIsGone,
             AnnouncedIsStored
  <2> QED BY <2>1, <2>2
<1>5. ASSUME NEW e \in Editors, Apply(e) PROVE SaveInv'
  <2>1. CASE save[e].room \in live
    <3>1. \A f \in Editors \ {e} : save[f].pc \notin {"compare", "apply", "persist", "announce"}
      BY <1>5 DEF Apply, GateExclusive, SaveTypeOK
    <3> QED
      BY <1>5, <2>1, <3>1
         DEF Apply, SaveTypeOK, GateExclusive, Compared, Applied,
             ErasedIsGone, AnnouncedIsStored
  <2>2. CASE save[e].room \notin live
    BY <1>5, <2>2
       DEF Apply, Answered, NoSave, SaveTypeOK, GateExclusive, Compared,
           Applied, ErasedIsGone, AnnouncedIsStored
  <2> QED BY <2>1, <2>2
<1>6. ASSUME NEW e \in Editors, Persist(e) PROVE SaveInv'
  <2>1. \A f \in Editors \ {e} : save[f].pc \notin {"compare", "apply", "persist", "announce"}
    BY <1>6 DEF Persist, GateExclusive, SaveTypeOK
  <2> QED
    BY <1>6, <2>1
       DEF Persist, SaveTypeOK, GateExclusive, Compared, Applied,
           ErasedIsGone, AnnouncedIsStored
<1>7. ASSUME NEW e \in Editors, PersistFails(e) \/ Announce(e) PROVE SaveInv'
  BY <1>7
     DEF PersistFails, Announce, Answered, NoSave, SaveTypeOK,
         GateExclusive, Compared, Applied, ErasedIsGone,
         AnnouncedIsStored
<1>8. ASSUME NEW r \in Rooms, DeleteRoom(r) PROVE SaveInv'
  BY <1>8
     DEF DeleteRoom, SaveTypeOK, GateExclusive, Compared, Applied,
         ErasedIsGone, AnnouncedIsStored
<1>9. ASSUME NEW r \in Rooms, EraseRoom(r) PROVE SaveInv'
  BY <1>9
     DEF EraseRoom, SaveTypeOK, GateExclusive, Compared, Applied,
         ErasedIsGone, AnnouncedIsStored
<1>10. ASSUME NEW r \in Rooms, EraseAcl(r) PROVE SaveInv'
  <2>1. r \notin live
    BY <1>10 DEF EraseAcl, ErasedIsGone
  <2> QED
    BY <1>10, <2>1
       DEF EraseAcl, SaveTypeOK, GateExclusive, Compared, Applied,
           ErasedIsGone, AnnouncedIsStored
<1>11. CASE Reload
  BY <1>11
     DEF Reload, Hydrated, NoSave, SaveTypeOK, GateExclusive, Compared,
         Applied, ErasedIsGone, AnnouncedIsStored
<1>12. CASE UNCHANGED save_vars
  BY <1>12
     DEF save_vars, SaveTypeOK, GateExclusive, Compared, Applied,
         ErasedIsGone, AnnouncedIsStored
<1> QED
  BY <1>1, <1>2, <1>3, <1>4, <1>5, <1>6, <1>7, <1>8, <1>9, <1>10, <1>11, <1>12
     DEF SaveNext, HandlerStep

\* What apply_set_room_acl announces as saved is what the store holds.
THEOREM SavesAreDurable == SaveSpec => []AnnouncedIsStored
<1>1. SaveInv => AnnouncedIsStored
  BY DEF SaveInv
<1> QED
  BY SaveInvInit, SaveInvNext, <1>1, PTL DEF SaveSpec

\* The optimistic-concurrency token does its job: while acl_write_gate is
\* held from the comparison to the write, no versioned save overwrites an ACL
\* its editor has not seen.
THEOREM VersionedSavesLoseNothing == SaveSpec => NoLostUpdate
<1> DEFINE A == \A e \in Editors :
          save[e].pc = "persist" /\ save'[e].pc = "announce"
             /\ save[e].base # Unversioned /\ save[e].room \in live
          => StoredOf(save[e].room) = save[e].base
<1>1. SaveInv => A
  BY DEF SaveInv, Compared
<1>2. SaveInv /\ [SaveNext]_save_vars => [A]_save_vars
  BY <1>1
<1> QED
  BY SaveInvInit, SaveInvNext, <1>2, PTL DEF SaveSpec, NoLostUpdate

-----------------------------------------------------------------------------
\* No step but a failing write parts memory and store.
LEMMA LockstepNext ==
    ASSUME SaveInv, Lockstep, [SaveNext]_save_vars PROVE Lockstep'
<1> USE AclSaveConstants
<1> USE DEF SaveInv, StoredOf
<1>1. ASSUME NEW e \in Editors, NEW r \in Rooms, Open(e, r) PROVE Lockstep'
  <2>1. \A f \in Editors : save[f].pc = "persist" => save'[f] = save[f]
    BY <1>1 DEF Open, SaveTypeOK
  <2> QED BY <1>1, <2>1 DEF Open, Lockstep, SaveTypeOK
<1>2. ASSUME NEW e \in Editors, NEW c \in Configs, Submit(e, c) PROVE Lockstep'
  <2>1. \A f \in Editors : save[f].pc = "persist" => save'[f] = save[f]
    BY <1>2 DEF Submit, SaveTypeOK
  <2> QED BY <1>2, <2>1 DEF Submit, Lockstep, SaveTypeOK
<1>3. ASSUME NEW e \in Editors, Lock(e) \/ Compare(e) \/ Announce(e) PROVE Lockstep'
  <2>1. \A f \in Editors : save[f].pc = "persist" => save'[f] = save[f]
    BY <1>3 DEF Lock, Compare, Announce, Answered, SaveTypeOK
  <2> QED BY <1>3, <2>1 DEF Lock, Compare, Announce, Lockstep, SaveTypeOK
<1>4. ASSUME NEW e \in Editors, Apply(e) PROVE Lockstep'
  <2>1. \A f \in Editors : save[f].pc = "persist" => save'[f] = save[f]
    BY <1>4 DEF Apply, Answered, SaveTypeOK
  <2>2. save[e].room \in live => save'[e].pc = "persist" /\ save'[e].room = save[e].room
    BY <1>4 DEF Apply, SaveTypeOK
  <2> QED BY <1>4, <2>1, <2>2 DEF Apply, Lockstep, SaveTypeOK
<1>5. ASSUME NEW e \in Editors, Persist(e) PROVE Lockstep'
  <2>1. \A f \in Editors \ {e} : save[f].pc # "persist"
    BY <1>5 DEF Persist, GateExclusive
  <2>2. save[e].room \in live => mem[save[e].room] = save[e].config
    BY <1>5 DEF Persist, Applied
  <2> QED BY <1>5, <2>1, <2>2 DEF Persist, Lockstep, SaveTypeOK
<1>10. ASSUME NEW e \in Editors, PersistFails(e) PROVE Lockstep'
  <2>1. \A f \in Editors \ {e} : save[f].pc # "persist"
    BY <1>10 DEF PersistFails, GateExclusive
  <2> QED BY <1>10, <2>1 DEF PersistFails, Lockstep, SaveTypeOK
<1>6. ASSUME NEW r \in Rooms, DeleteRoom(r) \/ EraseRoom(r) PROVE Lockstep'
  BY <1>6 DEF DeleteRoom, EraseRoom, Lockstep, SaveTypeOK
<1>7. ASSUME NEW r \in Rooms, EraseAcl(r) PROVE Lockstep'
  BY <1>7 DEF EraseAcl, ErasedIsGone, Lockstep, SaveTypeOK
<1>8. CASE Reload
  BY <1>8 DEF Reload, Hydrated, Lockstep, SaveTypeOK
<1>9. CASE UNCHANGED save_vars
  BY <1>9 DEF save_vars, Lockstep
<1> QED
  BY <1>1, <1>2, <1>3, <1>4, <1>5, <1>6, <1>7, <1>8, <1>9, <1>10 DEF SaveNext, HandlerStep

\* "In-memory ServerState rooms and persistence are kept in lockstep by the
\* set_room_acl write-through", with failing writes as the one exception.
THEOREM WriteThroughKeepsLockstep == SaveSpec => []Lockstep
<1>1. SaveInit => Lockstep
  BY DEF SaveInit, Lockstep, StoredOf
<1>2. SaveInv /\ Lockstep /\ [SaveNext]_save_vars => Lockstep'
  BY LockstepNext
<1> QED
  BY SaveInvInit, SaveInvNext, <1>1, <1>2, PTL DEF SaveSpec
================================================================================
