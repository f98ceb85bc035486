---------------------------- MODULE FileRelayProofs ----------------------------
(***************************************************************************)
(* What the file relay guarantees for any number of streams, evictors,     *)
(* files and rooms.                                                        *)
(***************************************************************************)
EXTENDS FileRelay, FiniteSetTheorems, TLAPS

-----------------------------------------------------------------------------
(* Sums over finite sets.  Used adds up what the holders account for with  *)
(* a recursive function over sets, one chosen element at a time.           *)

Pick(s) == CHOOSE x \in s : TRUE

(* f is the function that adds up h over the subsets of U. *)
Sums(h, U, f) == f = [s \in SUBSET U |-> IF s = {} THEN 0 ELSE h[Pick(s)] + f[s \ {Pick(s)}]]

SumOver(h, U) == (CHOOSE f : Sums(h, U, f))[U]

LEMMA PickIn == ASSUME NEW s, s # {} PROVE Pick(s) \in s
  BY DEF Pick

(* Among subsets of a finite set there is a minimal one: induction over    *)
(* finite sets, as the absence of a minimal counterexample.                *)
LEMMA MinimalSubset ==
  ASSUME NEW S, IsFiniteSet(S), NEW T \in SUBSET SUBSET S, T # {}
  PROVE  \E m \in T : \A y \in T : y \subseteq m => y = m
  <1>1. IsWellFoundedOn(StrictSubsetOrdering(S), SUBSET S)
    BY FS_StrictSubsetOrderingWellFounded, FS_FiniteSubsetsOfFinite
  <1>2. PICK m \in T : \A y \in T : ~(<<y, m>> \in StrictSubsetOrdering(S))
    BY <1>1, WFMin
  <1>3. ASSUME NEW y \in T, y \subseteq m, y # m PROVE FALSE
    <2>1. <<y, m>> \in StrictSubsetOrdering(S)
      BY <1>3 DEF StrictSubsetOrdering
    <2> QED BY <1>2, <2>1
  <1> QED BY <1>2, <1>3

LEMMA SumsAgree ==
  ASSUME NEW U, IsFiniteSet(U), NEW h, NEW V \in SUBSET U, NEW f, NEW g, Sums(h, U, f), Sums(h, V, g)
  PROVE  \A s \in SUBSET V : f[s] = g[s]
  <1> DEFINE T == {s \in SUBSET V : f[s] # g[s]}
  <1>0. T \in SUBSET SUBSET U
    OBVIOUS
  <1>m. T # {} => \E m \in T : \A y \in T : y \subseteq m => y = m
    <2> HIDE DEF T
    <2> QED BY <1>0, MinimalSubset
  <1>1. CASE T # {}
    <2>1. PICK m \in T : \A y \in T : y \subseteq m => y = m
      BY <1>1, <1>m
    <2>3. f[{}] = 0 /\ g[{}] = 0
      BY DEF Sums
    <2>4. m # {} /\ Pick(m) \in m
      BY <2>3, PickIn
    <2>5. f[m \ {Pick(m)}] = g[m \ {Pick(m)}]
      BY <2>1, <2>4
    <2>6. f[m] = h[Pick(m)] + f[m \ {Pick(m)}] /\ g[m] = h[Pick(m)] + g[m \ {Pick(m)}]
      BY <2>4 DEF Sums
    <2> QED BY <2>5, <2>6
  <1> QED BY <1>1

LEMMA SumsExist ==
  ASSUME NEW S, IsFiniteSet(S), NEW h
  PROVE  \E f : Sums(h, S, f)
  <1> DEFINE T == {U \in SUBSET S : ~ \E f : Sums(h, U, f)}
             g(U) == CHOOSE f : Sums(h, U, f)
             below(s) == s \ {Pick(s)}
  <1>0. T \in SUBSET SUBSET S
    OBVIOUS
  <1>m. T # {} => \E m \in T : \A y \in T : y \subseteq m => y = m
    <2> HIDE DEF T
    <2> QED BY <1>0, MinimalSubset
  <1>1. CASE T # {}
    <2>1. PICK m \in T : \A y \in T : y \subseteq m => y = m
      BY <1>1, <1>m
    <2>2. ASSUME NEW U \in SUBSET m, U # m PROVE Sums(h, U, g(U))
      BY <2>1, <2>2
    <2> DEFINE F == [s \in SUBSET m |-> IF s = {} THEN 0 ELSE h[Pick(s)] + g(below(s))[below(s)]]
    <2>3. ASSUME NEW U \in SUBSET m, U # m PROVE F[U] = g(U)[U]
      <3>1. Sums(h, U, g(U)) /\ IsFiniteSet(U)
        BY <2>2, <2>3, FS_Subset
      <3>2. CASE U = {}
        BY <3>1, <3>2 DEF Sums
      <3>3. CASE U # {}
        <4>1. below(U) \in SUBSET U /\ below(U) # m
          BY <2>3, <3>3, PickIn
        <4>2. Sums(h, below(U), g(below(U)))
          BY <4>1, <2>2
        <4> HIDE DEF g
        <4>3. g(U)[below(U)] = g(below(U))[below(U)]
          BY <3>1, <4>1, <4>2, SumsAgree
        <4>4. g(U)[U] = h[Pick(U)] + g(U)[below(U)]
          BY <3>1, <3>3 DEF Sums
        <4> QED BY <3>3, <4>3, <4>4
      <3> QED BY <3>2, <3>3
    <2>4. ASSUME NEW s \in SUBSET m, s # {} PROVE F[below(s)] = g(below(s))[below(s)]
      BY <2>3, <2>4, PickIn
    <2>5. Sums(h, m, F)
      <3> HIDE DEF g, below
      <3>1. F = [s \in SUBSET m |-> IF s = {} THEN 0 ELSE h[Pick(s)] + F[below(s)]]
        BY <2>4
      <3> HIDE DEF F
      <3> QED BY <3>1 DEF Sums, below
    <2> QED BY <2>1, <2>5
  <1> QED BY <1>1

LEMMA SumFacts ==
  ASSUME NEW S, IsFiniteSet(S), NEW h
  PROVE  \E f : Sums(h, S, f) /\ SumOver(h, S) = f[S]
  BY SumsExist DEF SumOver

(* Nothing adds up to nothing. *)
LEMMA SumOfZeroes ==
  ASSUME NEW S, IsFiniteSet(S)
  PROVE  SumOver([x \in S |-> 0], S) = 0
  <1>1. PICK f : Sums([x \in S |-> 0], S, f) /\ SumOver([x \in S |-> 0], S) = f[S]
    BY SumFacts
  <1> DEFINE T == {s \in SUBSET S : f[s] # 0}
  <1>0. T \in SUBSET SUBSET S
    OBVIOUS
  <1>m. T # {} => \E m \in T : \A y \in T : y \subseteq m => y = m
    <2> HIDE DEF T
    <2> QED BY <1>0, MinimalSubset
  <1>2. CASE T # {}
    <2>1. PICK m \in T : \A y \in T : y \subseteq m => y = m
      BY <1>2, <1>m
    <2>2. f[{}] = 0
      BY <1>1 DEF Sums
    <2>3. m # {} /\ Pick(m) \in m
      BY <2>2, PickIn
    <2>4. f[m \ {Pick(m)}] = 0
      BY <2>1, <2>3
    <2>5. f[m] = 0 + f[m \ {Pick(m)}]
      BY <1>1, <2>3 DEF Sums
    <2> QED BY <2>4, <2>5
  <1> QED BY <1>1, <1>2

LEMMA SumsType ==
  ASSUME NEW S, IsFiniteSet(S), NEW h \in [S -> Nat], NEW f, Sums(h, S, f)
  PROVE  \A s \in SUBSET S : f[s] \in Nat
  <1> DEFINE T == {s \in SUBSET S : f[s] \notin Nat}
  <1>0. T \in SUBSET SUBSET S
    OBVIOUS
  <1>m. T # {} => \E m \in T : \A y \in T : y \subseteq m => y = m
    <2> HIDE DEF T
    <2> QED BY <1>0, MinimalSubset
  <1>1. CASE T # {}
    <2>1. PICK m \in T : \A y \in T : y \subseteq m => y = m
      BY <1>1, <1>m
    <2>3. f[{}] = 0
      BY DEF Sums
    <2>4. m # {} /\ Pick(m) \in m
      BY <2>3, PickIn
    <2>5. f[m \ {Pick(m)}] \in Nat /\ h[Pick(m)] \in Nat
      BY <2>1, <2>4
    <2>6. f[m] = h[Pick(m)] + f[m \ {Pick(m)}]
      BY <2>4 DEF Sums
    <2> QED BY <2>5, <2>6
  <1> QED BY <1>1

LEMMA SumsUpdate ==
  ASSUME NEW S, IsFiniteSet(S), NEW h \in [S -> Nat], NEW a \in S, NEW n \in Nat,
         NEW k \in [S -> Nat], k[a] = n, \A x \in S \ {a} : k[x] = h[x], NEW f, Sums(h, S, f), NEW g, Sums(k, S, g)
  PROVE  \A s \in SUBSET S : IF a \in s THEN g[s] + h[a] = f[s] + n ELSE g[s] = f[s]
  <1> DEFINE T == {s \in SUBSET S : ~(IF a \in s THEN g[s] + h[a] = f[s] + n ELSE g[s] = f[s])}
  <1>0. T \in SUBSET SUBSET S
    OBVIOUS
  <1>m. T # {} => \E m \in T : \A y \in T : y \subseteq m => y = m
    <2> HIDE DEF T
    <2> QED BY <1>0, MinimalSubset
  <1>1. CASE T # {}
    <2>1. PICK m \in T : \A y \in T : y \subseteq m => y = m
      BY <1>1, <1>m
    <2>3. f[{}] = 0 /\ g[{}] = 0
      BY Zenon DEF Sums
    <2>4. m # {} /\ Pick(m) \in m
      BY <2>3, PickIn
    <2> DEFINE d == m \ {Pick(m)}
    <2>d. d \in SUBSET S /\ d \notin T
      BY <2>1, <2>4
    <2>5. IF a \in d THEN g[d] + h[a] = f[d] + n ELSE g[d] = f[d]
      BY <2>d
    <2>6. f[m] = h[Pick(m)] + f[d] /\ g[m] = k[Pick(m)] + g[d]
      BY <2>4, Zenon DEF Sums
    <2>7. f[d] \in Nat /\ g[d] \in Nat
      BY <2>d, SumsType
    <2>8. h[Pick(m)] \in Nat /\ k[Pick(m)] \in Nat /\ h[a] \in Nat
      BY <2>4
    <2>9. CASE Pick(m) = a
      <3>1. g[m] + h[a] = f[m] + n
        BY <2>5, <2>6, <2>7, <2>8, <2>9
      <3> QED BY <3>1, <2>4, <2>9
    <2>10. CASE Pick(m) # a
      <3>1. k[Pick(m)] = h[Pick(m)] /\ ((a \in d) = (a \in m))
        BY <2>10, <2>4
      <3>2. IF a \in m THEN g[m] + h[a] = f[m] + n ELSE g[m] = f[m]
        BY <3>1, <2>5, <2>6, <2>7, <2>8
      <3> QED BY <3>2
    <2> QED BY <2>9, <2>10
  <1> QED BY <1>1

LEMMA SumChanges ==
  ASSUME NEW S, IsFiniteSet(S), NEW h \in [S -> Nat], NEW a \in S, NEW n \in Nat,
         NEW k \in [S -> Nat], k[a] = n, \A x \in S \ {a} : k[x] = h[x]
  PROVE  /\ SumOver(h, S) \in Nat /\ SumOver(k, S) \in Nat
         /\ SumOver(k, S) + h[a] = SumOver(h, S) + n
  <1>1. PICK f : Sums(h, S, f) /\ SumOver(h, S) = f[S]
    BY SumFacts
  <1>2. PICK g : Sums(k, S, g) /\ SumOver(k, S) = g[S]
    BY SumFacts
  <1>3. f[S] \in Nat /\ g[S] \in Nat
    BY <1>1, <1>2, SumsType
  <1>4. \A s \in SUBSET S : IF a \in s THEN g[s] + h[a] = f[s] + n ELSE g[s] = f[s]
    BY <1>1, <1>2, SumsUpdate
  <1>5. g[S] + h[a] = f[S] + n
    BY <1>4
  <1> QED
    BY <1>1, <1>2, <1>3, <1>5

-----------------------------------------------------------------------------
(* The three kinds of holders of the budget. *)

UpHeld == [u \in Uploads |->
    IF up[u].pc \in {"body", "read", "refusing", "refund"} THEN up[u].size ELSE 0]
FileHeld == [i \in Ids |-> IF cache[i] = NoFile THEN 0 ELSE cache[i].size]
EvictHeld == [e \in Evictors |-> IF evict[e].pc = "release" THEN evict[e].size ELSE 0]

Ledger(a, b, c) == [h \in Holders |-> IF h \in Uploads THEN a[h] ELSE IF h \in Ids THEN b[h] ELSE c[h]]

LEMMA HeldIsLedger == Held = Ledger(UpHeld, FileHeld, EvictHeld)
  BY RelayConstants DEF Held, Ledger, UpHeld, FileHeld, EvictHeld, Holders

LEMMA HeldIsLedgerNext == Held' = Ledger(UpHeld', FileHeld', EvictHeld')
  BY RelayConstants DEF Held, Ledger, UpHeld, FileHeld, EvictHeld, Holders

LEMMA HeldType ==
  ASSUME TypeOK
  PROVE  UpHeld \in [Uploads -> Nat] /\ FileHeld \in [Ids -> Nat] /\ EvictHeld \in [Evictors -> Nat]
  <1>1. UpHeld \in [Uploads -> Nat]
    BY RelayConstants DEF TypeOK, UploadStates, UpHeld
  <1>2. FileHeld \in [Ids -> Nat]
    BY RelayConstants DEF TypeOK, Files, FileHeld
  <1>3. EvictHeld \in [Evictors -> Nat]
    BY RelayConstants DEF TypeOK, EvictStates, EvictHeld
  <1> QED BY <1>1, <1>2, <1>3

LEMMA LedgerType ==
  ASSUME NEW a \in [Uploads -> Nat], NEW b \in [Ids -> Nat], NEW c \in [Evictors -> Nat]
  PROVE  Ledger(a, b, c) \in [Holders -> Nat]
  BY DEF Ledger, Holders

LEMMA HoldersFinite == IsFiniteSet(Holders)
  BY RelayIsFinite, FS_Union, FS_Singleton DEF Holders, Evictors

LEMMA UsedIs == Budget!Used = SumOver(Held, Holders)
  BY Zenon DEF Budget!Used, Budget!MapThenSumSet, Budget!MapThenFoldSet, SumOver, Sums, Pick

LEMMA UsedIsNext == (Budget!Used)' = SumOver(Held', Holders)
  BY Zenon DEF Budget!Used, Budget!MapThenSumSet, Budget!MapThenFoldSet, SumOver, Sums, Pick

-----------------------------------------------------------------------------
(* An upload under way has named an id and a room. *)
Named == \A u \in Uploads : up[u].pc # "idle" => up[u].id \in Ids /\ up[u].room \in Rooms

(* The budget is never overdrawn. *)
WithinBudget == total_cached <= MaxTotal

(* A fetch between its two looks: the file it saw is still the one there,  *)
(* or has been removed at some time.                                       *)
Watched(f) ==
    fetch[f].pc # "idle" =>
        /\ fetch[f].id \in Ids
        /\ \/ fetch[f].id \in recycled
           \/ cache[fetch[f].id] # NoFile /\ cache[fetch[f].id].room = fetch[f].room

RelayInv == TypeOK /\ Named /\ WithinBudget /\ \A f \in Fetches : Watched(f)

LEMMA BlankStates == NoUpload \in UploadStates /\ NoFetch \in FetchStates /\ Asleep \in EvictStates
  BY RelayConstants DEF NoUpload, NoFetch, Asleep, UploadStates, FetchStates, EvictStates

LEMMA InitInv == Init => RelayInv
  <1> SUFFICES ASSUME Init PROVE RelayInv
    OBVIOUS
  <1>1. TypeOK
    BY BlankStates DEF Init, TypeOK
  <1>2. Named /\ \A f \in Fetches : Watched(f)
    BY DEF Init, Named, Watched, NoUpload, NoFetch
  <1>3. WithinBudget
    BY RelayConstants DEF Init, WithinBudget
  <1> QED
    BY <1>1, <1>2, <1>3 DEF RelayInv

-----------------------------------------------------------------------------
(* A step of one upload stream that leaves the map alone. *)
LEMMA UploadQuiet ==
  ASSUME RelayInv, NEW u \in Uploads, NEW s \in UploadStates, up' = [up EXCEPT ![u] = s],
         s.pc = "idle" \/ (s.id \in Ids /\ s.room \in Rooms),
         total_cached' \in Nat, total_cached' <= MaxTotal,
         UNCHANGED <<cache, fetch, evict, recycled>>
  PROVE  RelayInv'
  <1>1. TypeOK'
    BY DEF RelayInv, TypeOK
  <1>2. Named'
    BY DEF RelayInv, TypeOK, Named
  <1>3. WithinBudget' /\ \A f \in Fetches : Watched(f)'
    BY DEF RelayInv, WithinBudget, Watched
  <1> QED
    BY <1>1, <1>2, <1>3 DEF RelayInv

(* What an upload stream's next state may be when it only moves on. *)
LEMMA UploadMoves ==
  ASSUME RelayInv, NEW u \in Uploads, up[u].pc # "idle",
         NEW pc \in {"asked", "reserve", "body", "read", "refusing", "refund"}, NEW seen \in Nat
  PROVE  /\ [up[u] EXCEPT !.pc = pc] \in UploadStates
         /\ [up[u] EXCEPT !.pc = pc].id \in Ids /\ [up[u] EXCEPT !.pc = pc].room \in Rooms
         /\ [up[u] EXCEPT !.pc = pc, !.seen = seen] \in UploadStates
         /\ [up[u] EXCEPT !.pc = pc, !.seen = seen].id \in Ids
         /\ [up[u] EXCEPT !.pc = pc, !.seen = seen].room \in Rooms
         /\ [up[u] EXCEPT !.seen = seen] \in UploadStates
         /\ [up[u] EXCEPT !.seen = seen].id \in Ids /\ [up[u] EXCEPT !.seen = seen].room \in Rooms
  <1>1. up[u] \in UploadStates /\ up[u].id \in Ids /\ up[u].room \in Rooms
    BY DEF RelayInv, TypeOK, Named
  <1> QED
    BY <1>1 DEF UploadStates

LEMMA Counter ==
  ASSUME RelayInv
  PROVE  total_cached \in Nat /\ total_cached <= MaxTotal /\ MaxTotal \in Nat
  BY RelayConstants DEF RelayInv, TypeOK, WithinBudget

LEMMA RequestInv ==
  ASSUME RelayInv, NEW u \in Uploads, NEW i \in Ids, NEW r \in Rooms, NEW n \in 1..MaxFile + 1,
         Request(u, i, r, n)
  PROVE  RelayInv'
  <1> DEFINE s == [pc |-> "asked", id |-> i, room |-> r, size |-> n, seen |-> 0]
  <1>1. s \in UploadStates /\ s.id \in Ids /\ s.room \in Rooms
    BY RelayConstants DEF Request, UploadStates
  <1>2. up' = [up EXCEPT ![u] = s] /\ UNCHANGED <<cache, total_cached, fetch, evict, recycled>>
    BY DEF Request
  <1> HIDE DEF s
  <1> QED
    BY <1>1, <1>2, UploadQuiet, Counter

LEMMA NoUploadFits == NoUpload \in UploadStates /\ NoUpload.pc = "idle"
  BY BlankStates DEF NoUpload

LEMMA AdmitInv ==
  ASSUME RelayInv, NEW u \in Uploads, Admit(u)
  PROVE  RelayInv'
  <1>1. CASE up' = [up EXCEPT ![u] = NoUpload]
    BY <1>1, UploadQuiet, Counter, NoUploadFits DEF Admit
  <1>2. CASE up' = [up EXCEPT ![u] = [up[u] EXCEPT !.pc = "reserve", !.seen = total_cached]]
    BY <1>2, UploadQuiet, Counter, UploadMoves DEF Admit
  <1> QED
    BY <1>1, <1>2 DEF Admit

LEMMA ReserveInv ==
  ASSUME RelayInv, NEW u \in Uploads, try_reserve(u)
  PROVE  RelayInv'
  <1>1. up[u].seen \in Nat /\ up[u].size \in Nat /\ up[u].pc # "idle"
    BY RelayConstants DEF RelayInv, TypeOK, UploadStates, try_reserve
  <1>2. CASE up[u].seen + up[u].size > MaxTotal
    BY <1>2, UploadQuiet, Counter, NoUploadFits DEF try_reserve
  <1>3. CASE ~(up[u].seen + up[u].size > MaxTotal) /\ total_cached = up[u].seen
    <2>1. total_cached' \in Nat /\ total_cached' <= MaxTotal
      BY <1>1, <1>3, Counter DEF try_reserve
    <2>2. up' = [up EXCEPT ![u] = [up[u] EXCEPT !.pc = "body"]]
      BY <1>3 DEF try_reserve
    <2> QED
      BY <1>1, <2>1, <2>2, UploadQuiet, Counter, UploadMoves DEF try_reserve
  <1>4. CASE ~(up[u].seen + up[u].size > MaxTotal) /\ total_cached # up[u].seen
    <2>1. up' = [up EXCEPT ![u] = [up[u] EXCEPT !.seen = total_cached]]
      BY <1>4 DEF try_reserve
    <2> QED
      BY <1>1, <1>4, <2>1, UploadQuiet, Counter, UploadMoves DEF try_reserve
  <1> QED
    BY <1>2, <1>3, <1>4

LEMMA BodyInv ==
  ASSUME RelayInv, NEW u \in Uploads, BodyRead(u) \/ BodyFails(u) \/ Refused(u) \/ RefundRetries(u)
  PROVE  RelayInv'
  <1>1. CASE BodyRead(u)
    BY <1>1, UploadQuiet, Counter, UploadMoves DEF BodyRead
  <1>2. CASE BodyFails(u)
    BY <1>2, UploadQuiet, Counter, UploadMoves DEF BodyFails
  <1>3. CASE Refused(u)
    BY <1>3, UploadQuiet, Counter, UploadMoves DEF Refused
  <1>4. CASE RefundRetries(u)
    BY <1>4, UploadQuiet, Counter, UploadMoves DEF RefundRetries
  <1> QED
    BY <1>1, <1>2, <1>3, <1>4

LEMMA ReleaseFits ==
  ASSUME RelayInv, NEW n \in 0..MaxFile, NEW seen \in Nat, Release(n, seen)
  PROVE  total_cached' \in Nat /\ total_cached' <= MaxTotal
  BY Counter, RelayConstants DEF Release

LEMMA RefundInv ==
  ASSUME RelayInv, NEW u \in Uploads, RefundEnds(u)
  PROVE  RelayInv'
  <1>1. up[u].seen \in Nat /\ up[u].size \in 0..MaxFile
    BY DEF RelayInv, TypeOK, UploadStates
  <1> QED
    BY <1>1, UploadQuiet, ReleaseFits, NoUploadFits DEF RefundEnds

(* A file is stored only under an id that holds none; a fetch that saw a   *)
(* file there saw one that was removed since.                              *)
LEMMA StoreInv ==
  ASSUME RelayInv, NEW u \in Uploads, Store(u)
  PROVE  RelayInv'
  <1>1. up[u] \in UploadStates /\ up[u].pc = "read" /\ up[u].id \in Ids /\ up[u].room \in Rooms
    BY DEF RelayInv, TypeOK, Named, Store
  <1>2. CASE cache[up[u].id] # NoFile
    <2>1. up' = [up EXCEPT ![u] = [up[u] EXCEPT !.pc = "refusing"]]
      BY <1>2 DEF Store
    <2> QED
      BY <1>1, <1>2, <2>1, UploadQuiet, Counter, UploadMoves DEF Store
  <1>3. CASE cache[up[u].id] = NoFile
    <2> DEFINE file == [room |-> up[u].room, size |-> up[u].size, expired |-> FALSE]
    <2>1. file \in Files
      BY <1>1 DEF UploadStates, Files
    <2>2. cache' = [cache EXCEPT ![up[u].id] = file] /\ up' = [up EXCEPT ![u] = NoUpload]
      BY <1>3 DEF Store
    <2>3. UNCHANGED <<total_cached, fetch, evict, recycled>>
      BY DEF Store
    <2> HIDE DEF file
    <2>4. TypeOK'
      BY <1>1, <2>1, <2>2, <2>3, NoUploadFits DEF RelayInv, TypeOK
    <2>5. Named' /\ WithinBudget'
      BY <2>2, <2>3, NoUploadFits DEF RelayInv, TypeOK, Named, WithinBudget
    <2>6. ASSUME NEW f \in Fetches PROVE Watched(f)'
      BY <1>1, <1>3, <2>2, <2>3 DEF RelayInv, TypeOK, Watched
    <2> QED
      BY <2>4, <2>5, <2>6 DEF RelayInv
  <1> QED
    BY <1>2, <1>3

-----------------------------------------------------------------------------
LEMMA FetchQuiet ==
  ASSUME RelayInv, NEW f \in Fetches, NEW s \in FetchStates, fetch' = [fetch EXCEPT ![f] = s],
         \/ s.pc = "idle"
         \/ /\ s.id \in Ids
            /\ s.id \in recycled \/ (cache[s.id] # NoFile /\ cache[s.id].room = s.room),
         UNCHANGED <<cache, total_cached, up, evict, recycled>>
  PROVE  RelayInv'
  <1>1. TypeOK' /\ Named' /\ WithinBudget'
    BY DEF RelayInv, TypeOK, Named, WithinBudget
  <1>2. ASSUME NEW g \in Fetches PROVE Watched(g)'
    BY <1>2 DEF RelayInv, TypeOK, Watched
  <1> QED
    BY <1>1, <1>2 DEF RelayInv

LEMMA FetchInv ==
  ASSUME RelayInv, NEW f \in Fetches, handle_fetch(f) \/ \E i \in Ids : LookUp(f, i)
  PROVE  RelayInv'
  <1>1. ASSUME NEW i \in Ids, LookUp(f, i) PROVE RelayInv'
    <2> DEFINE s == [pc |-> "checking", id |-> i, room |-> cache[i].room]
    <2>1. cache[i] \in Files
      BY <1>1 DEF LookUp, RelayInv, TypeOK
    <2>2. s \in FetchStates /\ s.id = i /\ s.room = cache[i].room
      BY <2>1 DEF FetchStates, Files
    <2>3. fetch' = [fetch EXCEPT ![f] = s]
      BY <1>1 DEF LookUp
    <2> HIDE DEF s
    <2> QED
      BY <1>1, <2>2, <2>3, FetchQuiet DEF LookUp
  <1>2. CASE fetch' = [fetch EXCEPT ![f] = NoFetch] /\ handle_fetch(f)
    <2>1. NoFetch \in FetchStates /\ NoFetch.pc = "idle"
      BY BlankStates DEF NoFetch
    <2> QED
      BY <1>2, <2>1, FetchQuiet DEF handle_fetch, Authorize, Serve
  <1>3. CASE Authorize(f) /\ fetch' = [fetch EXCEPT ![f].pc = "allowed"]
    <2> DEFINE s == [fetch[f] EXCEPT !.pc = "allowed"]
    <2>1. fetch[f] \in FetchStates /\ Watched(f) /\ fetch[f].pc = "checking"
      BY <1>3 DEF RelayInv, TypeOK, Authorize
    <2>2. s \in FetchStates /\ s.id = fetch[f].id /\ s.room = fetch[f].room
      BY <2>1 DEF FetchStates
    <2>3. fetch' = [fetch EXCEPT ![f] = s]
      BY <1>3
    <2> HIDE DEF s
    <2> QED
      BY <1>3, <2>1, <2>2, <2>3, FetchQuiet DEF Authorize, Watched
  <1> QED
    BY <1>1, <1>2, <1>3 DEF handle_fetch, Authorize, Serve

-----------------------------------------------------------------------------
LEMMA EvictQuiet ==
  ASSUME RelayInv, NEW e \in Evictors, NEW s \in EvictStates, evict' = [evict EXCEPT ![e] = s],
         total_cached' \in Nat, total_cached' <= MaxTotal,
         UNCHANGED <<cache, up, fetch, recycled>>
  PROVE  RelayInv'
  BY DEF RelayInv, TypeOK, Named, WithinBudget, Watched

LEMMA Zeroes == 0 \in 0..MaxFile /\ 0 \in Nat
  BY RelayConstants

LEMMA SweeperEvicts == Sweeper \in Evictors
  BY DEF Evictors

LEMMA WakesInv ==
  ASSUME RelayInv, SweepStarts \/ \E e \in Leavers, r \in Rooms : on_disconnect(e, r)
  PROVE  RelayInv'
  <1>1. CASE SweepStarts
    <2>1. [Asleep EXCEPT !.pc = "scan", !.left = Ids] \in EvictStates
      BY Zeroes DEF Asleep, EvictStates
    <2> QED
      BY <1>1, <2>1, EvictQuiet, Counter, SweeperEvicts DEF SweepStarts
  <1>2. ASSUME NEW e \in Leavers, NEW r \in Rooms, on_disconnect(e, r) PROVE RelayInv'
    <2>1. [Asleep EXCEPT !.pc = "scan", !.left = Ids, !.room = r] \in EvictStates
      BY Zeroes DEF Asleep, EvictStates
    <2>2. e \in Evictors
      BY DEF Evictors
    <2> QED
      BY <1>2, <2>1, <2>2, EvictQuiet, Counter DEF on_disconnect
  <1> QED
    BY <1>1, <1>2

LEMMA ScanInv ==
  ASSUME RelayInv, NEW e \in Evictors, NEW i \in Ids, Scan(e, i)
  PROVE  RelayInv'
  <1> DEFINE d == IF cache[i] # NoFile /\ Matches(e, cache[i])
                  THEN evict[e].doomed \cup {i} ELSE evict[e].doomed
             p == IF evict[e].left = {i} THEN "remove" ELSE "scan"
             s == [evict[e] EXCEPT !.left = evict[e].left \ {i}, !.doomed = d, !.pc = p]
  <1>1. evict[e] \in EvictStates
    BY DEF RelayInv, TypeOK
  <1>2. d \in SUBSET Ids /\ p \in {"scan", "remove"}
    BY <1>1 DEF EvictStates
  <1>3. evict' = [evict EXCEPT ![e] = s]
    BY DEF Scan
  <1> HIDE DEF d, p
  <1>4. s \in EvictStates
    BY <1>1, <1>2 DEF EvictStates
  <1> HIDE DEF s
  <1> QED
    BY <1>3, <1>4, EvictQuiet, Counter DEF Scan

LEMMA RemoveInv ==
  ASSUME RelayInv, NEW e \in Evictors, NEW i \in Ids, Remove(e, i)
  PROVE  RelayInv'
  <1>1. evict[e] \in EvictStates
    BY DEF RelayInv, TypeOK
  <1>2. CASE cache[i] = NoFile
    <2>1. [evict[e] EXCEPT !.doomed = evict[e].doomed \ {i}] \in EvictStates
      BY <1>1 DEF EvictStates
    <2>2. evict' = [evict EXCEPT ![e] = [evict[e] EXCEPT !.doomed = evict[e].doomed \ {i}]]
      BY <1>2 DEF Remove
    <2> QED
      BY <1>2, <2>1, <2>2, EvictQuiet, Counter DEF Remove
  <1>3. CASE cache[i] # NoFile
    <2> DEFINE s == [evict[e] EXCEPT !.doomed = evict[e].doomed \ {i}, !.pc = "release",
                                     !.size = cache[i].size, !.seen = total_cached]
    <2>1. cache[i].size \in 0..MaxFile
      BY <1>3 DEF RelayInv, TypeOK, Files
    <2>2. s \in EvictStates
      BY <1>1, <2>1, Counter DEF EvictStates
    <2>3. /\ evict' = [evict EXCEPT ![e] = s] /\ cache' = [cache EXCEPT ![i] = NoFile]
          /\ recycled' = recycled \cup {i} /\ UNCHANGED <<total_cached, up, fetch>>
      BY <1>3 DEF Remove
    <2> HIDE DEF s
    <2>4. TypeOK' /\ Named' /\ WithinBudget'
      BY <2>2, <2>3 DEF RelayInv, TypeOK, Named, WithinBudget
    <2>5. ASSUME NEW f \in Fetches PROVE Watched(f)'
      BY <2>3 DEF RelayInv, TypeOK, Watched
    <2> QED
      BY <2>4, <2>5 DEF RelayInv
  <1> QED
    BY <1>2, <1>3

LEMMA ReleaseInv ==
  ASSUME RelayInv, NEW e \in Evictors, ReleaseEnds(e) \/ ReleaseRetries(e) \/ EvictionDone(e)
  PROVE  RelayInv'
  <1>1. evict[e] \in EvictStates /\ evict[e].size \in 0..MaxFile /\ evict[e].seen \in Nat
    BY DEF RelayInv, TypeOK, EvictStates
  <1>2. CASE ReleaseEnds(e)
    <2>1. [evict[e] EXCEPT !.pc = "remove", !.size = 0, !.seen = 0] \in EvictStates
      BY <1>1, Zeroes DEF EvictStates
    <2> QED
      BY <1>1, <1>2, <2>1, EvictQuiet, ReleaseFits DEF ReleaseEnds
  <1>3. CASE ReleaseRetries(e)
    <2>1. [evict[e] EXCEPT !.seen = total_cached] \in EvictStates
      BY <1>1, Counter DEF EvictStates
    <2>2. evict' = [evict EXCEPT ![e] = [evict[e] EXCEPT !.seen = total_cached]]
      BY <1>3 DEF ReleaseRetries
    <2> QED
      BY <1>3, <2>1, <2>2, EvictQuiet, Counter DEF ReleaseRetries
  <1>4. CASE EvictionDone(e)
    BY <1>4, BlankStates, EvictQuiet, Counter DEF EvictionDone
  <1> QED
    BY <1>2, <1>3, <1>4

LEMMA ExpireInv ==
  ASSUME RelayInv, NEW i \in Ids, Expire(i)
  PROVE  RelayInv'
  <1> DEFINE file == [cache[i] EXCEPT !.expired = TRUE]
  <1>1. cache[i] \in Files
    BY DEF Expire, RelayInv, TypeOK
  <1>2. file \in Files /\ file.room = cache[i].room /\ file # NoFile
    BY <1>1, NoFileIsNone DEF Files
  <1>3. cache' = [cache EXCEPT ![i] = file] /\ UNCHANGED <<total_cached, up, fetch, evict, recycled>>
    BY DEF Expire
  <1> HIDE DEF file
  <1>4. TypeOK' /\ Named' /\ WithinBudget'
    BY <1>2, <1>3 DEF RelayInv, TypeOK, Named, WithinBudget
  <1>5. ASSUME NEW f \in Fetches PROVE Watched(f)'
    BY <1>2, <1>3 DEF RelayInv, TypeOK, Watched
  <1> QED
    BY <1>4, <1>5 DEF RelayInv

-----------------------------------------------------------------------------
LEMMA StepInv == RelayInv /\ [Next]_vars => RelayInv'
  <1> SUFFICES ASSUME RelayInv, [Next]_vars PROVE RelayInv'
    OBVIOUS
  <1>1. CASE UNCHANGED vars
    BY <1>1 DEF vars, RelayInv, TypeOK, Named, WithinBudget, Watched
  <1>2. ASSUME NEW u \in Uploads, handle_upload(u) PROVE RelayInv'
    BY <1>2, AdmitInv, ReserveInv, BodyInv, StoreInv, RefundInv DEF handle_upload, Proceeds
  <1>3. ASSUME NEW e \in Evictors, Evicts(e) PROVE RelayInv'
    BY <1>3, ScanInv, RemoveInv, ReleaseInv DEF Evicts
  <1> QED
    BY <1>1, <1>2, <1>3, RequestInv, FetchInv, WakesInv, ExpireInv DEF Next

LEMMA Invariant == Spec => []RelayInv
  BY InitInv, StepInv, PTL DEF Spec

(***************************************************************************)
(* The state is well typed and total_cached never exceeds max_total_size,  *)
(* however the compare-exchange rounds of try_reserve and release_quota    *)
(* interleave.                                                             *)
(***************************************************************************)
THEOREM BudgetHolds == Spec => [](TypeOK /\ WithinBudget)
  BY Invariant, PTL DEF RelayInv

(***************************************************************************)
(* handle_fetch looks a file up twice, with the permission check between   *)
(* the two.  The file it sends is of the room that was checked, whatever   *)
(* uploads and evictions ran meanwhile, unless the id was removed and used *)
(* again.                                                                  *)
(***************************************************************************)
THEOREM FetchesStayInRoom == Spec => ServedFromItsRoom
  <1>1. ASSUME RelayInv, [Next]_vars
        PROVE  [\A f \in Fetches :
                  fetch[f].pc = "allowed" /\ fetch'[f].pc = "idle" /\ cache[fetch[f].id] # NoFile =>
                     \/ cache[fetch[f].id].room = fetch[f].room
                     \/ fetch[f].id \in recycled]_vars
    BY <1>1 DEF RelayInv, Watched
  <1> QED
    BY <1>1, Invariant, PTL DEF Spec, ServedFromItsRoom

-----------------------------------------------------------------------------
(* What a step does to the budget: nothing, a claim, a hand-over or a      *)
(* release, each of one holder's bytes.                                    *)

Idles == Held' = Held /\ total_cached' = total_cached
Claims(h, n) ==
    /\ Held[h] = 0 /\ total_cached + n <= MaxTotal
    /\ Held' = [Held EXCEPT ![h] = n] /\ total_cached' = total_cached + n
Hands(h, k) ==
    /\ h # k /\ Held[k] = 0
    /\ Held' = [Held EXCEPT ![h] = 0, ![k] = Held[h]] /\ total_cached' = total_cached
GivesBack(h) ==
    /\ Held' = [Held EXCEPT ![h] = 0]
    /\ total_cached' = IF total_cached > Held[h] THEN total_cached - Held[h] ELSE 0

LedgerStep ==
    \/ Idles
    \/ \E h \in Holders :
          \/ \E n \in Nat : Claims(h, n)
          \/ \E k \in Holders : Hands(h, k)
          \/ GivesBack(h)

UpBytes(s) == IF s.pc \in {"body", "read", "refusing", "refund"} THEN s.size ELSE 0
EvictBytes(s) == IF s.pc = "release" THEN s.size ELSE 0

LEMMA UpHeldNext ==
  ASSUME TypeOK, NEW u \in Uploads, NEW s, up' = [up EXCEPT ![u] = s]
  PROVE  UpHeld' = [UpHeld EXCEPT ![u] = UpBytes(s)] /\ UpHeld[u] = UpBytes(up[u])
  BY DEF TypeOK, UpHeld, UpBytes

LEMMA EvictHeldNext ==
  ASSUME TypeOK, NEW e \in Evictors, NEW s, evict' = [evict EXCEPT ![e] = s]
  PROVE  EvictHeld' = [EvictHeld EXCEPT ![e] = EvictBytes(s)] /\ EvictHeld[e] = EvictBytes(evict[e])
  BY DEF TypeOK, EvictHeld, EvictBytes

LEMMA FileHeldNext ==
  ASSUME TypeOK, NEW i \in Ids, NEW c, cache' = [cache EXCEPT ![i] = c]
  PROVE  FileHeld' = [FileHeld EXCEPT ![i] = IF c = NoFile THEN 0 ELSE c.size]
  BY DEF TypeOK, FileHeld

LEMMA HeldSame ==
  /\ up' = up => UpHeld' = UpHeld
  /\ cache' = cache => FileHeld' = FileHeld
  /\ evict' = evict => EvictHeld' = EvictHeld
  BY DEF UpHeld, FileHeld, EvictHeld

(* The ledger has one entry per holder. *)
LEMMA LedgerEntry ==
  ASSUME NEW a, NEW b, NEW c
  PROVE  /\ \A u \in Uploads : Ledger(a, b, c)[u] = a[u]
         /\ \A i \in Ids : Ledger(a, b, c)[i] = b[i]
         /\ \A e \in Evictors : Ledger(a, b, c)[e] = c[e]
  BY RelayConstants DEF Ledger, Holders

(* A step of an upload stream alone changes its own entry. *)
LEMMA UploadEntry ==
  ASSUME RelayInv, NEW u \in Uploads, NEW s, up' = [up EXCEPT ![u] = s], UNCHANGED <<cache, evict>>
  PROVE  Held' = [Held EXCEPT ![u] = UpBytes(s)] /\ Held[u] = UpBytes(up[u]) /\ u \in Holders
  <1>1. UpHeld' = [UpHeld EXCEPT ![u] = UpBytes(s)] /\ FileHeld' = FileHeld /\ EvictHeld' = EvictHeld
    BY UpHeldNext, HeldSame DEF RelayInv
  <1>2. Held' = Ledger([UpHeld EXCEPT ![u] = UpBytes(s)], FileHeld, EvictHeld)
    BY <1>1, HeldIsLedgerNext
  <1>3. UpHeld \in [Uploads -> Nat] /\ UpHeld[u] = UpBytes(up[u])
    BY HeldType, UpHeldNext DEF RelayInv
  <1>4. Ledger([UpHeld EXCEPT ![u] = UpBytes(s)], FileHeld, EvictHeld)
          = [Ledger(UpHeld, FileHeld, EvictHeld) EXCEPT ![u] = UpBytes(s)]
    BY <1>3, RelayConstants DEF Ledger, Holders
  <1>5. Held[u] = UpHeld[u] /\ u \in Holders
    BY HeldIsLedger, LedgerEntry DEF Holders
  <1> QED
    BY <1>2, <1>3, <1>4, <1>5, HeldIsLedger

LEMMA EvictorEntry ==
  ASSUME RelayInv, NEW e \in Evictors, NEW s, evict' = [evict EXCEPT ![e] = s], UNCHANGED <<cache, up>>
  PROVE  Held' = [Held EXCEPT ![e] = EvictBytes(s)] /\ Held[e] = EvictBytes(evict[e]) /\ e \in Holders
  <1>1. EvictHeld' = [EvictHeld EXCEPT ![e] = EvictBytes(s)] /\ FileHeld' = FileHeld /\ UpHeld' = UpHeld
    BY EvictHeldNext, HeldSame DEF RelayInv
  <1>2. Held' = Ledger(UpHeld, FileHeld, [EvictHeld EXCEPT ![e] = EvictBytes(s)])
    BY <1>1, HeldIsLedgerNext
  <1>3. EvictHeld \in [Evictors -> Nat] /\ EvictHeld[e] = EvictBytes(evict[e])
    BY HeldType, EvictHeldNext DEF RelayInv
  <1>4. Ledger(UpHeld, FileHeld, [EvictHeld EXCEPT ![e] = EvictBytes(s)])
          = [Ledger(UpHeld, FileHeld, EvictHeld) EXCEPT ![e] = EvictBytes(s)]
    BY <1>3, RelayConstants DEF Ledger, Holders
  <1>5. Held[e] = EvictHeld[e] /\ e \in Holders
    BY HeldIsLedger, LedgerEntry DEF Holders
  <1> QED
    BY <1>2, <1>3, <1>4, <1>5, HeldIsLedger

LEMMA HeldIsNat == ASSUME RelayInv PROVE Held \in [Holders -> Nat]
  BY HeldType, HeldIsLedger, LedgerType DEF RelayInv

(* Writing back an entry's own value is no change. *)
LEMMA SameEntry ==
  ASSUME RelayInv, NEW h \in Holders, Held' = [Held EXCEPT ![h] = Held[h]]
  PROVE  Held' = Held
  BY HeldIsNat

(* A step of an upload stream or an evictor whose entry stays. *)
LEMMA UploadIdles ==
  ASSUME RelayInv, NEW u \in Uploads, NEW s, up' = [up EXCEPT ![u] = s],
         UNCHANGED <<cache, evict, total_cached>>, UpBytes(s) = UpBytes(up[u])
  PROVE  Idles
  BY UploadEntry, SameEntry DEF Idles

LEMMA EvictorIdles ==
  ASSUME RelayInv, NEW e \in Evictors, NEW s, evict' = [evict EXCEPT ![e] = s],
         UNCHANGED <<cache, up, total_cached>>, EvictBytes(s) = EvictBytes(evict[e])
  PROVE  Idles
  BY EvictorEntry, SameEntry DEF Idles

LEMMA UploadState ==
  ASSUME RelayInv, NEW u \in Uploads
  PROVE  up[u] \in UploadStates /\ up[u].size \in Nat /\ up[u].seen \in Nat
  BY RelayConstants DEF RelayInv, TypeOK, UploadStates

LEMMA UploadBytes ==
  ASSUME RelayInv, NEW u \in Uploads, NEW p \in STRING, NEW n
  PROVE  /\ UpBytes([up[u] EXCEPT !.pc = p, !.seen = n])
              = IF p \in {"body", "read", "refusing", "refund"} THEN up[u].size ELSE 0
         /\ UpBytes([up[u] EXCEPT !.pc = p])
              = IF p \in {"body", "read", "refusing", "refund"} THEN up[u].size ELSE 0
         /\ UpBytes([up[u] EXCEPT !.seen = n]) = UpBytes(up[u])
         /\ UpBytes(NoUpload) = 0
  <1>1. up[u] \in UploadStates
    BY UploadState
  <1> QED
    BY <1>1 DEF UpBytes, UploadStates, NoUpload

LEMMA UploadLedger ==
  ASSUME RelayInv, NEW u \in Uploads,
         \/ \E i \in Ids, r \in Rooms, n \in 1..MaxFile + 1 : Request(u, i, r, n)
         \/ Admit(u) \/ BodyRead(u) \/ BodyFails(u) \/ Refused(u) \/ RefundRetries(u)
  PROVE  LedgerStep
  <1>1. ASSUME NEW i \in Ids, NEW r \in Rooms, NEW n \in 1..MaxFile + 1, Request(u, i, r, n)
        PROVE  Idles
    BY <1>1, UploadIdles DEF Request, UpBytes
  <1>2. CASE Admit(u) /\ up' = [up EXCEPT ![u] = [up[u] EXCEPT !.pc = "reserve", !.seen = total_cached]]
    <2> DEFINE s == [up[u] EXCEPT !.pc = "reserve", !.seen = total_cached]
    <2>1. UpBytes(s) = UpBytes(up[u])
      BY <1>2, UploadBytes DEF Admit, UpBytes
    <2>2. up' = [up EXCEPT ![u] = s]
      BY <1>2 DEF Admit
    <2> HIDE DEF s
    <2> QED
      BY <1>2, <2>1, <2>2, UploadIdles DEF Admit, LedgerStep
  <1>3. CASE Admit(u) /\ up' = [up EXCEPT ![u] = NoUpload]
    <2> DEFINE s == NoUpload
    <2>1. UpBytes(s) = UpBytes(up[u])
      BY <1>3 DEF Admit, UpBytes, NoUpload
    <2>2. up' = [up EXCEPT ![u] = s]
      BY <1>3 DEF Admit
    <2> HIDE DEF s
    <2> QED
      BY <1>3, <2>1, <2>2, UploadIdles DEF Admit, LedgerStep
  <1>4. CASE BodyRead(u)
    <2> DEFINE s == [up[u] EXCEPT !.pc = "read"]
    <2>1. UpBytes(s) = UpBytes(up[u])
      BY <1>4, UploadBytes DEF BodyRead, UpBytes
    <2>2. up' = [up EXCEPT ![u] = s]
      BY <1>4 DEF BodyRead
    <2> HIDE DEF s
    <2> QED
      BY <1>4, <2>1, <2>2, UploadIdles DEF BodyRead, LedgerStep
  <1>5. CASE BodyFails(u)
    <2> DEFINE s == [up[u] EXCEPT !.pc = "refund", !.seen = total_cached]
    <2>1. UpBytes(s) = UpBytes(up[u])
      BY <1>5, UploadBytes DEF BodyFails, UpBytes
    <2>2. up' = [up EXCEPT ![u] = s]
      BY <1>5 DEF BodyFails
    <2> HIDE DEF s
    <2> QED
      BY <1>5, <2>1, <2>2, UploadIdles DEF BodyFails, LedgerStep
  <1>6. CASE Refused(u)
    <2> DEFINE s == [up[u] EXCEPT !.pc = "refund", !.seen = total_cached]
    <2>1. UpBytes(s) = UpBytes(up[u])
      BY <1>6, UploadBytes DEF Refused, UpBytes
    <2>2. up' = [up EXCEPT ![u] = s]
      BY <1>6 DEF Refused
    <2> HIDE DEF s
    <2> QED
      BY <1>6, <2>1, <2>2, UploadIdles DEF Refused, LedgerStep
  <1>7. CASE RefundRetries(u)
    <2> DEFINE s == [up[u] EXCEPT !.seen = total_cached]
    <2>1. UpBytes(s) = UpBytes(up[u])
      BY <1>7, UploadBytes DEF RefundRetries, UpBytes
    <2>2. up' = [up EXCEPT ![u] = s]
      BY <1>7 DEF RefundRetries
    <2> HIDE DEF s
    <2> QED
      BY <1>7, <2>1, <2>2, UploadIdles DEF RefundRetries, LedgerStep
  <1> QED
    BY <1>1, <1>2, <1>3, <1>4, <1>5, <1>6, <1>7 DEF LedgerStep, Admit

(* try_reserve claims the bytes of the file in the step whose compare-     *)
(* exchange succeeds.                                                      *)
LEMMA ReserveLedger ==
  ASSUME RelayInv, NEW u \in Uploads, try_reserve(u)
  PROVE  LedgerStep
  <1>0. up[u] \in UploadStates /\ up[u].size \in Nat /\ up[u].seen \in Nat /\ UpBytes(up[u]) = 0
    BY UploadState DEF try_reserve, UpBytes
  <1>1. CASE up[u].seen + up[u].size > MaxTotal
    BY <1>0, <1>1, UploadIdles DEF try_reserve, UpBytes, NoUpload, LedgerStep
  <1>2. CASE ~(up[u].seen + up[u].size > MaxTotal) /\ total_cached # up[u].seen
    <2> DEFINE s == [up[u] EXCEPT !.seen = total_cached]
    <2>1. UpBytes(s) = 0
      BY <1>0 DEF UpBytes, UploadStates, try_reserve
    <2>2. up' = [up EXCEPT ![u] = s]
      BY <1>2 DEF try_reserve
    <2> HIDE DEF s
    <2> QED
      BY <1>0, <1>2, <2>1, <2>2, UploadIdles DEF try_reserve, LedgerStep
  <1>3. CASE ~(up[u].seen + up[u].size > MaxTotal) /\ total_cached = up[u].seen
    <2> DEFINE s == [up[u] EXCEPT !.pc = "body"]
    <2>1. UpBytes(s) = up[u].size
      BY <1>0 DEF UpBytes, UploadStates
    <2>2. up' = [up EXCEPT ![u] = s] /\ UNCHANGED <<cache, evict>>
      BY <1>3 DEF try_reserve
    <2> HIDE DEF s
    <2>3. Held' = [Held EXCEPT ![u] = up[u].size] /\ Held[u] = 0 /\ u \in Holders
      BY <1>0, <2>1, <2>2, UploadEntry
    <2>4. total_cached' = total_cached + up[u].size /\ total_cached + up[u].size <= MaxTotal
      BY <1>0, <1>3, Counter DEF try_reserve
    <2> QED
      BY <1>0, <2>3, <2>4 DEF Claims, LedgerStep
  <1> QED
    BY <1>1, <1>2, <1>3

LEMMA RefundLedger ==
  ASSUME RelayInv, NEW u \in Uploads, RefundEnds(u)
  PROVE  LedgerStep
  <1>0. UpBytes(up[u]) = up[u].size /\ UpBytes(NoUpload) = 0
    BY DEF RefundEnds, UpBytes, NoUpload
  <1>1. Held' = [Held EXCEPT ![u] = 0] /\ Held[u] = up[u].size /\ u \in Holders
    BY <1>0, UploadEntry DEF RefundEnds
  <1>2. total_cached' = IF total_cached > up[u].size THEN total_cached - up[u].size ELSE 0
    BY DEF RefundEnds, Release
  <1> QED
    BY <1>1, <1>2 DEF GivesBack, LedgerStep

(* Store hands the reservation to the cached file. *)
LEMMA StoreLedger ==
  ASSUME RelayInv, NEW u \in Uploads, Store(u)
  PROVE  LedgerStep
  <1>0. up[u] \in UploadStates /\ up[u].pc = "read" /\ up[u].id \in Ids /\ up[u].room \in Rooms
    BY DEF RelayInv, TypeOK, Named, Store
  <1>1. CASE cache[up[u].id] # NoFile
    <2> DEFINE s == [up[u] EXCEPT !.pc = "refusing"]
    <2>1. UpBytes(s) = UpBytes(up[u])
      BY <1>0 DEF UpBytes, UploadStates
    <2>2. up' = [up EXCEPT ![u] = s] /\ UNCHANGED <<cache, evict, total_cached>>
      BY <1>1 DEF Store
    <2> HIDE DEF s
    <2> QED
      BY <2>1, <2>2, UploadIdles DEF LedgerStep
  <1>2. CASE cache[up[u].id] = NoFile
    <2> DEFINE file == [room |-> up[u].room, size |-> up[u].size, expired |-> FALSE]
               i == up[u].id
    <2>1. file # NoFile /\ file.size = up[u].size
      <3>1. file \in Files
        BY <1>0 DEF UploadStates, Files
      <3> QED
        BY <3>1, NoFileIsNone
    <2>2. /\ cache' = [cache EXCEPT ![i] = file] /\ up' = [up EXCEPT ![u] = NoUpload]
          /\ UNCHANGED <<total_cached, evict>>
      BY <1>2 DEF Store
    <2> HIDE DEF file
    <2>3. TypeOK /\ UpBytes(NoUpload) = 0 /\ UpBytes(up[u]) = up[u].size
      BY <1>0 DEF RelayInv, UpBytes, NoUpload
    <2>4. /\ UpHeld' = [UpHeld EXCEPT ![u] = 0] /\ UpHeld[u] = up[u].size
          /\ FileHeld' = [FileHeld EXCEPT ![i] = up[u].size] /\ EvictHeld' = EvictHeld
      <3>1. i \in Ids
        BY <1>0
      <3> HIDE DEF i
      <3>2. UpHeld' = [UpHeld EXCEPT ![u] = 0] /\ UpHeld[u] = up[u].size
        BY <2>2, <2>3, UpHeldNext
      <3>3. FileHeld' = [FileHeld EXCEPT ![i] = up[u].size]
        BY <2>1, <2>2, <2>3, <3>1, FileHeldNext
      <3> QED
        BY <2>2, <3>2, <3>3, HeldSame
    <2>5. FileHeld[i] = 0
      BY <1>0, <1>2 DEF FileHeld
    <2>6. /\ UpHeld \in [Uploads -> Nat] /\ FileHeld \in [Ids -> Nat] /\ EvictHeld \in [Evictors -> Nat]
          /\ u # i /\ u \in Holders /\ i \in Holders
      BY <1>0, <2>3, HeldType, RelayConstants DEF Holders
    <2>7. Held[u] = up[u].size /\ Held[i] = 0
      BY <1>0, <2>4, <2>5, HeldIsLedger, LedgerEntry
    <2> HIDE DEF i
    <2>8. Ledger([UpHeld EXCEPT ![u] = 0], [FileHeld EXCEPT ![i] = up[u].size], EvictHeld)
            = [Ledger(UpHeld, FileHeld, EvictHeld) EXCEPT ![u] = 0, ![i] = up[u].size]
      <3>1. i \in Ids
        BY <1>0 DEF i
      <3> QED
        BY <2>6, <3>1, RelayConstants DEF Ledger, Holders
    <2>9. Held' = [Held EXCEPT ![u] = 0, ![i] = Held[u]]
      BY <2>4, <2>7, <2>8, HeldIsLedger, HeldIsLedgerNext
    <2> QED
      BY <2>2, <2>6, <2>7, <2>9 DEF Hands, LedgerStep
  <1> QED
    BY <1>1, <1>2

-----------------------------------------------------------------------------
LEMMA EvictorState == ASSUME RelayInv, NEW e \in Evictors PROVE evict[e] \in EvictStates
  BY DEF RelayInv, TypeOK

LEMMA WakesLedger ==
  ASSUME RelayInv, SweepStarts \/ \E e \in Leavers, r \in Rooms : on_disconnect(e, r)
  PROVE  LedgerStep
  <1>1. CASE SweepStarts
    <2>1. EvictBytes([Asleep EXCEPT !.pc = "scan", !.left = Ids]) = 0
      BY DEF EvictBytes, Asleep
    <2>2. EvictBytes(evict[Sweeper]) = 0
      BY <1>1 DEF SweepStarts, EvictBytes
    <2> QED
      BY <1>1, <2>1, <2>2, EvictorIdles, SweeperEvicts DEF SweepStarts, LedgerStep
  <1>2. ASSUME NEW e \in Leavers, NEW r \in Rooms, on_disconnect(e, r) PROVE LedgerStep
    <2>1. EvictBytes([Asleep EXCEPT !.pc = "scan", !.left = Ids, !.room = r]) = 0
      BY DEF EvictBytes, Asleep
    <2>2. EvictBytes(evict[e]) = 0 /\ e \in Evictors
      BY <1>2 DEF on_disconnect, EvictBytes, Evictors
    <2> QED
      BY <1>2, <2>1, <2>2, EvictorIdles DEF on_disconnect, LedgerStep
  <1> QED
    BY <1>1, <1>2

LEMMA ScanLedger ==
  ASSUME RelayInv, NEW e \in Evictors, NEW i \in Ids, Scan(e, i)
  PROVE  LedgerStep
  <1> DEFINE d == IF cache[i] # NoFile /\ Matches(e, cache[i])
                  THEN evict[e].doomed \cup {i} ELSE evict[e].doomed
             p == IF evict[e].left = {i} THEN "remove" ELSE "scan"
             s == [evict[e] EXCEPT !.left = evict[e].left \ {i}, !.doomed = d, !.pc = p]
  <1>1. p \in {"remove", "scan"}
    OBVIOUS
  <1>2. evict' = [evict EXCEPT ![e] = s] /\ UNCHANGED <<cache, up, total_cached>>
    BY DEF Scan
  <1> HIDE DEF d, p
  <1>3. EvictBytes(s) = 0
    BY <1>1, EvictorState DEF EvictBytes, EvictStates
  <1>4. EvictBytes(evict[e]) = 0
    BY DEF Scan, EvictBytes
  <1> HIDE DEF s
  <1> QED
    BY <1>2, <1>3, <1>4, EvictorIdles DEF LedgerStep

LEMMA ReleaseLedger ==
  ASSUME RelayInv, NEW e \in Evictors, ReleaseEnds(e) \/ ReleaseRetries(e) \/ EvictionDone(e)
  PROVE  LedgerStep
  <1>1. CASE ReleaseEnds(e)
    <2> DEFINE s == [evict[e] EXCEPT !.pc = "remove", !.size = 0, !.seen = 0]
    <2>1. EvictBytes(s) = 0
      BY EvictorState DEF EvictBytes, EvictStates
    <2>2. evict' = [evict EXCEPT ![e] = s] /\ UNCHANGED <<cache, up>>
      BY <1>1 DEF ReleaseEnds
    <2>3. EvictBytes(evict[e]) = evict[e].size
      BY <1>1 DEF ReleaseEnds, EvictBytes
    <2> HIDE DEF s
    <2>4. Held' = [Held EXCEPT ![e] = 0] /\ Held[e] = evict[e].size /\ e \in Holders
      BY <2>1, <2>2, <2>3, EvictorEntry
    <2>5. total_cached' = IF total_cached > evict[e].size THEN total_cached - evict[e].size ELSE 0
      BY <1>1 DEF ReleaseEnds, Release
    <2> QED
      BY <2>4, <2>5 DEF GivesBack, LedgerStep
  <1>2. CASE ReleaseRetries(e)
    <2> DEFINE s == [evict[e] EXCEPT !.seen = total_cached]
    <2>1. EvictBytes(s) = EvictBytes(evict[e])
      BY EvictorState DEF EvictBytes, EvictStates
    <2>2. evict' = [evict EXCEPT ![e] = s]
      BY <1>2 DEF ReleaseRetries
    <2> HIDE DEF s
    <2> QED
      BY <1>2, <2>1, <2>2, EvictorIdles DEF ReleaseRetries, LedgerStep
  <1>3. CASE EvictionDone(e)
    <2>1. EvictBytes(Asleep) = 0 /\ EvictBytes(evict[e]) = 0
      BY <1>3 DEF EvictionDone, EvictBytes, Asleep
    <2> QED
      BY <1>3, <2>1, EvictorIdles DEF EvictionDone, LedgerStep
  <1> QED
    BY <1>1, <1>2, <1>3

(* Remove hands the bytes of the file to the evictor that removed it. *)
LEMMA RemoveLedger ==
  ASSUME RelayInv, NEW e \in Evictors, NEW i \in Ids, Remove(e, i)
  PROVE  LedgerStep
  <1>1. CASE cache[i] = NoFile
    <2> DEFINE s == [evict[e] EXCEPT !.doomed = evict[e].doomed \ {i}]
    <2>1. EvictBytes(s) = EvictBytes(evict[e])
      BY EvictorState DEF EvictBytes, EvictStates
    <2>2. evict' = [evict EXCEPT ![e] = s] /\ UNCHANGED <<cache, up, total_cached>>
      BY <1>1 DEF Remove
    <2> HIDE DEF s
    <2> QED
      BY <2>1, <2>2, EvictorIdles DEF LedgerStep
  <1>2. CASE cache[i] # NoFile
    <2> DEFINE s == [evict[e] EXCEPT !.doomed = evict[e].doomed \ {i}, !.pc = "release",
                                     !.size = cache[i].size, !.seen = total_cached]
    <2>1. EvictBytes(s) = cache[i].size /\ EvictBytes(evict[e]) = 0
      BY EvictorState DEF Remove, EvictBytes, EvictStates
    <2>2. /\ cache' = [cache EXCEPT ![i] = NoFile] /\ evict' = [evict EXCEPT ![e] = s]
          /\ UNCHANGED <<total_cached, up>> /\ TypeOK
      BY <1>2 DEF Remove, RelayInv
    <2> HIDE DEF s
    <2>3. /\ EvictHeld' = [EvictHeld EXCEPT ![e] = cache[i].size] /\ EvictHeld[e] = 0
          /\ FileHeld' = [FileHeld EXCEPT ![i] = 0] /\ UpHeld' = UpHeld
      <3>1. EvictHeld' = [EvictHeld EXCEPT ![e] = cache[i].size] /\ EvictHeld[e] = 0
        BY <2>1, <2>2, EvictHeldNext
      <3>2. FileHeld' = [FileHeld EXCEPT ![i] = 0]
        BY <2>2, FileHeldNext
      <3> QED
        BY <2>2, <3>1, <3>2, HeldSame
    <2>4. FileHeld[i] = cache[i].size
      BY <1>2 DEF FileHeld
    <2>5. /\ UpHeld \in [Uploads -> Nat] /\ FileHeld \in [Ids -> Nat] /\ EvictHeld \in [Evictors -> Nat]
          /\ e # i /\ e \in Holders /\ i \in Holders
      BY <2>2, HeldType, RelayConstants DEF Holders
    <2>6. Held[i] = cache[i].size /\ Held[e] = 0
      BY <2>3, <2>4, HeldIsLedger, LedgerEntry
    <2>7. Ledger(UpHeld, [FileHeld EXCEPT ![i] = 0], [EvictHeld EXCEPT ![e] = cache[i].size])
            = [Ledger(UpHeld, FileHeld, EvictHeld) EXCEPT ![i] = 0, ![e] = cache[i].size]
      BY <2>5, RelayConstants DEF Ledger, Holders
    <2>8. Held' = [Held EXCEPT ![i] = 0, ![e] = Held[i]]
      BY <2>3, <2>6, <2>7, HeldIsLedger, HeldIsLedgerNext
    <2> QED
      BY <2>2, <2>5, <2>6, <2>8 DEF Hands, LedgerStep
  <1> QED
    BY <1>1, <1>2

LEMMA ExpireLedger ==
  ASSUME RelayInv, NEW i \in Ids, Expire(i)
  PROVE  LedgerStep
  <1> DEFINE file == [cache[i] EXCEPT !.expired = TRUE]
  <1>1. cache[i] \in Files /\ cache[i] # NoFile
    BY DEF Expire, RelayInv, TypeOK
  <1>2. file \in Files /\ file.size = cache[i].size
    BY <1>1 DEF Files
  <1>3. /\ cache' = [cache EXCEPT ![i] = file]
        /\ UNCHANGED <<total_cached, up, evict>> /\ TypeOK
    BY DEF Expire, RelayInv
  <1> HIDE DEF file
  <1>4. FileHeld' = [FileHeld EXCEPT ![i] = cache[i].size]
    BY <1>2, <1>3, NoFileIsNone, FileHeldNext
  <1>5. FileHeld \in [Ids -> Nat] /\ FileHeld[i] = cache[i].size
    BY <1>1, <1>3, HeldType DEF FileHeld
  <1>6. FileHeld' = FileHeld
    BY <1>4, <1>5
  <1> QED
    BY <1>3, <1>6, HeldSame, HeldIsLedger, HeldIsLedgerNext DEF Idles, LedgerStep

(* Every step of the relay is a step of its ledger. *)
LEMMA NextLedger == RelayInv /\ [Next]_vars => LedgerStep
  <1> SUFFICES ASSUME RelayInv, [Next]_vars PROVE LedgerStep
    OBVIOUS
  <1>1. CASE UNCHANGED <<cache, up, evict, total_cached>>
    BY <1>1, HeldSame, HeldIsLedger, HeldIsLedgerNext DEF Idles, LedgerStep
  <1>2. CASE UNCHANGED vars
    BY <1>1, <1>2 DEF vars
  <1>3. ASSUME NEW u \in Uploads, handle_upload(u) PROVE LedgerStep
    BY <1>3, UploadLedger, ReserveLedger, StoreLedger, RefundLedger DEF handle_upload, Proceeds
  <1>4. ASSUME NEW e \in Evictors, Evicts(e) PROVE LedgerStep
    BY <1>4, ScanLedger, RemoveLedger, ReleaseLedger DEF Evicts
  <1>5. ASSUME NEW f \in Fetches, handle_fetch(f) \/ \E i \in Ids : LookUp(f, i) PROVE LedgerStep
    BY <1>5, <1>1 DEF handle_fetch, Authorize, Serve, LookUp
  <1>6. ASSUME NEW u \in Uploads,
               NEW i \in Ids, NEW r \in Rooms, NEW n \in 1..MaxFile + 1, Request(u, i, r, n)
        PROVE  LedgerStep
    BY <1>6, UploadLedger
  <1> QED
    BY <1>2, <1>3, <1>4, <1>5, <1>6, WakesLedger, ExpireLedger DEF Next

-----------------------------------------------------------------------------
(* How the sum moves with one entry. *)
LEMMA SumMoves ==
  ASSUME NEW h \in [Holders -> Nat], NEW a \in Holders, NEW n \in Nat
  PROVE  /\ SumOver(h, Holders) \in Nat /\ SumOver([h EXCEPT ![a] = n], Holders) \in Nat
         /\ SumOver([h EXCEPT ![a] = n], Holders) + h[a] = SumOver(h, Holders) + n
  <1> DEFINE k == [h EXCEPT ![a] = n]
  <1>1. k \in [Holders -> Nat] /\ k[a] = n /\ \A x \in Holders \ {a} : k[x] = h[x]
    OBVIOUS
  <1> HIDE DEF k
  <1>2. /\ SumOver(h, Holders) \in Nat /\ SumOver(k, Holders) \in Nat
        /\ SumOver(k, Holders) + h[a] = SumOver(h, Holders) + n
    BY <1>1, HoldersFinite, SumChanges
  <1> QED
    BY <1>2 DEF k

LEMMA AccountedIs == Accounted <=> total_cached = SumOver(Held, Holders)
  BY UsedIs DEF Accounted

LEMMA AccountedNext == Accounted' <=> total_cached' = SumOver(Held', Holders)
  BY UsedIsNext DEF Accounted

LEMMA InitAccounted == Init => Accounted /\ Budget!Init
  <1> SUFFICES ASSUME Init PROVE Accounted /\ Budget!Init
    OBVIOUS
  <1>1. Held = [h \in Holders |-> 0]
    <2>1. UpHeld = [u \in Uploads |-> 0]
      BY DEF Init, UpHeld, NoUpload
    <2>2. FileHeld = [i \in Ids |-> 0]
      BY DEF Init, FileHeld
    <2>3. EvictHeld = [e \in Evictors |-> 0]
      BY DEF Init, EvictHeld, Asleep
    <2> QED
      BY <2>1, <2>2, <2>3, HeldIsLedger DEF Ledger, Holders
  <1>2. SumOver([h \in Holders |-> 0], Holders) = 0
    BY HoldersFinite, SumOfZeroes
  <1> QED
    BY <1>1, <1>2, AccountedIs DEF Init, Budget!Init

(* A step of the ledger keeps the counter equal to the sum, and is a step  *)
(* of the budget or changes nothing the budget sees.                       *)
LEMMA LedgerKeeps ==
  ASSUME RelayInv, Accounted, LedgerStep
  PROVE  Accounted' /\ [Budget!Next]_Held
  <1> DEFINE S == SumOver(Held, Holders)
  <1>1. Held \in [Holders -> Nat] /\ total_cached = S /\ Budget!Used = S /\ MaxTotal \in Nat
    BY HeldIsNat, AccountedIs, UsedIs, RelayConstants
  <1>2. CASE Idles
    BY <1>1, <1>2, AccountedNext DEF Idles
  <1>3. ASSUME NEW h \in Holders, NEW n \in Nat, Claims(h, n) PROVE Accounted' /\ [Budget!Next]_Held
    <2>1. /\ S \in Nat /\ SumOver([Held EXCEPT ![h] = n], Holders) \in Nat
          /\ SumOver([Held EXCEPT ![h] = n], Holders) + Held[h] = S + n
      BY <1>1, SumMoves
    <2>2. SumOver(Held', Holders) = S + n
      BY <1>3, <2>1 DEF Claims
    <2>3. Accounted'
      BY <1>1, <1>3, <2>2, AccountedNext DEF Claims
    <2>4. CASE n = 0
      <3>1. Held' = Held
        BY <1>1, <1>3, <2>4 DEF Claims
      <3> QED
        BY <2>3, <3>1
    <2>5. CASE n # 0
      <3>1. n \in 1..MaxTotal /\ S + n <= MaxTotal
        BY <1>1, <1>3, <2>1, <2>5 DEF Claims
      <3>2. Budget!Claim(h, n)
        BY <1>1, <1>3, <3>1 DEF Claims, Budget!Claim
      <3> QED
        BY <2>3, <3>1, <3>2 DEF Budget!Next
    <2> QED
      BY <2>4, <2>5
  <1>4. ASSUME NEW h \in Holders, NEW k \in Holders, Hands(h, k) PROVE Accounted' /\ [Budget!Next]_Held
    <2> DEFINE m == [Held EXCEPT ![h] = 0]
    <2>1. m \in [Holders -> Nat] /\ m[k] = 0 /\ Held[h] \in Nat /\ h # k
      BY <1>1, <1>4 DEF Hands
    <2>2. SumOver(m, Holders) \in Nat /\ SumOver(m, Holders) + Held[h] = S + 0 /\ S \in Nat
      BY <1>1, SumMoves
    <2>3. Held' = [m EXCEPT ![k] = Held[h]]
      BY <1>4 DEF Hands
    <2> HIDE DEF m
    <2>4. /\ SumOver([m EXCEPT ![k] = Held[h]], Holders) \in Nat
          /\ SumOver([m EXCEPT ![k] = Held[h]], Holders) + m[k] = SumOver(m, Holders) + Held[h]
      BY <2>1, SumMoves
    <2>5. SumOver(Held', Holders) = S
      BY <2>1, <2>2, <2>3, <2>4
    <2>6. Accounted'
      BY <1>1, <1>4, <2>5, AccountedNext DEF Hands
    <2>7. Budget!Hand(h, k)
      BY <1>4 DEF Hands, Budget!Hand
    <2> QED
      BY <2>1, <2>6, <2>7 DEF Budget!Next
  <1>5. ASSUME NEW h \in Holders, GivesBack(h) PROVE Accounted' /\ [Budget!Next]_Held
    <2>1. /\ S \in Nat /\ SumOver([Held EXCEPT ![h] = 0], Holders) \in Nat
          /\ SumOver([Held EXCEPT ![h] = 0], Holders) + Held[h] = S + 0
      BY <1>1, SumMoves
    <2>2. Held[h] \in Nat
      BY <1>1
    <2>3. SumOver(Held', Holders) = S - Held[h] /\ Held[h] <= S
      BY <1>5, <2>1, <2>2 DEF GivesBack
    <2>4. total_cached' = S - Held[h]
      BY <1>1, <1>5, <2>1, <2>2, <2>3 DEF GivesBack
    <2>5. Budget!GiveBack(h)
      BY <1>5 DEF GivesBack, Budget!GiveBack
    <2> QED
      BY <2>3, <2>4, <2>5, AccountedNext DEF Budget!Next
  <1> QED
    BY <1>2, <1>3, <1>4, <1>5 DEF LedgerStep

LEMMA StepAccounted == RelayInv /\ Accounted /\ [Next]_vars => Accounted' /\ [Budget!Next]_Held
  BY NextLedger, LedgerKeeps

(***************************************************************************)
(* total_cached is at every moment the sum of what running uploads have    *)
(* reserved, what the cache holds and what removals have still to release: *)
(* the saturating subtraction of release_quota never cuts, no byte leaks   *)
(* and none is released twice.                                             *)
(***************************************************************************)
THEOREM CounterExact == Spec => []Accounted
  BY Invariant, InitAccounted, StepAccounted, PTL DEF Spec

(***************************************************************************)
(* The relay with every counter and map access a step of its own           *)
(* implements the budget with atomic claims, hand-overs and releases: no   *)
(* interleaving of try_reserve, the drop of its guard, the commit and the  *)
(* evictors grants a claim that does not fit.                              *)
(***************************************************************************)
THEOREM RelayRefinesQuota == Spec => KeepsBudget
  <1>1. Spec => Budget!Init
    BY InitAccounted DEF Spec
  <1> QED
    BY <1>1, Invariant, CounterExact, StepAccounted, PTL DEF Spec, KeepsBudget, Budget!Spec
=============================================================================
