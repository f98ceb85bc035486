--------------------------------- MODULE Quota ---------------------------------
(***************************************************************************)
(* What the file relay promises about memory: a budget of MaxTotal bytes,  *)
(* claimed in one step by whoever is about to buffer a file, handed from   *)
(* the upload to the cached file and from there to whoever removes it, and *)
(* given back in one step.  Only a claim that fits is granted.             *)
(***************************************************************************)
EXTENDS Naturals, FiniteSetsExt

CONSTANTS Holders, MaxTotal
VARIABLE held \* per holder: the bytes it accounts for

Used == MapThenSumSet(LAMBDA h : held[h], Holders)

Init == held = [h \in Holders |-> 0]

Claim(h, n) ==
    /\ held[h] = 0 /\ Used + n <= MaxTotal
    /\ held' = [held EXCEPT ![h] = n]

Hand(h, k) ==
    /\ held[k] = 0
    /\ held' = [held EXCEPT ![h] = 0, ![k] = held[h]]

GiveBack(h) == held' = [held EXCEPT ![h] = 0]

Next ==
    \E h \in Holders :
        \/ \E n \in 1..MaxTotal : Claim(h, n)
        \/ \E k \in Holders \ {h} : Hand(h, k)
        \/ GiveBack(h)

Spec == Init /\ [][Next]_held
================================================================================
