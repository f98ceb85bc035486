------------------------------ MODULE MCStateSync ------------------------------
(***************************************************************************)
(* One client followed, one room besides Root, in which nobody may speak.  *)
(* The run starts either from a client that logs in while one operation    *)
(* goes on, or from one that logged in long ago and two operations.        *)
(***************************************************************************)
EXTENDS StateSync, TLC

CONSTANTS r, u, h1, l1, l2

\* The room exists, the other user is online, and one operation may happen.
LoggingIn ==
    /\ Init /\ ops = MaxOps - 1
    /\ srv.rooms[Root] = <<l1>> /\ Present(srv, r) /\ srv.users[u] # None

\* The state a login ends in when nothing else happens: alone on a server without
\* rooms, or together with the other user in the room
LoggedIn ==
    /\ \/ /\ srv = [rooms |-> (Root :> <<l1>>) @@ (r :> <<>>),
                    users |-> (Me :> [room |-> Root, muted |-> FALSE]) @@ (u :> None),
                    groups |-> [x \in Groups |-> CHOOSE b \in Bits : TRUE]]
          /\ me = [known |-> TRUE, room |-> Root]
          /\ audio = [members |-> {}, muted |-> FALSE]
       \/ /\ srv = [rooms |-> (Root :> <<l1>>) @@ (r :> <<l1>>),
                    users |-> (Me :> [room |-> r, muted |-> TRUE]) @@ (u :> [room |-> r, muted |-> TRUE]),
                    groups |-> [x \in Groups |-> CHOOSE b \in Bits : TRUE]]
          /\ me = [known |-> TRUE, room |-> r]
          /\ audio = [members |-> {u}, muted |-> TRUE]
    /\ view = srv
    /\ job = [t \in Tasks |-> Idle]
    /\ asked = 0 /\ wire = <<>> /\ phase = "up" /\ connected = FALSE
    /\ bus = <<>> /\ lagged = FALSE
    /\ ops = 0 /\ early = FALSE /\ strays = {} /\ settled = TRUE /\ raced = FALSE

MCInit == LoggingIn \/ LoggedIn
MCSpec == MCInit /\ [][Next]_vars /\ Fairness
================================================================================
