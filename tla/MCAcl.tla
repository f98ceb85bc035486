--------------------------------- MODULE MCAcl ---------------------------------
(* Trees of two rooms below Root, well formed or not, and ACLs whose entries
   compete for the same permissions. *)
EXTENDS Acl

CONSTANTS a, b, traverse, speak, kick, default, staff

MCTrees ==
    LET Tree(pa, pb) == [r \in RoomIds |-> IF r = a THEN pa ELSE IF r = b THEN pb ELSE Root]
    IN  {Tree(Root, a), Tree(b, a), Tree(a, Root), Tree(Root, Unknown), Tree(Unknown, a)}

MCMasks == [g \in {default} |-> {traverse, kick}]

E(g, grant, deny, here, subs) ==
    [group |-> g, grant |-> grant, deny |-> deny, here |-> here, subs |-> subs]
A(inherit, entries) == [inherit |-> inherit, entries |-> entries]

MCAcls ==
    { A(TRUE, <<>>), A(FALSE, <<>>),
      A(TRUE, <<E(default, {speak}, {}, TRUE, TRUE)>>),
      A(TRUE, <<E(staff, {}, {traverse, kick}, FALSE, TRUE)>>),
      A(TRUE, <<E(default, {speak, kick}, {speak}, TRUE, FALSE)>>),
      A(TRUE, <<E(default, {}, {speak}, TRUE, TRUE), E(staff, {speak, traverse}, {}, TRUE, TRUE)>>),
      A(FALSE, <<E(staff, {speak}, {kick}, TRUE, TRUE), E(default, {}, {traverse}, FALSE, TRUE)>>) }
================================================================================
