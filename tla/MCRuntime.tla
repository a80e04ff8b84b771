----------------------------- MODULE MCRuntime ------------------------------
(* Six images and a host that scans, for TLC.                             *)
EXTENDS Runtime

Leaf(op, d, a, b, v) == [op |-> op, d |-> d, a |-> a, b |-> b, v |-> v, len |-> 0]

Edge == Leaf("rtrig_call", 0, 0, 1, 0)
Count == Leaf("int_add", 0, 0, 1, 0)
Load(d, v) == Leaf("load_int", d, 0, 0, v)
Block(c, T, E) == <<[op |-> "if_block", cond |-> c, then |-> Len(T), els |-> Len(E),
                     len |-> Len(T) + Len(E)]>> \o T \o E
Loop(s, e, B) == <<[op |-> "for_block", idx |-> 1, start |-> s, end |-> e, body |-> Len(B),
                    len |-> Len(B)]>> \o B

Program(init, body) == [sized |-> TRUE, valid |-> TRUE, init |-> init, body |-> body]
(* An edge counts once; a rise of the input runs a loop; the init section  *)
(* of the third reads the memories it should find at zero.                 *)
Light == Program(<<Load(1, 1)>>, <<Edge>> \o Block(1, <<Count>>, <<>>))
Heavy == Program(<<>>, <<Edge>> \o Block(1, Loop(0, 2, <<Count>>), <<Edge>>))
Reader == Program(<<Leaf("load_true", 0, 0, 0, 0), Edge, Count>>, Block(0, <<Edge>>, <<Count, Edge>>))
(* A loop whose body writes the control variable.                          *)
Resets == Program(<<>>, Block(0, Loop(0, 1, <<Load(1, 0)>>), <<>>))
Refused == [sized |-> TRUE, valid |-> FALSE, init |-> <<>>, body |-> <<Edge>>]
Short == [sized |-> FALSE, valid |-> FALSE, init |-> <<>>, body |-> <<>>]

MCImages == {Light, Heavy, Reader, Resets, Refused, Short}
MCCost == [op \in LeafTags |-> IF op = "rtrig_call" THEN 2 ELSE 1]
NoCost == [op \in LeafTags |-> 0]
=============================================================================
