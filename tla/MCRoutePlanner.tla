--------------------------- MODULE MCRoutePlanner ---------------------------
(***************************************************************************)
(* Instances of RoutePlanner: a work-map of every shape of up to four      *)
(* nodes, a second one, and a default tree that is built in or imported.   *)
(***************************************************************************)
EXTENDS RoutePlanner, TLC

CONSTANTS Finance, Support

MCWorkMaps == {Finance, Support}
MCRank == Assist :> 1 @@ System :> 2 @@ Finance :> 3 @@ Support :> 4

tree(p, ts, par) == [priority |-> p, triggers |-> ts, parent |-> par]

\* All trees of up to three nodes, and those of four.
Shapes3 == {<<0>>, <<0, 1>>, <<0, 1, 1>>, <<0, 1, 2>>}
Shapes4 == {<<0, 1, 1, 1>>, <<0, 1, 1, 3>>, <<0, 1, 2, 1>>, <<0, 1, 2, 2>>, <<0, 1, 2, 3>>}

finances(shapes) == {<<>>} \cup {Finance :> tree(0, ts, s) : ts \in {{"user"}, {"system"}}, s \in shapes}
supports == {<<>>, Support :> tree(1, {"user", "system"}, <<0, 1>>)}
assists == {<<>>, Assist :> tree(0, {"user"}, <<0>>), Assist :> tree(2, {"user"}, <<0, 1>>)}

installs(shapes) == {f @@ s @@ a : f \in finances(shapes), s \in supports, a \in assists}

\* Everything but the policies, with every shape.
ShapeSetups ==
  [trees : installs(Shapes3 \cup Shapes4), trigger : {"user"}, mode : {"enforce"},
   unreadable : {FALSE}, denied : {{}}, planner : {"none", "text", "classifier"}]

\* Every trigger, mode and policy, with the small shapes.
PolicySetups ==
  [trees : installs({<<0>>, <<0, 1, 2>>}), trigger : {"user", "system"},
   mode : {"enforce", "observe"}, unreadable : BOOLEAN,
   denied : {{}, {Finance}, {Assist}}, planner : {"none", "text", "classifier"}]

MCSetups == ShapeSetups \cup PolicySetups
=============================================================================
