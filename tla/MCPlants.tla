------------------------------ MODULE MCPlants ------------------------------
(***************************************************************************)
(* OctoState instantiated with the polymorphic states of                  *)
(* src/OctoCore/src/State_test.cpp: PlantState, TreeState, CedarState and *)
(* PotatoState (a PlantState and an IEdible), which share one registry,   *)
(* and EdibleCommand (1, on IEdible), TreeCommand (2, on TreeState) and   *)
(* PlantCommand (3, on PlantState).  The State the commands run on is of  *)
(* class StateClass; its domain model is the record of the *_cmd_count    *)
(* members that class has.                                                 *)
(***************************************************************************)
EXTENDS OctoState, TLC

CONSTANTS StateClass, CountLimit

Classes == {"plant", "tree", "cedar", "potato"}

\* The classes dynamic_cast<T*> succeeds for, for each T of a command.
IsA == [plant  |-> {"plant", "tree", "cedar", "potato"},
        tree   |-> {"tree", "cedar"},
        edible |-> {"potato"}]

\* The counter each command's forward() increments and backward() decrements.
CounterOf == (1 :> "edible") @@ (2 :> "tree") @@ (3 :> "plant")

PlantCommands == {[cid |-> i, args |-> [x \in {} |-> 0]] : i \in {1, 2, 3}}

PlantCommandId(c) == c.cid

\* Command<T, id>::acceptStatePtr: dynamic_cast<T*>(state) is not nullptr.
PlantAccepts(c) == StateClass \in IsA[CounterOf[c.cid]]

\* The members of each class, with the values its constructor gives them.
PlantDom0 ==
    CASE StateClass = "plant"  -> [plant |-> 0]
      [] StateClass = "potato" -> [plant |-> 0, edible |-> 10]
      [] OTHER                 -> [plant |-> 0, tree |-> 0]

PlantDomains == [DOMAIN PlantDom0 -> 0..CountLimit]

NoResult == [x \in {} |-> 0]

PlantResults == {NoResult}

PlantForward(c, d, r, m, n) ==
    [err |-> "none", dom |-> [d EXCEPT ![CounterOf[c.cid]] = @ + 1], res |-> r, nid |-> n]

\* Mutant of PlantBackward: every backward() decrements plant_cmd_count.
PlantBackwardSameCounter(c, d, r) ==
    [err |-> "none", dom |-> [d EXCEPT !.plant = @ - 1]]

PlantBackward(c, d, r) ==
    [err |-> "none", dom |-> [d EXCEPT ![CounterOf[c.cid]] = @ - 1]]
=============================================================================
