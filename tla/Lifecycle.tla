------------------------------ MODULE Lifecycle -------------------------------
(***************************************************************************)
(* What the store promises of work items, without clients, versions or a   *)
(* ledger: each item walks the lifecycle one allowed transition at a time, *)
(* and the path it has walked is never rewritten.                          *)
(***************************************************************************)
EXTENDS StateMachine

CONSTANT Item

VARIABLE path    \* item -> the states it has been in, empty before it exists

Init == path = [i \in Item |-> << >>]

Create(i, s) ==
  /\ path[i] = << >>
  /\ path' = [path EXCEPT ![i] = <<s>>]

Step(i, s) ==
  /\ path[i] # << >>
  /\ s \in AllowedTargets(path[i][Len(path[i])])
  /\ path' = [path EXCEPT ![i] = Append(path[i], s)]

Next == \E i \in Item, s \in State : Create(i, s) \/ Step(i, s)

Spec == Init /\ [][Next]_path
==============================================================================
