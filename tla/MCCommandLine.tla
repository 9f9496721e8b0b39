---------------------------- MODULE MCCommandLine ----------------------------
(***************************************************************************)
(* Small instances of CommandLine: a goal, and invocations beside it that  *)
(* may create the budget it names, bootstrap the registry with it, or ask  *)
(* for its status.                                                         *)
(***************************************************************************)
EXTENDS CommandLine, TLC

CONSTANTS c1, c2

MCCapability == {"general", "quality", "safety"}

Plain == [flags |-> {}, cost |-> 0, budget |-> NoBudget,
          capabilities |-> {"general"}, gates |-> <<"quality">>, blank |-> FALSE]
Costly == [Plain EXCEPT !.cost = 2, !.budget = c2]
MCArgs ==
  {Plain, Costly,
   [Costly EXCEPT !.flags = {"irreversible"}],
   (* a gate nobody is registered for, and a capability nobody has *)
   [Costly EXCEPT !.gates = <<"quality", "safety">>],
   [Plain EXCEPT !.capabilities = {"general", "safety"}],
   [Costly EXCEPT !.blank = TRUE]}
==============================================================================
