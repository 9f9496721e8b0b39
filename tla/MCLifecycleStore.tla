--------------------------- MODULE MCLifecycleStore ---------------------------
(***************************************************************************)
(* A small instance of LifecycleStore: two clients move one item that was  *)
(* created in execution, while a third party appends to the ledger of      *)
(* another item, with request ids that may coincide.                       *)
(***************************************************************************)
EXTENDS LifecycleStore, TLC

Worked == {"executing", "review", "revision", "approved", "canonical",
           "escalated"}
(* Not a transition the lifecycle allows.                                  *)
Jump == {[from |-> "proposed", to |-> "canonical"]}

Alike == Permutations(Client) \union Permutations(RequestId)
==============================================================================
