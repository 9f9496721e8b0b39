---------------------------- MODULE MCOrchestrator ----------------------------
(***************************************************************************)
(* Small instances of Orchestrator: plans of up to two tasks over three    *)
(* capabilities, and a registry of one producer and two reviewers.         *)
(***************************************************************************)
EXTENDS Orchestrator, TLC

MCCapability == {"general", "quality", "safety"}

Agent(role, caps, score) ==
  [role |-> role, caps |-> caps, tools |-> {}, domains |-> {},
   authority |-> TRUE, score |-> score, enabled |-> TRUE]

Disabled(profile) == [profile EXCEPT !.enabled = FALSE]

Producer == Agent("production", {"general"}, 2)
Critic   == Agent("review", {"quality", "safety"}, 2)
Editor   == Agent("review", {"quality"}, 1)

Agents == (1 :> Producer) @@ (2 :> Critic) @@ (3 :> Editor)
(* The critic, the only reviewer for safety, is registered later.          *)
Understaffed == (1 :> Producer) @@ (3 :> Editor)

Task(id, deps, priority, gates) ==
  [id |-> id, deps |-> deps, priority |-> priority, caps |-> {"general"},
   gates |-> gates]

(* A chain whose second task has a better priority than the first.         *)
Chain == <<Task(1, {}, 2, <<"quality">>), Task(2, {1}, 1, <<"quality", "safety">>)>>
(* Two independent tasks, one of them without a review gate.               *)
Pair == <<Task(1, {}, 2, <<"quality">>), Task(2, {}, 1, << >>)>>
(* A chain whose second task has no gate, for rival runners.               *)
ShortChain == <<Task(1, {}, 2, <<"quality">>), Task(2, {1}, 1, << >>)>>
(* Plans submit() refuses: a cycle, an unknown dependency, an id used twice. *)
Cycle == <<Task(1, {2}, 1, << >>), Task(2, {1}, 1, << >>)>>
Dangling == <<Task(1, {3}, 1, << >>)>>
Twice == <<Task(1, {}, 1, << >>), Task(1, {}, 2, << >>)>>

MCPlans == {Chain, Pair, Cycle, Dangling, Twice}
RivalPlans == {ShortChain}

Rivals == Permutations(Runner)

(* Changes an operator makes to the registry while goals run.              *)
Hire == {<<2, Critic>>, <<1, Disabled(Producer)>>}
(* The producer becomes the best reviewer while its drafts are reviewed.   *)
Reassign == {<<1, Agent("review", {"quality", "safety"}, 3)>>}
==============================================================================
