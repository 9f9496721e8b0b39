------------------------------ MODULE MCRegistry ------------------------------
(***************************************************************************)
(* Small instances of Registry: two producers, registrations that add a    *)
(* third agent or change one, and requests that look at two or three       *)
(* candidates.                                                             *)
(***************************************************************************)
EXTENDS Registry, TLC

Agent(role, score, authority) ==
  [role |-> role, caps |-> {"general"}, tools |-> {}, domains |-> {},
   authority |-> authority, score |-> score, enabled |-> TRUE]

Writer == Agent("production", 1, TRUE)
Expert == Agent("production", 2, FALSE)
Critic == Agent("review", 1, TRUE)

MCAgents == (2 :> Writer) @@ (3 :> Expert)

(* A reviewer whose id comes before the others', a producer whose id comes *)
(* last; the writer loses its authority, or becomes a reviewer.            *)
MCOffers == {<<1, Critic>>, <<4, Writer>>,
             <<2, [Writer EXCEPT !.authority = FALSE]>>, <<2, Critic>>}

Ask(role, highRisk, max) ==
  [role |-> role, caps |-> {"general"}, tools |-> {}, domain |-> NoDomain,
   highRisk |-> highRisk, producer |-> IF role = "review" THEN 2 ELSE NoAgent,
   excluded |-> {}, max |-> max]

MCRequests == {Ask("production", FALSE, 3), Ask("production", TRUE, 2),
               Ask("review", FALSE, 3)}

Alike == Permutations(Caller)
==============================================================================
