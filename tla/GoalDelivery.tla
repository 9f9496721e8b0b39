----------------------------- MODULE GoalDelivery -----------------------------
(***************************************************************************)
(* What the orchestrator promises of one goal, without runners, agents,    *)
(* drafts, reviews or crashes: a plan is accepted once; a task is          *)
(* delivered (it has a canonical artifact) only after every task it        *)
(* depends on; what is delivered stays delivered; and the goal is called   *)
(* canonical only when the whole plan is delivered.                        *)
(***************************************************************************)
EXTENDS Naturals, FiniteSets

CONSTANT Graphs     \* the dependency graphs a planner may return: each is a
                    \* function from task ids to the ids they depend on

VARIABLES status,   \* the goal's status
          graph,    \* the dependency graph of the accepted plan
          delivered \* the tasks that have a canonical artifact

gdVars == <<status, graph, delivered>>

Init ==
  /\ status = "none"
  /\ graph = << >>
  /\ delivered = {}

Submit(g) ==
  /\ status = "none"
  /\ status' = "planned"
  /\ graph' = g
  /\ UNCHANGED delivered

Deliver(t) ==
  /\ status # "none"
  /\ graph[t] \subseteq delivered
  /\ delivered' = delivered \union {t}
  /\ UNCHANGED <<status, graph>>

Complete ==
  /\ status # "none"
  /\ delivered = DOMAIN graph
  /\ status' = "canonical"
  /\ UNCHANGED <<graph, delivered>>

(* A run starts over, gives the goal up, or hands it to a person.          *)
Move(s) ==
  /\ status # "none"
  /\ status' = s
  /\ UNCHANGED <<graph, delivered>>

Next ==
  \/ \E g \in Graphs : Submit(g)
  \/ \E t \in DOMAIN graph : Deliver(t)
  \/ Complete
  \/ \E s \in {"running", "escalated", "failed"} : Move(s)

Spec == Init /\ [][Next]_gdVars
==============================================================================
