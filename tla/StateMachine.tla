----------------------------- MODULE StateMachine -----------------------------
(***************************************************************************)
(* The lifecycle of a work item (state_machine.py): which state may follow *)
(* which, what a transition request must carry, and the replay of an audit *)
(* stream.  A request, and the audit event made from it, is a record       *)
(*   [id, item, from, to, reason, rule]                                    *)
(* with "reason" saying that its reason is not blank and "rule" that it    *)
(* names a constitutional rule.                                            *)
(***************************************************************************)
EXTENDS Naturals, Sequences

State == {"proposed", "qualified", "planned", "ready", "executing", "review",
          "revision", "approved", "canonical", "monitored", "superseded",
          "blocked", "paused", "failed", "rejected", "escalated", "cancelled"}

TerminalStates == {"superseded", "rejected", "cancelled"}

(* Mutant of AllowedTargets: executed work may skip its review.            *)
UnreviewedTargets(s) ==
  CASE s = "executing" -> {"review", "approved", "blocked", "paused", "failed"}
    [] s = "review"    -> {"revision", "approved", "rejected", "escalated"}
    [] s = "approved"  -> {"canonical", "escalated"}
    [] s = "canonical" -> {"monitored", "superseded"}
    [] OTHER           -> {}

AllowedTargets(s) ==
  CASE s = "proposed"  -> {"qualified", "rejected", "cancelled"}
    [] s = "qualified" -> {"planned", "rejected", "escalated", "cancelled"}
    [] s = "planned"   -> {"ready", "blocked", "escalated", "cancelled"}
    [] s = "ready"     -> {"executing", "blocked", "paused", "cancelled"}
    [] s = "executing" -> {"review", "blocked", "paused", "failed"}
    [] s = "review"    -> {"revision", "approved", "rejected", "escalated"}
    [] s = "revision"  -> {"executing", "review", "blocked", "failed"}
    [] s = "approved"  -> {"canonical", "escalated"}
    [] s = "canonical" -> {"monitored", "superseded"}
    [] s = "monitored" -> {"revision", "superseded", "escalated"}
    [] s = "blocked"   -> {"ready", "executing", "revision", "escalated", "cancelled"}
    [] s = "paused"    -> {"ready", "executing", "cancelled"}
    [] s = "failed"    -> {"ready", "revision", "escalated", "cancelled"}
    [] s = "escalated" -> {"planned", "ready", "revision", "rejected", "cancelled"}
    [] s \in TerminalStates -> {}

(* validate(): no exception.                                               *)
Valid(request) ==
  /\ request.to \in AllowedTargets(request.from)
  /\ request.reason
  /\ request.to = "escalated" => request.rule
  /\ request.from \notin TerminalStates

(* replay(): the state an audit stream leads to, or the exception.         *)
InvalidStream == "invalid stream"

Replay(initial, stream) ==
  LET current[n \in 0..Len(stream)] ==
        IF n = 0 THEN initial
        ELSE IF current[n - 1] = stream[n].from /\ Valid(stream[n])
             THEN stream[n].to ELSE InvalidStream
  IN current[Len(stream)]
==============================================================================
