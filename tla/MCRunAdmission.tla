---------------------------- MODULE MCRunAdmission ----------------------------
(* Small instances of RunAdmission for TLC.                                *)
EXTENDS RunAdmission

CONSTANTS a1, a2, wake, assign, t1, k1, kc, v1, u1

(* A request with nothing in it, for agent a and a reason.                 *)
Plain(a, why) ==
  [agent |-> a, reason |-> why, task |-> None, key |-> None, wave |-> None,
   skipCoalesce |-> FALSE, kind |-> "system", actor |-> None,
   source |-> "root", routine |-> None, scoped |-> TRUE]

(***************************************************************************)
(* Every source of a cause, and every way to be a duplicate or to merge: a *)
(* human's key sent to a1 and, by a run of a1, to a2; a routine's wave; a2 *)
(* waking a1 for a task whose id is no string; a1 waking itself about a    *)
(* comment and for another reason; an agent that fails to name itself; and *)
(* a wake outside every scope.                                             *)
(***************************************************************************)
AdmissionRequests ==
  {[Plain(a1, wake) EXCEPT !.key = k1, !.kind = "user", !.source = "boundary"],
   [Plain(a2, wake) EXCEPT !.key = k1, !.kind = "agent", !.actor = a1, !.source = "run",
                           !.skipCoalesce = TRUE],
   [Plain(a1, wake) EXCEPT !.wave = v1, !.task = t1, !.routine = u1],
   [Plain(a1, wake) EXCEPT !.task = Untyped, !.kind = "agent", !.actor = a2,
                           !.source = "reactivity"],
   [Plain(a1, wake) EXCEPT !.key = kc, !.task = t1, !.kind = "agent", !.actor = a1,
                           !.source = "reactivity"],
   [Plain(a1, assign) EXCEPT !.kind = "agent", !.actor = a1, !.skipCoalesce = TRUE],
   [Plain(a1, wake) EXCEPT !.task = t1, !.kind = "agent", !.source = "boundary"],
   [Plain(a2, wake) EXCEPT !.scoped = FALSE, !.skipCoalesce = TRUE]}

(***************************************************************************)
(* Two requests for one task that differ in who makes them, for the merge  *)
(* that comes after a claim (MergedBeforeTheLaunch).                       *)
(***************************************************************************)
MergingRequests ==
  {[Plain(a1, wake) EXCEPT !.task = t1, !.kind = k] : k \in {"system", "user"}}
=============================================================================
