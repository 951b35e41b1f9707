-------------------------- MODULE DurabilityBarrier --------------------------
(***************************************************************************)
(* The backend's SQLite writer commits with synchronous=NORMAL: a commit   *)
(* survives a crash of the process and may be lost with the power.  Before *)
(* the backend acknowledges what it has stored it awaits this barrier: one *)
(* FULL commit on the same connection, which synchronises every commit     *)
(* before it.  Callers share a run; one that arrives while a run is under  *)
(* way may need the next.                                                  *)
(***************************************************************************)
EXTENDS Naturals

CONSTANTS
  Callers,
  MaxCommits,      \* bound: NORMAL commits
  MaxArrivals      \* bound: calls of Await

ASSUME BarrierAssumption == MaxCommits \in Nat /\ MaxArrivals \in Nat

VARIABLES
  commits,         \* NORMAL commits the writer has made
  synced,          \* how many of them the disk has
  arrivals, covered, running,
  run,             \* the goroutine of the current run
  caller           \* the calls of Await

vars == <<commits, synced, arrivals, covered, running, run, caller>>

CallerType ==
  [phase : {"idle", "registered", "waiting", "leading", "answered", "returned"},
   ticket : Nat,
   at : Nat,       \* commits when Await was called
   ok : BOOLEAN]   \* the run's result, then the call's

RunType ==
  [phase : {"none", "window", "commit", "publish"}, covered : Nat, ok : BOOLEAN]

(* Every variable has its type.                                            *)
TypeOK ==
  /\ commits \in Nat /\ synced \in Nat /\ arrivals \in Nat /\ covered \in Nat
  /\ running \in BOOLEAN
  /\ run \in RunType
  /\ caller \in [Callers -> CallerType]

NoRun == [phase |-> "none", covered |-> 0, ok |-> FALSE]

Idle == [phase |-> "idle", ticket |-> 0, at |-> 0, ok |-> FALSE]

Init ==
  /\ commits = 0 /\ synced = 0 /\ arrivals = 0 /\ covered = 0
  /\ running = FALSE /\ run = NoRun
  /\ caller = [c \in Callers |-> Idle]

-----------------------------------------------------------------------------
(* Any transaction of the writer.                                          *)
CommitNormal ==
  /\ commits < MaxCommits
  /\ commits' = commits + 1
  /\ UNCHANGED <<synced, arrivals, covered, running, run, caller>>

(* Await takes its ticket and gives the lock away.                         *)
Await(c) ==
  /\ caller[c].phase \in {"idle", "returned"} /\ arrivals < MaxArrivals
  /\ caller' = [caller EXCEPT ![c] =
                  [phase |-> "registered", ticket |-> arrivals, at |-> commits, ok |-> FALSE]]
  /\ arrivals' = arrivals + 1
  /\ UNCHANGED <<commits, synced, covered, running, run>>

Covered(c) ==
  /\ caller[c].phase = "registered" /\ covered > caller[c].ticket
  /\ caller' = [caller EXCEPT ![c].phase = "returned", ![c].ok = TRUE]
  /\ UNCHANGED <<commits, synced, arrivals, covered, running, run>>

Lead(c) ==
  /\ caller[c].phase = "registered" /\ covered <= caller[c].ticket /\ ~running
  /\ running' = TRUE
  /\ run' = [NoRun EXCEPT !.phase = "window"]
  /\ caller' = [caller EXCEPT ![c].phase = "leading"]
  /\ UNCHANGED <<commits, synced, arrivals, covered>>

WaitForChange(c) ==
  /\ caller[c].phase = "registered" /\ covered <= caller[c].ticket /\ running
  /\ caller' = [caller EXCEPT ![c].phase = "waiting"]
  /\ UNCHANGED <<commits, synced, arrivals, covered, running, run>>

(* The leader reads the result the run left for it.                        *)
Answered(c) ==
  /\ caller[c].phase = "answered"
  /\ caller' = [caller EXCEPT ![c].phase = "returned"]
  /\ UNCHANGED <<commits, synced, arrivals, covered, running, run>>

(* The caller's context ends; a run it leads goes on.                      *)
Cancel(c) ==
  /\ caller[c].phase \in {"waiting", "leading", "answered"}
  /\ caller' = [caller EXCEPT ![c].phase = "returned", ![c].ok = FALSE]
  /\ UNCHANGED <<commits, synced, arrivals, covered, running, run>>

(* The coalescing window is over: the run covers who has arrived so far.   *)
CloseWindow ==
  /\ run.phase = "window"
  /\ run' = [run EXCEPT !.phase = "commit", !.covered = arrivals]
  /\ UNCHANGED <<commits, synced, arrivals, covered, running, caller>>

(* A run that tries a failed commit again instead of publishing the error. *)
CommitUntilDone ==
  /\ run.phase = "commit"
  /\ \/ run' = [run EXCEPT !.phase = "publish", !.ok = TRUE] /\ synced' = commits
     \/ run' = [run EXCEPT !.phase = "window"] /\ synced' = synced
  /\ UNCHANGED <<commits, arrivals, covered, running, caller>>

(* The FULL commit.  It may fail before it has synchronised anything, or   *)
(* after it when the level cannot be restored.                             *)
CommitFull ==
  /\ run.phase = "commit"
  /\ \E ok \in BOOLEAN :
       /\ run' = [run EXCEPT !.phase = "publish", !.ok = ok]
       /\ synced' = commits \/ (~ok /\ synced' = synced)
  /\ UNCHANGED <<commits, arrivals, covered, running, caller>>

(* Publishing who has arrived by now instead of who had at the commit.     *)
PublishArrivals ==
  /\ run.phase = "publish"
  /\ covered' = IF run.ok THEN arrivals ELSE covered
  /\ running' = FALSE
  /\ run' = NoRun
  /\ caller' = [c \in Callers |->
       CASE caller[c].phase = "waiting" -> [caller[c] EXCEPT !.phase = "registered"]
         [] caller[c].phase = "leading" ->
              [caller[c] EXCEPT !.phase = "answered", !.ok = run.ok]
         [] OTHER -> caller[c]]
  /\ UNCHANGED <<commits, synced, arrivals>>

(* A failed run that does not close the channel its waiters wait on.       *)
PublishSuccessOnly ==
  /\ run.phase = "publish"
  /\ covered' = IF run.ok /\ run.covered > covered THEN run.covered ELSE covered
  /\ running' = FALSE
  /\ run' = NoRun
  /\ caller' = [c \in Callers |->
       CASE caller[c].phase = "waiting" /\ run.ok ->
              [caller[c] EXCEPT !.phase = "registered"]
         [] caller[c].phase = "leading" ->
              [caller[c] EXCEPT !.phase = "answered", !.ok = run.ok]
         [] OTHER -> caller[c]]
  /\ UNCHANGED <<commits, synced, arrivals>>

(* Everybody who waits looks again; the leader gets the result.            *)
Publish ==
  /\ run.phase = "publish"
  /\ covered' = IF run.ok /\ run.covered > covered THEN run.covered ELSE covered
  /\ running' = FALSE
  /\ run' = NoRun
  /\ caller' = [c \in Callers |->
       CASE caller[c].phase = "waiting" -> [caller[c] EXCEPT !.phase = "registered"]
         [] caller[c].phase = "leading" ->
              [caller[c] EXCEPT !.phase = "answered", !.ok = run.ok]
         [] OTHER -> caller[c]]
  /\ UNCHANGED <<commits, synced, arrivals>>

CallerStep(c) == Covered(c) \/ Lead(c) \/ WaitForChange(c) \/ Answered(c)

RunStep == CloseWindow \/ CommitFull \/ Publish

Next ==
  \/ CommitNormal \/ RunStep
  \/ \E c \in Callers : Await(c) \/ CallerStep(c) \/ Cancel(c)

Spec == Init /\ [][Next]_vars

(***************************************************************************)
(* The run has a goroutine and a timeout of its own, and a caller that can *)
(* go on does.  Nobody has to cancel and nobody has to call.               *)
(***************************************************************************)
FairSpec == Spec /\ WF_vars(RunStep) /\ \A c \in Callers : WF_vars(CallerStep(c))

-----------------------------------------------------------------------------
(***************************************************************************)
(* When Await returns without an error the disk has every commit that was  *)
(* made before the call, whoever led the run and whoever cancelled.        *)
(***************************************************************************)
AwaitCovers ==
  \A c \in Callers : caller[c].phase = "returned" /\ caller[c].ok => caller[c].at <= synced

(***************************************************************************)
(* Nobody waits for a run that is not under way: whoever sleeps, the       *)
(* leader of a run included, sleeps while the goroutine that will wake it  *)
(* is still on its way, however many runs have failed or lost their        *)
(* leader, and the flag that sends callers to sleep is up only then.       *)
(***************************************************************************)
WaitersHaveARun ==
  /\ running => run.phase # "none"
  /\ \A c \in Callers : caller[c].phase \in {"waiting", "leading"} => run.phase # "none"

(***************************************************************************)
(* Every call returns, also if the caller leading the run it waits for     *)
(* gives up and if runs fail.                                              *)
(***************************************************************************)
EveryCallReturns ==
  \A c \in Callers : caller[c].phase = "registered" ~> caller[c].phase = "returned"
=============================================================================
