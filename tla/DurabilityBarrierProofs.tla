------------------------ MODULE DurabilityBarrierProofs ------------------------
(***************************************************************************)
(* Proofs about DurabilityBarrier: what an acknowledgement that has waited *)
(* for the barrier may rely on, for every number of callers, commits,      *)
(* failures and cancellations.                                             *)
(***************************************************************************)
EXTENDS DurabilityBarrier, TLAPS

(***************************************************************************)
(* What one call keeps true.  A ticket was given out, and when the counter *)
(* or the run under way covers it, the disk has, or will have once the run *)
(* commits, what was committed before the call.                            *)
(***************************************************************************)
CallSound(c) ==
  /\ caller[c] \in CallerType
  /\ caller[c].at <= commits
  /\ caller[c].phase # "idle" => caller[c].ticket < arrivals
  /\ caller[c].phase # "idle" /\ caller[c].ticket < covered => caller[c].at <= synced
  /\ caller[c].phase \in {"waiting", "leading"} => run.phase # "none"
  /\ caller[c].phase = "leading" /\ run.phase \in {"commit", "publish"} =>
       caller[c].ticket < run.covered
  /\ /\ caller[c].phase # "idle" /\ caller[c].ticket < run.covered
     /\ run.phase = "publish" /\ run.ok
     => caller[c].at <= synced
  /\ caller[c].phase \in {"answered", "returned"} /\ caller[c].ok => caller[c].at <= synced

(* The inductive invariant.                                                *)
BarrierSound ==
  /\ commits \in Nat /\ synced \in Nat /\ arrivals \in Nat /\ covered \in Nat
  /\ running \in BOOLEAN /\ run \in RunType
  /\ synced <= commits /\ covered <= arrivals
  /\ running => run.phase # "none"
  /\ run.phase # "none" => running /\ run.covered <= arrivals
  /\ DOMAIN caller = Callers
  /\ caller = [c \in Callers |-> caller[c]]
  /\ \A c \in Callers : CallSound(c)

(* The invariant holds of a barrier nobody has used.                       *)
LEMMA InitSound == Init => BarrierSound
<1> SUFFICES ASSUME Init PROVE BarrierSound
  OBVIOUS
<1>1. Idle \in CallerType /\ NoRun \in RunType
  BY DEF Idle, CallerType, NoRun, RunType
<1>2. running \in BOOLEAN
  BY Zenon DEF Init
<1>3. ASSUME NEW c \in Callers PROVE CallSound(c)
  <2>1. caller[c] = Idle /\ run = NoRun
    BY DEF Init
  <2>2. caller[c].phase = "idle" /\ caller[c].at = 0
    BY <2>1 DEF Idle
  <2> QED
    BY <1>1, <2>1, <2>2 DEF CallSound, Init
<1> QED
  BY <1>1, <1>2, <1>3 DEF BarrierSound, Init, NoRun

(* A caller's step that changes only its own record.                       *)
LEMMA CallerStepSound ==
  ASSUME BarrierSound, NEW c \in Callers,
         Covered(c) \/ WaitForChange(c) \/ Answered(c) \/ Cancel(c)
  PROVE  BarrierSound'
<1> USE DEF BarrierSound, CallSound
<1>0. UNCHANGED <<commits, synced, arrivals, covered, running, run>>
  BY DEF Covered, WaitForChange, Answered, Cancel
<1>1. PICK phase \in {"waiting", "returned"}, ok \in BOOLEAN :
        /\ caller' = [caller EXCEPT ![c] = [@ EXCEPT !.phase = phase, !.ok = ok]]
        /\ caller[c].phase # "idle"
        /\ phase = "waiting" => run.phase # "none"
        /\ phase = "returned" /\ ok => caller[c].at <= synced
  <2>1. CASE Covered(c)
    <3>1. caller' = [caller EXCEPT ![c] = [@ EXCEPT !.phase = "returned", !.ok = TRUE]]
      BY <2>1 DEF Covered
    <3>2. caller[c].phase # "idle" /\ caller[c].at <= synced
      BY <2>1 DEF Covered, CallerType
    <3> QED
      BY <3>1, <3>2, Zenon
  <2>2. CASE WaitForChange(c)
    <3>1. caller[c].ok \in BOOLEAN
      BY DEF CallerType
    <3>2. caller' = [caller EXCEPT ![c] = [@ EXCEPT !.phase = "waiting", !.ok = caller[c].ok]]
      BY <2>2 DEF WaitForChange, CallerType
    <3>3. caller[c].phase # "idle" /\ run.phase # "none"
      BY <2>2 DEF WaitForChange
    <3> QED
      BY <3>1, <3>2, <3>3
  <2>3. CASE Answered(c)
    <3>1. caller[c].ok \in BOOLEAN
      BY DEF CallerType
    <3>2. caller' = [caller EXCEPT ![c] = [@ EXCEPT !.phase = "returned", !.ok = caller[c].ok]]
      BY <2>3 DEF Answered, CallerType
    <3>3. caller[c].phase # "idle" /\ (caller[c].ok => caller[c].at <= synced)
      BY <2>3 DEF Answered
    <3> QED
      BY <3>1, <3>2, <3>3
  <2>4. CASE Cancel(c)
    <3>1. caller' = [caller EXCEPT ![c] = [@ EXCEPT !.phase = "returned", !.ok = FALSE]]
      BY <2>4 DEF Cancel
    <3>2. caller[c].phase # "idle"
      BY <2>4 DEF Cancel
    <3> QED
      BY <3>1, <3>2, Zenon
  <2> QED
    BY <2>1, <2>2, <2>3, <2>4
<1>2. caller'[c] \in CallerType /\ caller'[c].phase = phase /\ caller'[c].ok = ok
      /\ caller'[c].at = caller[c].at /\ caller'[c].ticket = caller[c].ticket
  BY <1>1 DEF CallerType
<1>3. CallSound(c)'
  BY <1>0, <1>1, <1>2
<1>4. ASSUME NEW d \in Callers, d # c PROVE CallSound(d)'
  <2>1. caller'[d] = caller[d]
    BY <1>1, <1>4
  <2> QED
    BY <1>0, <2>1
<1>5. DOMAIN caller' = Callers /\ caller' = [d \in Callers |-> caller'[d]]
  BY <1>1
<1> QED
  BY <1>0, <1>3, <1>4, <1>5

(* Another commit, and the end of the window, disturb no call.             *)
LEMMA CommitSound ==
  ASSUME BarrierSound, CommitNormal \/ CloseWindow
  PROVE  BarrierSound'
<1> USE DEF BarrierSound, CallSound
<1>1. CASE CommitNormal
  <2>1. ASSUME NEW c \in Callers PROVE CallSound(c)'
    BY <1>1 DEF CommitNormal, CallerType
  <2> QED
    BY <1>1, <2>1 DEF CommitNormal
<1>2. CASE CloseWindow
  <2>1. run' \in RunType /\ run'.phase = "commit" /\ run'.covered = arrivals
    BY <1>2 DEF CloseWindow, RunType
  <2> QED
    BY <1>2, <2>1 DEF CloseWindow
<1> QED
  BY <1>1, <1>2

(* A new call takes the next ticket, which nothing covers yet.             *)
LEMMA AwaitSound ==
  ASSUME BarrierSound, NEW c \in Callers, Await(c)
  PROVE  BarrierSound'
<1> USE DEF BarrierSound, CallSound
<1>0. UNCHANGED <<commits, synced, covered, running, run>> /\ arrivals' = arrivals + 1
  BY DEF Await
<1>1. caller'[c] \in CallerType /\ caller'[c].phase = "registered"
      /\ caller'[c].ticket = arrivals /\ caller'[c].at = commits
  BY DEF Await, CallerType
<1>2. run.phase # "none" => run.covered <= arrivals
  OBVIOUS
<1>3. CallSound(c)'
  BY <1>0, <1>1, <1>2 DEF RunType
<1>4. ASSUME NEW d \in Callers, d # c PROVE CallSound(d)'
  <2>1. caller'[d] = caller[d]
    BY <1>4 DEF Await
  <2> QED
    BY <1>0, <2>1 DEF CallerType
<1>5. DOMAIN caller' = Callers /\ caller' = [d \in Callers |-> caller'[d]]
  BY DEF Await
<1> QED
  BY <1>0, <1>3, <1>4, <1>5 DEF RunType

(* A caller that becomes the leader starts a run nobody is covered by yet. *)
LEMMA LeadSound ==
  ASSUME BarrierSound, NEW c \in Callers, Lead(c)
  PROVE  BarrierSound'
<1> USE DEF BarrierSound, CallSound
<1>0. UNCHANGED <<commits, synced, arrivals, covered>> /\ running' \in BOOLEAN /\ running'
  BY Zenon DEF Lead
<1>1. run' \in RunType /\ run'.phase = "window" /\ run'.covered = 0
  BY DEF Lead, NoRun, RunType
<1>2. caller'[c] \in CallerType /\ caller'[c].phase = "leading"
      /\ caller'[c].ticket = caller[c].ticket /\ caller'[c].at = caller[c].at
  BY DEF Lead, CallerType
<1>3. CallSound(c)'
  BY <1>0, <1>1, <1>2 DEF Lead
<1>4. ASSUME NEW d \in Callers, d # c PROVE CallSound(d)'
  <2>1. caller'[d] = caller[d]
    BY <1>4 DEF Lead
  <2> QED
    BY <1>0, <1>1, <2>1
<1>5. DOMAIN caller' = Callers /\ caller' = [d \in Callers |-> caller'[d]]
  BY DEF Lead
<1> QED
  BY <1>0, <1>1, <1>3, <1>4, <1>5

(* The FULL commit gives the disk all that was committed before it.        *)
LEMMA CommitFullSound ==
  ASSUME BarrierSound, CommitFull
  PROVE  BarrierSound'
<1> USE DEF BarrierSound, CallSound
<1>0. UNCHANGED <<commits, arrivals, covered, running, caller>>
  BY DEF CommitFull
<1>1. PICK ok \in BOOLEAN :
        /\ run' = [run EXCEPT !.phase = "publish", !.ok = ok]
        /\ synced' = commits \/ (~ok /\ synced' = synced)
  BY DEF CommitFull
<1>2. run' \in RunType /\ run'.phase = "publish" /\ run'.ok = ok /\ run'.covered = run.covered
  BY <1>1 DEF RunType
<1>3. synced' \in Nat /\ synced <= synced' /\ synced' <= commits
  BY <1>1
<1>4. ASSUME NEW c \in Callers PROVE CallSound(c)'
  <2>1. ok => caller[c].at <= synced'
    BY <1>1, <1>3
  <2>2. run.phase = "commit"
    BY DEF CommitFull
  <2> QED
    BY <1>0, <1>2, <1>3, <2>1, <2>2 DEF CallerType
<1> QED
  BY <1>0, <1>2, <1>3, <1>4, running \in BOOLEAN DEF CommitFull

(* What the run publishes is sound for those who wait and for its leader.  *)
LEMMA PublishSound ==
  ASSUME BarrierSound, Publish
  PROVE  BarrierSound'
<1> USE DEF BarrierSound, CallSound
<1>0. UNCHANGED <<commits, synced, arrivals>> /\ run' = NoRun /\ running' = FALSE
  BY DEF Publish
<1>1. run' \in RunType /\ run'.phase = "none"
  BY <1>0 DEF NoRun, RunType
<1>2. PICK ok \in BOOLEAN : ok = run.ok
  BY DEF RunType
<1>3. run.phase = "publish" /\ run.covered \in Nat
  BY DEF Publish, RunType
<1>4. covered' = covered \/ (ok /\ covered' = run.covered)
  BY <1>2 DEF Publish
<1>5. covered' \in Nat /\ covered' <= arrivals
  BY <1>3, <1>4
<1>6. ASSUME NEW c \in Callers PROVE CallSound(c)'
  <2>1. caller'[c] \in CallerType /\ caller'[c].ticket = caller[c].ticket
        /\ caller'[c].at = caller[c].at
        /\ (caller[c].phase # "idle" <=> caller'[c].phase # "idle")
        /\ caller'[c].phase \notin {"waiting", "leading"}
    <3>1. CASE caller[c].phase = "waiting"
      <4>1. caller'[c] = [caller[c] EXCEPT !.phase = "registered"]
        BY <3>1 DEF Publish
      <4> QED
        BY <3>1, <4>1 DEF CallerType
    <3>2. CASE caller[c].phase = "leading"
      <4>1. caller'[c] = [caller[c] EXCEPT !.phase = "answered", !.ok = ok]
        BY <3>2, <1>2 DEF Publish
      <4> QED
        BY <3>2, <4>1 DEF CallerType
    <3>3. CASE caller[c].phase \notin {"waiting", "leading"}
      <4>1. caller'[c] = caller[c]
        BY <3>3 DEF Publish
      <4> QED
        BY <3>3, <4>1
    <3> QED
      BY <3>1, <3>2, <3>3
  <2>2. caller'[c].phase \in {"answered", "returned"} /\ caller'[c].ok => caller[c].at <= synced
    <3>1. CASE caller[c].phase = "waiting"
      <4>1. caller'[c] = [caller[c] EXCEPT !.phase = "registered"]
        BY <3>1 DEF Publish
      <4> QED
        BY <3>1, <4>1 DEF CallerType
    <3>2. CASE caller[c].phase = "leading"
      <4>1. caller'[c] = [caller[c] EXCEPT !.phase = "answered", !.ok = ok]
        BY <3>2, <1>2 DEF Publish
      <4>2. caller'[c].ok = ok
        BY <4>1 DEF CallerType
      <4>3. ok => caller[c].at <= synced
        BY <3>2, <1>2, <1>3
      <4> QED
        BY <4>2, <4>3
    <3>3. CASE caller[c].phase \notin {"waiting", "leading"}
      <4>1. caller'[c] = caller[c]
        BY <3>3 DEF Publish
      <4> QED
        BY <3>3, <4>1
    <3> QED
      BY <3>1, <3>2, <3>3
  <2>3. caller[c].phase # "idle" /\ caller[c].ticket < covered' => caller[c].at <= synced
    BY <1>2, <1>3, <1>4
  <2> QED
    BY <1>0, <1>1, <2>1, <2>2, <2>3
<1>7. DOMAIN caller' = Callers /\ caller' = [d \in Callers |-> caller'[d]]
  BY DEF Publish
<1>8. running' \in BOOLEAN
  BY <1>0, Zenon
<1> QED
  BY <1>0, <1>1, <1>5, <1>6, <1>7, <1>8

(* Every step keeps the invariant.                                         *)
LEMMA StepSound == BarrierSound /\ [Next]_vars => BarrierSound'
<1> SUFFICES ASSUME BarrierSound, [Next]_vars PROVE BarrierSound'
  OBVIOUS
<1>1. CASE UNCHANGED vars
  BY <1>1 DEF vars, BarrierSound, CallSound
<1> QED
  BY <1>1, CallerStepSound, CommitSound, AwaitSound, LeadSound, CommitFullSound,
     PublishSound DEF Next, CallerStep, RunStep

(***************************************************************************)
(* Every variable has its type, for every set of callers.                  *)
(***************************************************************************)
THEOREM BarrierTypes == Spec => []TypeOK
<1>1. BarrierSound => TypeOK
  BY DEF BarrierSound, CallSound, TypeOK
<1> QED
  BY <1>1, InitSound, StepSound, PTL DEF Spec

(***************************************************************************)
(* Await keeps its promise for every number of callers, commits and calls: *)
(* one that returns without an error has the commits made before it on the *)
(* disk, whether a run of its own or of somebody else covered it.          *)
(***************************************************************************)
THEOREM BarrierCovers == Spec => []AwaitCovers
<1>1. BarrierSound => AwaitCovers
  BY DEF BarrierSound, CallSound, AwaitCovers
<1> QED
  BY <1>1, InitSound, StepSound, PTL DEF Spec

(***************************************************************************)
(* No caller is stranded, for every number of callers, calls and failed    *)
(* runs: the flag and the goroutine come and go together, and the run that *)
(* ends wakes everybody who waits before the flag goes down.  What is left *)
(* of the promise that every call returns is that the goroutine goes on.   *)
(***************************************************************************)
THEOREM NobodyIsStranded == Spec => []WaitersHaveARun
<1>1. BarrierSound => WaitersHaveARun
  BY DEF BarrierSound, CallSound, WaitersHaveARun
<1> QED
  BY <1>1, InitSound, StepSound, PTL DEF Spec
================================================================================
