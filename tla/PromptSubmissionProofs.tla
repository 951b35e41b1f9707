----------------------- MODULE PromptSubmissionProofs -----------------------
(***************************************************************************)
(* Proofs about PromptSubmission.  deliverySubmissionMu is held from the   *)
(* check of a submission's state to its settlement, so no two requests are *)
(* in that section at once; and the journal never takes a submission back  *)
(* to a state from which it can be dispatched.  Together these leave one   *)
(* call of the harness for a submission.                                   *)
(***************************************************************************)
EXTENDS PromptSubmission, TLAPS

(* The stages of a request between taking the lock and releasing it.       *)
LockedStages == {"prepare", "transition", "call", "calling", "returned",
                 "known_failure", "uncertain", "abandoned",
                 "settle_failed", "settle_unknown", "settle_abandoned"}

(* The states from which a submission can still reach the harness.         *)
Undispatched == {"absent", "prepared", "accepted"}

RequestsNameSubs == \A q \in Requests : request[q].stage # "idle" => request[q].sub \in Subs

LockIsHeld == \A q \in Requests : request[q].stage \in LockedStages => lock = q

UndispatchedNotCalled == \A s \in Subs : sub[s].state \in Undispatched => calls[s] = 0

(* From the check of the state to the call nobody else calls for that      *)
(* submission, and the dispatch is committed before the call.              *)
AboutToCall ==
  \A q \in Requests :
    /\ request[q].stage \in {"transition", "call"} => calls[request[q].sub] = 0
    /\ request[q].stage = "call" => sub[request[q].sub].state \notin Undispatched

Inv ==
  /\ TypeOK
  /\ RequestsNameSubs /\ LockIsHeld
  /\ UndispatchedNotCalled /\ AboutToCall
  /\ CalledAtMostOnce

-----------------------------------------------------------------------------
SubRow == [state : States, retained : BOOLEAN, retired : BOOLEAN, generation : 0..MaxGeneration]
RequestRow == [stage : Stages, sub : Subs \cup {NoSub}]

(* An update of one submission leaves the journal well typed.              *)
LEMMA SubUpdates ==
  ASSUME sub \in [Subs -> SubRow], NEW s \in Subs, NEW st \in States
  PROVE  /\ [sub EXCEPT ![s].state = st] \in [Subs -> SubRow]
         /\ [sub EXCEPT ![s].state = st, ![s].retained = TRUE] \in [Subs -> SubRow]
         /\ [sub EXCEPT ![s].retained = TRUE, ![s].state = st] \in [Subs -> SubRow]
         /\ [sub EXCEPT ![s].retired = TRUE, ![s].state = st] \in [Subs -> SubRow]
         /\ \A g \in 0..MaxGeneration :
              [sub EXCEPT ![s].state = st, ![s].generation = g] \in [Subs -> SubRow]
BY DEF SubRow

(* A transition keeps the journal well typed.                              *)
LEMMA TransitionTypes ==
  ASSUME sub \in [Subs -> SubRow], NEW s \in Subs, NEW st \in States, TransitionSubmission(s, st)
  PROVE  sub' \in [Subs -> SubRow]
BY SubUpdates DEF TransitionSubmission

(* A request that moves on or ends keeps its type and knows its prompt.    *)
LEMMA RequestMoves ==
  ASSUME request \in [Requests -> RequestRow], RequestsNameSubs, NEW q \in Requests,
         request[q].stage # "idle",
         Ends(q) \/ \E st \in Stages : Goes(q, st)
  PROVE  request' \in [Requests -> RequestRow] /\ RequestsNameSubs'
<1>1. CASE Ends(q)
  BY <1>1 DEF RequestRow, RequestsNameSubs, Ends, Idle, Stages
<1>2. ASSUME NEW st \in Stages, Goes(q, st) PROVE request' \in [Requests -> RequestRow] /\ RequestsNameSubs'
  BY <1>2 DEF RequestRow, RequestsNameSubs, Goes
<1> QED
  BY <1>1, <1>2

(* What a terminal event writes keeps the types.                           *)
LEMMA TerminalTypes ==
  ASSUME TypeOK, NEW q \in Requests, NEW type \in Terminals, persistTerminal(q, type)
  PROVE  /\ sub' \in [Subs -> SubRow]
         /\ tracked' \in [Requests -> Subs \cup {NoSub}]
         /\ failed' \in Subs \cup {NoSub}
<1> DEFINE s == SubmissionForEvent(q)
<1>1. s \in Subs \cup {NoSub} /\ sub \in [Subs -> SubRow]
  BY DEF TypeOK, SubmissionForEvent, SubRow
<1>2. tracked' \in [Requests -> Subs \cup {NoSub}] /\ failed' \in Subs \cup {NoSub}
  BY <1>1 DEF persistTerminal, TypeOK
<1>3. CASE sub' = sub
  BY <1>1, <1>2, <1>3
<1>4. CASE sub' # sub
  <2>1. s \in Subs
    BY <1>1, <1>4 DEF persistTerminal
  <2>2. PICK st \in States :
          st = IF sub[s].state = "dispatching" /\ ~sub[s].retired THEN OutcomeOf(type)
                                                                  ELSE sub[s].state
    BY <1>1, <2>1 DEF SubRow, States, OutcomeOf
  <2>3. sub' = [sub EXCEPT ![s].retained = TRUE, ![s].state = st]
    BY <1>1, <1>4, <2>1, <2>2 DEF persistTerminal, SubRow
  <2> QED
    BY <1>1, <1>2, <2>1, <2>3, SubUpdates
<1> QED
  BY <1>3, <1>4

-----------------------------------------------------------------------------
(* A step of a request keeps the types, and the request knows its prompt.  *)
LEMMA RequestStepTypes ==
  ASSUME TypeOK, RequestsNameSubs, NEW q \in Requests, RequestStep(q)
  PROVE  TypeOK' /\ RequestsNameSubs'
<1> USE SubmissionAssumption DEF TypeOK, RequestsNameSubs
<1>a. /\ request \in [Requests -> RequestRow] /\ sub \in [Subs -> SubRow]
      /\ sub' \in [Subs -> SubRow] => sub' \in [Subs -> [state : States, retained : BOOLEAN,
           retired : BOOLEAN, generation : 0..MaxGeneration]]
      /\ request' \in [Requests -> RequestRow] =>
           request' \in [Requests -> [stage : Stages, sub : Subs \cup {NoSub}]]
  BY DEF RequestRow, SubRow
<1>1. ASSUME NEW s \in Subs, handleWSPrompt(q, s) PROVE TypeOK' /\ RequestsNameSubs'
  BY <1>1 DEF handleWSPrompt, journal, process, Stages
<1>2. CASE PutSubmission(q)
  <2> DEFINE s == request[q].sub
  <2>1. s \in Subs
    BY <1>2 DEF PutSubmission
  <2>2. sub' \in [Subs -> SubRow]
    <3>1. "prepared" \in States /\ generation \in 0..MaxGeneration
      BY DEF States
    <3>2. \/ sub' = sub
          \/ sub' = [sub EXCEPT ![s].state = "prepared", ![s].generation = generation]
      BY <1>2 DEF PutSubmission
    <3>3. [sub EXCEPT ![s].state = "prepared", ![s].generation = generation] \in [Subs -> SubRow]
      BY <1>a, <2>1, <3>1, SubUpdates
    <3> QED
      BY <1>a, <3>2, <3>3
  <2>3. request' \in [Requests -> RequestRow] /\ RequestsNameSubs'
    <3>1. request[q].stage # "idle" /\ (Ends(q) \/ \E st \in Stages : Goes(q, st))
      BY <1>2 DEF PutSubmission, Stages
    <3> QED
      BY <1>a, <3>1, RequestMoves
  <2>4. tracked' \in [Requests -> Subs \cup {NoSub}]
    BY <1>2, <2>1 DEF PutSubmission
  <2> QED
    BY <1>a, <1>2, <2>2, <2>3, <2>4 DEF PutSubmission, process
<1>3. CASE AcceptSubmission(q)
  <2>1. request[q].sub \in Subs
    BY <1>3 DEF AcceptSubmission
  <2>2. sub' \in [Subs -> SubRow]
    BY <1>a, <1>3, <2>1, TransitionTypes DEF AcceptSubmission, States
  <2>3. request' \in [Requests -> RequestRow] /\ RequestsNameSubs'
    <3>1. request[q].stage # "idle" /\ (Ends(q) \/ \E st \in Stages : Goes(q, st))
      BY <1>3 DEF AcceptSubmission, Stages
    <3> QED
      BY <1>a, <3>1, RequestMoves
  <2> QED
    BY <1>a, <1>3, <2>1, <2>2, <2>3 DEF AcceptSubmission, process
<1>4. CASE DispatchDeliverySubmission(q)
  BY <1>4 DEF DispatchDeliverySubmission, Goes, Ends, Idle, journal, dispatcher, Stages
<1>5. CASE prepareDispatch(q)
  BY <1>5 DEF prepareDispatch, Goes, Ends, Idle, Unlock, journal, dispatcher, Stages
<1>6. CASE StartDispatch(q)
  <2>1. request[q].sub \in Subs
    BY <1>6 DEF StartDispatch
  <2>2. sub' \in [Subs -> SubRow]
    BY <1>a, <1>6, <2>1, TransitionTypes DEF StartDispatch, States
  <2>3. request' \in [Requests -> RequestRow] /\ RequestsNameSubs'
    <3>1. request[q].stage # "idle" /\ (Ends(q) \/ \E st \in Stages : Goes(q, st))
      BY <1>6 DEF StartDispatch, Stages
    <3> QED
      BY <1>a, <3>1, RequestMoves
  <2> QED
    BY <1>a, <1>6, <2>2, <2>3 DEF StartDispatch, Unlock, dispatcher
<1>7. CASE CallHarness(q)
  BY <1>7 DEF CallHarness, Goes, process, Stages
<1>8. CASE HarnessReturns(q)
  <2>1. request' \in [Requests -> RequestRow] /\ RequestsNameSubs'
    <3>1. request[q].stage # "idle" /\ \E st \in Stages : Goes(q, st)
      BY <1>8 DEF HarnessReturns, Stages
    <3> QED
      BY <1>a, <3>1, RequestMoves
  <2>2. turns' \subseteq Requests /\ emitted' \subseteq Requests \X Terminals
    BY <1>8 DEF HarnessReturns
  <2> QED
    BY <1>a, <1>8, <2>1, <2>2 DEF HarnessReturns, journal
<1>9. CASE TurnEnds(q)
  BY <1>9 DEF TurnEnds, journal, Terminals
<1>10. CASE CompleteDispatch(q)
  <2>1. request[q].sub \in Subs
    BY <1>10 DEF CompleteDispatch
  <2>2. sub' \in [Subs -> SubRow]
    BY <1>a, <1>10, <2>1, TransitionTypes DEF CompleteDispatch, States
  <2>3. request' \in [Requests -> RequestRow] /\ RequestsNameSubs'
    <3>1. request[q].stage # "idle" /\ (Ends(q) \/ \E st \in Stages : Goes(q, st))
      BY <1>10 DEF CompleteDispatch, Stages
    <3> QED
      BY <1>a, <3>1, RequestMoves
  <2> QED
    BY <1>a, <1>10, <2>2, <2>3 DEF CompleteDispatch, Unlock, dispatcher
<1>11. CASE handleDispatchError(q)
  BY <1>11 DEF handleDispatchError, ReportError, Settling, Goes, Ends, Idle, Unlock, journal,
               dispatcher, Stages
<1>12. CASE SettleDispatch(q)
  <2>1. request[q].sub \in Subs
    BY <1>12 DEF SettleDispatch
  <2>2. sub' \in [Subs -> SubRow]
    BY <1>a, <1>12, <2>1, TransitionTypes DEF SettleDispatch, States
  <2>3. request' \in [Requests -> RequestRow] /\ RequestsNameSubs'
    <3>1. request[q].stage # "idle" /\ (Ends(q) \/ \E st \in Stages : Goes(q, st))
      BY <1>12 DEF SettleDispatch, ReportError, Stages
    <3> QED
      BY <1>a, <3>1, RequestMoves
  <2> QED
    BY <1>a, <1>12, <2>2, <2>3 DEF SettleDispatch, Unlock, dispatcher
<1>13. CASE SendErrorEvent(q)
  <2>1. request' \in [Requests -> [stage : Stages, sub : Subs \cup {NoSub}]] /\ RequestsNameSubs'
    BY <1>13 DEF SendErrorEvent, Ends, Idle, Stages
  <2> QED
    BY <1>a, <1>13, <2>1, TerminalTypes DEF SendErrorEvent, process, Terminals
<1>14. CASE ForwardOutput(q)
  BY <1>14 DEF ForwardOutput, journal, process
<1>15. ASSUME NEW type \in Terminals, ForwardTerminal(q, type) PROVE TypeOK' /\ RequestsNameSubs'
  BY <1>a, <1>15, TerminalTypes DEF ForwardTerminal
<1> QED
  BY <1>1, <1>2, <1>3, <1>4, <1>5, <1>6, <1>7, <1>8, <1>9, <1>10, <1>11, <1>12, <1>13, <1>14,
     <1>15 DEF RequestStep


(* Every step keeps the types.                                             *)
LEMMA StepTypes ==
  ASSUME TypeOK, RequestsNameSubs, [Next]_vars
  PROVE  TypeOK' /\ RequestsNameSubs'
<1> USE SubmissionAssumption
<1>a. /\ sub \in [Subs -> SubRow]
      /\ sub' \in [Subs -> SubRow] => sub' \in [Subs -> [state : States, retained : BOOLEAN,
           retired : BOOLEAN, generation : 0..MaxGeneration]]
  BY DEF TypeOK, SubRow
<1>1. ASSUME NEW q \in Requests, RequestStep(q) PROVE TypeOK' /\ RequestsNameSubs'
  BY <1>1, RequestStepTypes
<1>2. ASSUME NEW s \in Subs, CancelSubmission(s) PROVE TypeOK' /\ RequestsNameSubs'
  <2>1. sub' \in [Subs -> SubRow]
    BY <1>a, <1>2, SubUpdates DEF CancelSubmission, States
  <2> QED
    BY <1>a, <1>2, <2>1 DEF CancelSubmission, process, TypeOK, RequestsNameSubs
<1>3. ASSUME NEW s \in Subs, RetireSubmission(s) PROVE TypeOK' /\ RequestsNameSubs'
  <2>1. PICK st \in States :
          st = IF sub[s].state \in {"prepared", "accepted", "dispatching"}
               THEN "interrupted_unknown" ELSE sub[s].state
    BY <1>a DEF SubRow, States
  <2>2. sub' = [sub EXCEPT ![s].retired = TRUE, ![s].state = st]
    BY <1>a, <1>3, <2>1 DEF RetireSubmission, SubRow
  <2>3. sub' \in [Subs -> SubRow]
    BY <1>a, <2>2, SubUpdates
  <2> QED
    BY <1>a, <1>3, <2>3 DEF RetireSubmission, process, TypeOK, RequestsNameSubs
<1>4. CASE Restart
  <2>1. sub' \in [Subs -> SubRow]
    <3>1. ASSUME NEW s \in Subs PROVE [sub[s] EXCEPT !.state = "interrupted_unknown"] \in SubRow
      BY <1>a DEF SubRow, States
    <3> QED
      BY <1>a, <1>4, <3>1 DEF Restart
  <2>2. request' = [q \in Requests |-> Idle] /\ Idle \in [stage : Stages, sub : Subs \cup {NoSub}]
    BY <1>4 DEF Restart, Idle, Stages
  <2> QED
    BY <1>a, <1>4, <2>1, <2>2 DEF Restart, TypeOK, RequestsNameSubs, Idle
<1>5. CASE RefreshDeliveryPressure
  BY <1>5 DEF RefreshDeliveryPressure, journal, TypeOK, RequestsNameSubs
<1>6. CASE UNCHANGED vars
  BY <1>6 DEF vars, TypeOK, RequestsNameSubs
<1> QED
  BY <1>1, <1>2, <1>3, <1>4, <1>5, <1>6 DEF Next

-----------------------------------------------------------------------------
Final == {"completed", "failed", "cancelled"}

(* What no step does to a submission in the journal: make it dispatchable  *)
(* again, change an outcome, forget a terminal event.                      *)
OnlyForward(s) ==
  /\ sub'[s].state \in Undispatched => sub[s].state \in Undispatched
  /\ sub[s].state \in Final => sub'[s].state = sub[s].state
  /\ sub[s].retained => sub'[s].retained

(* A legal transition goes forward.                                        *)
LEMMA TransitionForward ==
  ASSUME sub \in [Subs -> SubRow], NEW s \in Subs,
         NEW to \in States, CanGoTo(s, to), TransitionSubmission(s, to)
  PROVE  \A x \in Subs : OnlyForward(x)
BY DEF SubRow, CanGoTo, validSubmissionTransition, TransitionSubmission, OnlyForward,
       Undispatched, Final

(* So does what a terminal event writes.                                   *)
LEMMA TerminalForward ==
  ASSUME TypeOK, NEW q \in Requests, NEW type \in Terminals, persistTerminal(q, type)
  PROVE  \A x \in Subs : OnlyForward(x)
<1> DEFINE s == SubmissionForEvent(q)
<1>1. sub \in [Subs -> SubRow]
  BY DEF TypeOK, SubRow
<1>2. CASE sub' = sub
  BY <1>2 DEF OnlyForward
<1>3. CASE sub' # sub
  BY <1>1, <1>3 DEF persistTerminal, OnlyForward, OutcomeOf, Undispatched, Final, SubRow
<1> QED
  BY <1>2, <1>3


(* No step of the system takes a submission back.                          *)
LEMMA JournalForward ==
  ASSUME TypeOK, RequestsNameSubs, [Next]_vars
  PROVE  \A x \in Subs : OnlyForward(x)
<1>a. sub \in [Subs -> SubRow]
  BY DEF TypeOK, SubRow
<1>b. ASSUME sub' = sub PROVE \A x \in Subs : OnlyForward(x)
  BY <1>b DEF OnlyForward
<1>1. ASSUME NEW q \in Requests, RequestStep(q) PROVE \A x \in Subs : OnlyForward(x)
  <2>1. ASSUME NEW s \in Subs, handleWSPrompt(q, s) PROVE sub' = sub
    BY <2>1 DEF handleWSPrompt, journal
  <2>2. CASE PutSubmission(q)
    BY <1>a, <2>2 DEF PutSubmission, OnlyForward, Undispatched, Final, RequestsNameSubs, SubRow
  <2>3. CASE AcceptSubmission(q)
    BY <1>a, <1>b, <2>3, TransitionForward DEF AcceptSubmission, RequestsNameSubs, States
  <2>4. CASE DispatchDeliverySubmission(q) \/ prepareDispatch(q) \/ CallHarness(q)
             \/ HarnessReturns(q) \/ TurnEnds(q) \/ handleDispatchError(q) \/ ForwardOutput(q)
    BY <1>b, <2>4 DEF DispatchDeliverySubmission, prepareDispatch, CallHarness, HarnessReturns,
                      TurnEnds, handleDispatchError, ForwardOutput, journal
  <2>5. CASE StartDispatch(q)
    BY <1>a, <1>b, <2>5, TransitionForward DEF StartDispatch, RequestsNameSubs, States
  <2>6. CASE CompleteDispatch(q)
    BY <1>a, <1>b, <2>6, TransitionForward DEF CompleteDispatch, RequestsNameSubs, States
  <2>7. CASE SettleDispatch(q)
    <3>1. request[q].sub \in Subs
      BY <2>7 DEF SettleDispatch, RequestsNameSubs
    <3>2. sub' = sub \/ \E to \in States : CanGoTo(request[q].sub, to) /\ TransitionSubmission(request[q].sub, to)
      BY <2>7 DEF SettleDispatch, States
    <3> QED
      BY <1>a, <1>b, <3>1, <3>2, TransitionForward
  <2>8. CASE SendErrorEvent(q)
    BY <2>8, TerminalForward DEF SendErrorEvent, Terminals
  <2>9. ASSUME NEW type \in Terminals, ForwardTerminal(q, type) PROVE \A x \in Subs : OnlyForward(x)
    BY <2>9, TerminalForward DEF ForwardTerminal
  <2> QED
    BY <1>1, <1>b, <2>1, <2>2, <2>3, <2>4, <2>5, <2>6, <2>7, <2>8, <2>9 DEF RequestStep
<1>2. ASSUME NEW s \in Subs, CancelSubmission(s) PROVE \A x \in Subs : OnlyForward(x)
  BY <1>a, <1>2 DEF CancelSubmission, CanGoTo, validSubmissionTransition, OnlyForward,
                    Undispatched, Final, SubRow
<1>3. ASSUME NEW s \in Subs, RetireSubmission(s) PROVE \A x \in Subs : OnlyForward(x)
  BY <1>a, <1>3 DEF RetireSubmission, OnlyForward, Undispatched, Final, SubRow
<1>4. CASE Restart
  BY <1>a, <1>4 DEF Restart, OnlyForward, Undispatched, Final, SubRow
<1>5. CASE RefreshDeliveryPressure \/ UNCHANGED vars
  BY <1>b, <1>5 DEF RefreshDeliveryPressure, journal, vars
<1> QED
  BY <1>1, <1>2, <1>3, <1>4, <1>5 DEF Next

-----------------------------------------------------------------------------
(* A request is only ever inside the section that the lock protects while  *)
(* it holds the lock.                                                      *)
LEMMA LockKept ==
  ASSUME TypeOK, RequestsNameSubs, LockIsHeld, [Next]_vars
  PROVE  LockIsHeld'
<1> USE SubmissionAssumption DEF TypeOK, LockIsHeld, LockedStages
<1>1. ASSUME NEW q \in Requests, RequestStep(q) PROVE LockIsHeld'
  <2>1. ASSUME NEW s \in Subs, handleWSPrompt(q, s) PROVE LockIsHeld'
    BY <2>1 DEF handleWSPrompt, process
  <2>2. CASE PutSubmission(q)
    BY <2>2 DEF PutSubmission, Goes, Ends, Idle, process
  <2>3. CASE AcceptSubmission(q)
    BY <2>3 DEF AcceptSubmission, Goes, Ends, Idle, process
  <2>4. CASE DispatchDeliverySubmission(q)
    BY <2>4 DEF DispatchDeliverySubmission, Goes
  <2>5. CASE prepareDispatch(q)
    BY <2>5 DEF prepareDispatch, Goes, Ends, Idle, Unlock
  <2>6. CASE StartDispatch(q)
    BY <2>6 DEF StartDispatch, Goes, Unlock
  <2>7. CASE CallHarness(q)
    BY <2>7 DEF CallHarness, Goes, process
  <2>8. CASE HarnessReturns(q)
    BY <2>8 DEF HarnessReturns, Goes
  <2>9. CASE CompleteDispatch(q)
    BY <2>9 DEF CompleteDispatch, Goes, Ends, Idle, Unlock
  <2>10. CASE handleDispatchError(q)
    BY <2>10 DEF handleDispatchError, ReportError, Settling, Goes, Ends, Idle, Unlock
  <2>11. CASE SettleDispatch(q)
    BY <2>11 DEF SettleDispatch, ReportError, Goes, Ends, Idle, Unlock
  <2>12. CASE SendErrorEvent(q)
    BY <2>12 DEF SendErrorEvent, Ends, Idle, process
  <2>13. CASE TurnEnds(q) \/ ForwardOutput(q) \/ \E type \in Terminals : ForwardTerminal(q, type)
    BY <2>13 DEF TurnEnds, ForwardOutput, ForwardTerminal, process
  <2> QED
    BY <1>1, <2>1, <2>2, <2>3, <2>4, <2>5, <2>6, <2>7, <2>8, <2>9, <2>10, <2>11, <2>12, <2>13
       DEF RequestStep
<1>2. ASSUME NEW s \in Subs, CancelSubmission(s) \/ RetireSubmission(s) PROVE LockIsHeld'
  BY <1>2 DEF CancelSubmission, RetireSubmission, process
<1>3. CASE Restart
  BY <1>3 DEF Restart, Idle
<1>4. CASE RefreshDeliveryPressure \/ UNCHANGED vars
  BY <1>4 DEF RefreshDeliveryPressure, vars
<1> QED
  BY <1>1, <1>2, <1>3, <1>4 DEF Next


-----------------------------------------------------------------------------
(* A request comes to the call along one path: it saw the submission       *)
(* accepted, then committed the dispatch.                                  *)
PathToCall(p) ==
  request'[p].stage \in {"transition", "call"} =>
    /\ request'[p].sub = request[p].sub
    /\ \/ request[p].stage = request'[p].stage
       \/ /\ request[p].stage = "prepare" /\ request'[p].stage = "transition"
          /\ sub[request[p].sub].state = "accepted" /\ calls' = calls
       \/ /\ request[p].stage = "transition" /\ request'[p].stage = "call"
          /\ sub'[request[p].sub].state = "dispatching" /\ calls' = calls

(* There is no other path to the call.                                     *)
LEMMA OnePathToCall ==
  ASSUME TypeOK, RequestsNameSubs, [Next]_vars
  PROVE  \A p \in Requests : PathToCall(p)
<1> USE DEF TypeOK, PathToCall
<1>a. ASSUME request' = request PROVE \A p \in Requests : PathToCall(p)
  BY <1>a
<1>1. ASSUME NEW q \in Requests, RequestStep(q) PROVE \A p \in Requests : PathToCall(p)
  <2>1. ASSUME NEW s \in Subs, handleWSPrompt(q, s) PROVE \A p \in Requests : PathToCall(p)
    BY <2>1 DEF handleWSPrompt
  <2>2. CASE PutSubmission(q)
    BY <2>2 DEF PutSubmission, Goes, Ends, Idle
  <2>3. CASE AcceptSubmission(q)
    BY <2>3 DEF AcceptSubmission, Goes, Ends, Idle
  <2>4. CASE DispatchDeliverySubmission(q)
    BY <2>4 DEF DispatchDeliverySubmission, Goes
  <2>5. CASE prepareDispatch(q)
    <3>1. \/ /\ Goes(q, "transition") /\ request[q].stage = "prepare"
             /\ sub[request[q].sub].state = "accepted" /\ calls' = calls
          \/ Ends(q) \/ Goes(q, "report")
      BY <2>5 DEF prepareDispatch, journal
    <3> QED
      BY <3>1 DEF Goes, Ends, Idle
  <2>6. CASE StartDispatch(q)
    <3>1. request[q].sub \in Subs
      BY <2>6 DEF StartDispatch, RequestsNameSubs
    <3> QED
      BY <2>6, <3>1 DEF StartDispatch, Goes, TransitionSubmission
  <2>7. CASE CallHarness(q)
    BY <2>7 DEF CallHarness, Goes
  <2>8. CASE HarnessReturns(q)
    BY <2>8 DEF HarnessReturns, Goes
  <2>9. CASE CompleteDispatch(q)
    BY <2>9 DEF CompleteDispatch, Goes, Ends, Idle
  <2>10. CASE handleDispatchError(q)
    BY <2>10 DEF handleDispatchError, ReportError, Settling, Goes, Ends, Idle
  <2>11. CASE SettleDispatch(q)
    <3>1. Ends(q) \/ Goes(q, "report")
      BY <2>11 DEF SettleDispatch, ReportError
    <3> QED
      BY <3>1 DEF Goes, Ends, Idle
  <2>12. CASE SendErrorEvent(q)
    BY <2>12 DEF SendErrorEvent, Ends, Idle
  <2>13. CASE TurnEnds(q) \/ ForwardOutput(q) \/ \E type \in Terminals : ForwardTerminal(q, type)
    BY <1>a, <2>13 DEF TurnEnds, ForwardOutput, ForwardTerminal
  <2> QED
    BY <1>1, <2>1, <2>2, <2>3, <2>4, <2>5, <2>6, <2>7, <2>8, <2>9, <2>10, <2>11, <2>12, <2>13
       DEF RequestStep
<1>2. ASSUME NEW s \in Subs, CancelSubmission(s) \/ RetireSubmission(s)
      PROVE  \A p \in Requests : PathToCall(p)
  BY <1>a, <1>2 DEF CancelSubmission, RetireSubmission
<1>3. CASE Restart
  BY <1>3 DEF Restart, Idle
<1>4. CASE RefreshDeliveryPressure \/ UNCHANGED vars
  BY <1>a, <1>4 DEF RefreshDeliveryPressure, vars
<1> QED
  BY <1>1, <1>2, <1>3, <1>4 DEF Next

(* Only a request that is about to call counts a call.                     *)
LEMMA OnlyHarnessCalls ==
  ASSUME [Next]_vars, calls' # calls
  PROVE  \E q \in Requests : CallHarness(q)
<1>1. ASSUME NEW q \in Requests, RequestStep(q) PROVE CallHarness(q)
  BY <1>1 DEF RequestStep, handleWSPrompt, PutSubmission, AcceptSubmission,
     DispatchDeliverySubmission, prepareDispatch, StartDispatch, HarnessReturns, TurnEnds,
     CompleteDispatch, handleDispatchError, SettleDispatch, SendErrorEvent, ForwardOutput,
     ForwardTerminal, journal
<1> QED
  BY <1>1 DEF Next, CancelSubmission, RetireSubmission, Restart, RefreshDeliveryPressure,
     journal, vars

-----------------------------------------------------------------------------
(* The invariant is inductive.                                             *)
LEMMA StepInv == Inv /\ [Next]_vars => Inv'
<1> SUFFICES ASSUME Inv, [Next]_vars PROVE Inv'
  OBVIOUS
<1>1. TypeOK' /\ RequestsNameSubs' /\ LockIsHeld'
  BY StepTypes, LockKept DEF Inv
<1>2. \A x \in Subs : OnlyForward(x)
  BY JournalForward DEF Inv
<1>3. \A p \in Requests : PathToCall(p)
  BY OnePathToCall DEF Inv
<1>4. CASE calls' = calls
  <2>1. UndispatchedNotCalled' /\ CalledAtMostOnce'
    BY <1>2, <1>4 DEF Inv, UndispatchedNotCalled, CalledAtMostOnce, OnlyForward
  <2>2. AboutToCall'
    <3> SUFFICES ASSUME NEW p \in Requests, request'[p].stage \in {"transition", "call"}
                 PROVE  /\ calls'[request'[p].sub] = 0
                        /\ request'[p].stage = "call" => sub'[request'[p].sub].state \notin Undispatched
      BY DEF AboutToCall
    <3>1. request'[p].sub = request[p].sub /\ request[p].sub \in Subs
      BY <1>1, <1>3 DEF PathToCall, RequestsNameSubs
    <3>2. calls[request[p].sub] = 0
      BY <1>3, <3>1 DEF PathToCall, Inv, AboutToCall, UndispatchedNotCalled, Undispatched
    <3>3. request'[p].stage = "call" => sub'[request[p].sub].state \notin Undispatched
      BY <1>2, <1>3, <3>1 DEF PathToCall, OnlyForward, Inv, AboutToCall, Undispatched
    <3> QED
      BY <1>4, <3>1, <3>2, <3>3
  <2> QED
    BY <1>1, <2>1, <2>2 DEF Inv
<1>5. CASE calls' # calls
  <2>1. PICK q \in Requests : CallHarness(q)
    BY <1>5, OnlyHarnessCalls
  <2> DEFINE s == request[q].sub
  <2>2. /\ s \in Subs /\ calls[s] = 0 /\ sub[s].state \notin Undispatched /\ lock = q
        /\ sub' = sub /\ calls' = [calls EXCEPT ![s] = 1]
    <3>1. request[q].stage = "call"
      BY <2>1 DEF CallHarness
    <3>2. s \in Subs /\ calls[s] = 0 /\ sub[s].state \notin Undispatched /\ lock = q
      BY <3>1 DEF Inv, RequestsNameSubs, AboutToCall, LockIsHeld, LockedStages
    <3> QED
      BY <2>1, <3>2 DEF CallHarness
  <2>3. UndispatchedNotCalled' /\ CalledAtMostOnce'
    BY <2>2 DEF Inv, TypeOK, UndispatchedNotCalled, CalledAtMostOnce
  <2>4. \A p \in Requests : request'[p].stage \notin {"transition", "call"}
    BY <1>5, <1>3, <2>1, <2>2
       DEF PathToCall, CallHarness, Goes, Inv, TypeOK, LockIsHeld, LockedStages
  <2> QED
    BY <1>1, <2>3, <2>4 DEF Inv, AboutToCall
<1> QED
  BY <1>4, <1>5

(* The system starts in the invariant: nothing is under way or called.     *)
LEMMA InitInv == Init => Inv
<1> SUFFICES ASSUME Init PROVE Inv
  OBVIOUS
<1>1. sub \in [Subs -> SubRow] /\ request \in [Requests -> RequestRow]
  BY SubmissionAssumption DEF Init, SubRow, RequestRow, Idle, States, Stages
<1>2. TypeOK
  <2>1. calls \in [Subs -> Nat] /\ generation \in 1..MaxGeneration /\ restarts \in 0..MaxRestarts
    BY SubmissionAssumption DEF Init
  <2>2. pressure \in BOOLEAN
    BY Zenon DEF Init
  <2> QED
    BY <1>1, <2>1, <2>2 DEF Init, TypeOK, SubRow, RequestRow
<1> QED
  BY <1>2 DEF Init, Inv, Idle, RequestsNameSubs, LockIsHeld, LockedStages, UndispatchedNotCalled,
              AboutToCall, CalledAtMostOnce

(* The inductive invariant holds.                                          *)
LEMMA SubmissionInvariant == Spec => []Inv
BY InitInv, StepInv, PTL DEF Spec

(***************************************************************************)
(* For any submissions, requests, generations and restarts: the variables  *)
(* keep their types, and the harness is called at most once for a          *)
(* submission.                                                             *)
(***************************************************************************)
THEOREM HarnessCalledOnce == Spec => [](TypeOK /\ CalledAtMostOnce)
<1>1. Inv => TypeOK /\ CalledAtMostOnce
  BY DEF Inv
<1> QED
  BY <1>1, SubmissionInvariant, PTL

(***************************************************************************)
(* Whichever of dispatcher, terminal event and cancellation records an     *)
(* outcome first, no later step of any of them, no retirement and no       *)
(* restart changes it or forgets its terminal event.                       *)
(***************************************************************************)
THEOREM OutcomesAreFinal == Spec => OutcomeIsFinal
<1> DEFINE Keeps(s) == /\ sub[s].state \in {"completed", "failed", "cancelled"} =>
                             sub'[s].state = sub[s].state
                       /\ sub[s].retained => sub'[s].retained
<1>1. Inv /\ [Next]_vars => [\A s \in Subs : Keeps(s)]_vars
  BY JournalForward DEF Inv, OnlyForward, Final
<1> QED
  BY <1>1, SubmissionInvariant, PTL DEF Spec, OutcomeIsFinal

=============================================================================
