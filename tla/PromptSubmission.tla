--------------------------- MODULE PromptSubmission ---------------------------
(***************************************************************************)
(* Prompts in agentctl.  A prompt is a submission in the journal; it is    *)
(* admitted, dispatched to the harness under a lock, and settled by three  *)
(* writers that do not wait for each other: the dispatcher when the call   *)
(* returns, the event forwarder when the harness's terminal event arrives, *)
(* and a cancellation.  Requests repeat, agentctl restarts between any two *)
(* commits, and a failed write of an event blocks the admission.           *)
(***************************************************************************)
EXTENDS Naturals, FiniteSets

CONSTANTS
  Subs, NoSub,
  Requests, NoRequest,   \* prompt requests; each has a prompt generation of its own
  MaxGeneration,         \* bound: harness generations
  MaxRestarts            \* bound: restarts of agentctl

ASSUME SubmissionAssumption ==
  /\ NoSub \notin Subs /\ NoRequest \notin Requests
  /\ MaxGeneration \in Nat \ {0} /\ MaxRestarts \in Nat

VARIABLES
  sub,         \* the journal's submissions
  generation,  \* this agentctl's harness generation
  request,     \* the prompt requests under way
  lock,        \* deliverySubmissionMu
  active,      \* deliveryActiveID
  tracked,     \* deliveryPromptByGeneration
  turns,       \* turns that run on after their call has returned
  emitted,     \* terminal events the forwarder has not taken yet
  failed,      \* deliveryFailedSubmissionID: the failure that blocks admission
  pressure,    \* the journal is short of room
  calls,       \* how often the harness was called
  restarts

vars == <<sub, generation, request, lock, active, tracked, turns, emitted, failed, pressure,
          calls, restarts>>

States == {"absent", "prepared", "accepted", "dispatching",
           "completed", "failed", "cancelled", "interrupted_unknown"}

Stages == {"idle", "put", "accept", "lock", "prepare", "transition", "call", "calling",
           "returned", "known_failure", "uncertain", "abandoned",
           "settle_failed", "settle_unknown", "settle_abandoned", "report"}

Terminals == {"complete", "error"}

(* Every variable has its type.                                            *)
TypeOK ==
  /\ sub \in [Subs -> [state : States, retained : BOOLEAN, retired : BOOLEAN,
                       generation : 0..MaxGeneration]]
  /\ generation \in 1..MaxGeneration
  /\ request \in [Requests -> [stage : Stages, sub : Subs \cup {NoSub}]]
  /\ lock \in Requests \cup {NoRequest} /\ active \in Subs \cup {NoSub}
  /\ tracked \in [Requests -> Subs \cup {NoSub}]
  /\ turns \subseteq Requests /\ emitted \subseteq Requests \X Terminals
  /\ failed \in Subs \cup {NoSub} /\ pressure \in BOOLEAN
  /\ calls \in [Subs -> Nat] /\ restarts \in 0..MaxRestarts

Idle == [stage |-> "idle", sub |-> NoSub]

Init ==
  /\ sub = [s \in Subs |-> [state |-> "absent", retained |-> FALSE, retired |-> FALSE,
                            generation |-> 0]]
  /\ generation = 1
  /\ request = [q \in Requests |-> Idle]
  /\ lock = NoRequest /\ active = NoSub
  /\ tracked = [q \in Requests |-> NoSub]
  /\ turns = {} /\ emitted = {}
  /\ failed = NoSub /\ pressure = FALSE
  /\ calls = [s \in Subs |-> 0] /\ restarts = 0

-----------------------------------------------------------------------------
(* What the journal says of a submission.                                  *)
HasUnprovenOutcome(r) ==
  \/ r.state = "interrupted_unknown"
  \/ ~r.retained /\ r.state \in {"completed", "failed", "cancelled"}

submissionNeedsRecovery(r) ==
  /\ ~(r.retired /\ HasUnprovenOutcome(r))
  /\ \/ r.state \in {"prepared", "accepted", "dispatching", "interrupted_unknown"}
     \/ r.state = "completed" /\ ~r.retained

Unresolved == \E s \in Subs : submissionNeedsRecovery(sub[s])

(* An outcome that a later report may still improve on.                    *)
LastReportWins(from, to) ==
  \/ from = to
  \/ from = "prepared" /\ to \in {"accepted", "cancelled"}
  \/ from = "accepted" /\ to \in {"dispatching", "cancelled"}
  \/ /\ from \in {"dispatching", "failed", "cancelled"}
     /\ to \in {"completed", "failed", "cancelled", "interrupted_unknown"}
  \/ from = "interrupted_unknown" /\ to = "cancelled"

validSubmissionTransition(from, to) ==
  \/ from = to
  \/ from = "prepared" /\ to \in {"accepted", "cancelled"}
  \/ from = "accepted" /\ to \in {"dispatching", "cancelled"}
  \/ from = "dispatching" /\ to \in {"completed", "failed", "cancelled", "interrupted_unknown"}
  \/ from = "interrupted_unknown" /\ to = "cancelled"

CanGoTo(s, to) == validSubmissionTransition(sub[s].state, to)

TransitionSubmission(s, to) == sub' = [sub EXCEPT ![s].state = to]

deliveryBlocked == failed # NoSub \/ pressure

-----------------------------------------------------------------------------
(* Admission of a prompt.                                                  *)
Goes(q, stage) == request' = [request EXCEPT ![q].stage = stage]
Ends(q) == request' = [request EXCEPT ![q] = Idle]

journal == <<sub, calls>>
process == <<generation, lock, active, turns, emitted, pressure, restarts>>

handleWSPrompt(q, s) ==
  /\ request[q].stage = "idle" /\ q \notin turns \cup {e[1] : e \in emitted}
  /\ ~Unresolved
  /\ request' = [request EXCEPT ![q] = [stage |-> "put", sub |-> s]]
  /\ UNCHANGED <<journal, process, tracked, failed>>

PutSubmission(q) ==
  LET s == request[q].sub
      r == sub[s]
  IN  /\ request[q].stage = "put"
      /\ \/ /\ deliveryBlocked \/ r.retired
            /\ Ends(q) /\ UNCHANGED <<sub, tracked>>
         \/ /\ ~deliveryBlocked /\ r.state = "absent"
            /\ sub' = [sub EXCEPT ![s].state = "prepared", ![s].generation = generation]
            /\ Goes(q, "accept") /\ UNCHANGED tracked
         \/ /\ ~deliveryBlocked /\ ~r.retired /\ r.state = "prepared"
            /\ Goes(q, "accept") /\ UNCHANGED <<sub, tracked>>
         \/ /\ ~deliveryBlocked /\ ~r.retired /\ r.state = "accepted"
            /\ tracked' = [tracked EXCEPT ![q] = s]
            /\ Goes(q, "lock") /\ UNCHANGED sub
         \/ /\ ~deliveryBlocked /\ ~r.retired /\ r.state \notin {"absent", "prepared", "accepted"}
            /\ tracked' = [tracked EXCEPT ![q] = s]
            /\ Ends(q) /\ UNCHANGED sub
      /\ UNCHANGED <<calls, process, failed>>

AcceptSubmission(q) ==
  LET s == request[q].sub
  IN  /\ request[q].stage = "accept"
      /\ \/ /\ CanGoTo(s, "accepted")
            /\ TransitionSubmission(s, "accepted")
            /\ tracked' = [tracked EXCEPT ![q] = s]
            /\ Goes(q, "lock")
         \/ ~CanGoTo(s, "accepted") /\ Ends(q) /\ UNCHANGED <<sub, tracked>>
      /\ UNCHANGED <<calls, process, failed>>

-----------------------------------------------------------------------------
(* Dispatch: one request at a time, from the lock to the settlement.       *)
dispatcher == <<generation, turns, emitted, pressure, restarts>>

Unlock == lock' = NoRequest /\ active' = NoSub

(* The lock covers neither the check of the state nor the call.            *)
DispatchUnlocked(q) ==
  /\ request[q].stage = "lock"
  /\ \/ deliveryBlocked /\ Goes(q, "report") /\ UNCHANGED <<lock, active>>
     \/ ~deliveryBlocked /\ Goes(q, "prepare") /\ lock' = q /\ active' = request[q].sub
  /\ UNCHANGED <<journal, dispatcher, tracked, failed>>

DispatchDeliverySubmission(q) ==
  /\ request[q].stage = "lock" /\ lock = NoRequest
  /\ \/ deliveryBlocked /\ Goes(q, "report") /\ UNCHANGED <<lock, active>>
     \/ ~deliveryBlocked /\ Goes(q, "prepare") /\ lock' = q /\ active' = request[q].sub
  /\ UNCHANGED <<journal, dispatcher, tracked, failed>>

prepareDispatch(q) ==
  LET r == sub[request[q].sub]
  IN  /\ request[q].stage = "prepare"
      /\ \/ /\ ~r.retired /\ r.state = "accepted"
            /\ Goes(q, "transition") /\ UNCHANGED <<lock, active>>
         \/ /\ ~r.retired /\ r.state \in {"completed", "failed", "cancelled"}
            /\ Ends(q) /\ Unlock
         \/ /\ r.retired \/ r.state \notin {"accepted", "completed", "failed", "cancelled"}
            /\ Goes(q, "report") /\ Unlock
      /\ UNCHANGED <<journal, dispatcher, tracked, failed>>

StartDispatch(q) ==
  LET s == request[q].sub
  IN  /\ request[q].stage = "transition"
      /\ \/ /\ CanGoTo(s, "dispatching")
            /\ TransitionSubmission(s, "dispatching")
            /\ Goes(q, "call") /\ UNCHANGED <<lock, active>>
         \/ /\ ~CanGoTo(s, "dispatching")
            /\ Goes(q, "report") /\ Unlock /\ UNCHANGED sub
      /\ UNCHANGED <<calls, dispatcher, tracked, failed>>

CallHarness(q) ==
  /\ request[q].stage = "call"
  /\ calls' = [calls EXCEPT ![request[q].sub] = @ + 1]
  /\ Goes(q, "calling")
  /\ UNCHANGED <<sub, process, tracked, failed>>

(* An adapter emits the terminal event and returns, returns and emits it   *)
(* when the turn ends, or returns an error and emits nothing.              *)
HarnessReturns(q) ==
  /\ request[q].stage = "calling"
  /\ \/ \E type \in Terminals :
          /\ emitted' = emitted \cup {<<q, type>>}
          /\ Goes(q, "returned") /\ UNCHANGED turns
     \/ turns' = turns \cup {q} /\ Goes(q, "returned") /\ UNCHANGED emitted
     \/ \E stage \in {"known_failure", "uncertain", "abandoned"} :
          Goes(q, stage) /\ UNCHANGED <<turns, emitted>>
  /\ UNCHANGED <<journal, generation, lock, active, pressure, restarts, tracked, failed>>

TurnEnds(q) ==
  /\ q \in turns
  /\ turns' = turns \ {q}
  /\ \E type \in Terminals : emitted' = emitted \cup {<<q, type>>}
  /\ UNCHANGED <<journal, request, generation, lock, active, pressure, restarts, tracked, failed>>

CompleteDispatch(q) ==
  LET s == request[q].sub
  IN  /\ request[q].stage = "returned"
      /\ \/ CanGoTo(s, "completed") /\ TransitionSubmission(s, "completed") /\ Ends(q)
         \/ ~CanGoTo(s, "completed") /\ Goes(q, "report") /\ UNCHANGED sub
      /\ Unlock
      /\ UNCHANGED <<calls, dispatcher, tracked, failed>>

(* A prompt that the adapter gave up on after a cancellation reports no    *)
(* error, unless its outcome could not be recorded.                        *)
ReportError(q) ==
  IF request[q].stage \in {"abandoned", "settle_abandoned"} THEN Ends(q) ELSE Goes(q, "report")

Settling(stage) ==
  CASE stage = "known_failure" -> "settle_failed"
    [] stage = "uncertain" -> "settle_unknown"
    [] stage = "abandoned" -> "settle_abandoned"

handleDispatchError(q) ==
  LET r == sub[request[q].sub]
  IN  /\ request[q].stage \in {"known_failure", "uncertain", "abandoned"}
      /\ \/ r.retained /\ r.state = "completed" /\ Ends(q) /\ Unlock
         \/ r.retained /\ r.state \in {"failed", "cancelled"} /\ ReportError(q) /\ Unlock
         \/ /\ ~(r.retained /\ r.state \in {"completed", "failed", "cancelled"})
            /\ Goes(q, Settling(request[q].stage)) /\ UNCHANGED <<lock, active>>
      /\ UNCHANGED <<journal, dispatcher, tracked, failed>>

SettleDispatch(q) ==
  LET s == request[q].sub
      outcome == IF request[q].stage = "settle_failed" THEN "failed" ELSE "interrupted_unknown"
  IN  /\ request[q].stage \in {"settle_failed", "settle_unknown", "settle_abandoned"}
      /\ \/ CanGoTo(s, outcome) /\ TransitionSubmission(s, outcome) /\ ReportError(q)
         \/ ~CanGoTo(s, outcome) /\ Goes(q, "report") /\ UNCHANGED sub
      /\ Unlock
      /\ UNCHANGED <<calls, dispatcher, tracked, failed>>

-----------------------------------------------------------------------------
(* Terminal events: the submission is the one the prompt generation is     *)
(* tracked for, or else the one being dispatched.                          *)
SubmissionForEvent(q) == IF tracked[q] # NoSub THEN tracked[q] ELSE active

OutcomeOf(type) == IF type = "complete" THEN "completed" ELSE "failed"

(* markSubmissionTerminalTx refuses a second terminal and another owner's; *)
(* a refused write blocks admission, a committed terminal releases it.     *)
persistTerminal(q, type) ==
  LET s == SubmissionForEvent(q)
  IN  /\ tracked' = [tracked EXCEPT ![q] = NoSub]
      /\ \/ s = NoSub /\ failed' = NoSub /\ UNCHANGED sub
         \/ /\ s # NoSub
            /\ sub[s].retained \/ sub[s].generation # generation
            /\ failed' = s /\ UNCHANGED sub
         \/ /\ s # NoSub
            /\ ~sub[s].retained /\ sub[s].generation = generation
            /\ failed' = NoSub
            /\ sub' = [sub EXCEPT ![s].retained = TRUE,
                 ![s].state = IF @ = "dispatching" /\ ~sub[s].retired THEN OutcomeOf(type) ELSE @]

ForwardTerminal(q, type) ==
  /\ <<q, type>> \in emitted
  /\ emitted' = emitted \ {<<q, type>>}
  /\ persistTerminal(q, type)
  /\ UNCHANGED <<calls, request, generation, lock, active, turns, pressure, restarts>>

(* Output of another submission than the failed one shows a usable writer. *)
ForwardOutput(q) ==
  /\ request[q].stage = "calling" \/ q \in turns
  /\ failed # NoSub /\ SubmissionForEvent(q) \notin {NoSub, failed}
  /\ failed' = NoSub
  /\ UNCHANGED <<journal, request, process, tracked>>

SendErrorEvent(q) ==
  /\ request[q].stage = "report"
  /\ persistTerminal(q, "error")
  /\ Ends(q)
  /\ UNCHANGED <<calls, process>>

(* A cancellation and its terminal event are one commit.                   *)
CancelSubmission(s) ==
  /\ sub[s].state # "absent" /\ sub[s].generation = generation
  /\ ~sub[s].retained /\ sub[s].state \notin {"completed", "failed"}
  /\ CanGoTo(s, "cancelled")
  /\ sub' = [sub EXCEPT ![s].state = "cancelled", ![s].retained = TRUE]
  /\ UNCHANGED <<calls, request, process, tracked, failed>>

RetireSubmission(s) ==
  /\ lock = NoRequest
  /\ sub[s].state # "absent" /\ ~sub[s].retired
  /\ \/ sub[s].generation < generation
     \/ sub[s].generation = generation /\ HasUnprovenOutcome(sub[s])
  /\ sub' = [sub EXCEPT ![s].retired = TRUE,
       ![s].state = IF @ \in {"prepared", "accepted", "dispatching"}
                    THEN "interrupted_unknown" ELSE @]
  /\ UNCHANGED <<calls, request, process, tracked, failed>>

(* A new agentctl opens the journal and classifies what was dispatching.   *)
Restart ==
  /\ restarts < MaxRestarts /\ restarts' = restarts + 1
  /\ generation' \in {generation, generation + 1} /\ generation' <= MaxGeneration
  /\ sub' = [s \in Subs |->
       IF sub[s].state = "dispatching" THEN [sub[s] EXCEPT !.state = "interrupted_unknown"]
                                       ELSE sub[s]]
  /\ request' = [q \in Requests |-> Idle]
  /\ lock' = NoRequest /\ active' = NoSub
  /\ tracked' = [q \in Requests |-> NoSub]
  /\ turns' = {} /\ emitted' = {} /\ failed' = NoSub
  /\ UNCHANGED <<calls, pressure>>

RefreshDeliveryPressure ==
  /\ pressure' = ~pressure
  /\ UNCHANGED <<journal, request, generation, lock, active, tracked, turns, emitted, failed, restarts>>

-----------------------------------------------------------------------------
RequestStep(q) ==
  \/ \E s \in Subs : handleWSPrompt(q, s)
  \/ PutSubmission(q) \/ AcceptSubmission(q)
  \/ DispatchDeliverySubmission(q) \/ prepareDispatch(q) \/ StartDispatch(q)
  \/ CallHarness(q) \/ HarnessReturns(q) \/ TurnEnds(q)
  \/ CompleteDispatch(q) \/ handleDispatchError(q) \/ SettleDispatch(q) \/ SendErrorEvent(q)
  \/ ForwardOutput(q)
  \/ \E type \in Terminals : ForwardTerminal(q, type)

Next ==
  \/ \E q \in Requests : RequestStep(q)
  \/ \E s \in Subs : CancelSubmission(s) \/ RetireSubmission(s)
  \/ Restart \/ RefreshDeliveryPressure

Spec == Init /\ [][Next]_vars

-----------------------------------------------------------------------------
(***************************************************************************)
(* The harness is called at most once for a submission, though requests    *)
(* repeat it, overlap, fail halfway, and agentctl restarts after any       *)
(* commit: an agent never gets the same prompt twice.                      *)
(***************************************************************************)
CalledAtMostOnce == \A s \in Subs : calls[s] <= 1

(***************************************************************************)
(* An outcome is final: whichever of dispatcher, terminal event and        *)
(* cancellation records it first, the others leave it alone, and a         *)
(* terminal event once retained is not forgotten.                          *)
(***************************************************************************)
OutcomeIsFinal ==
  [][\A s \in Subs :
       /\ sub[s].state \in {"completed", "failed", "cancelled"} => sub'[s].state = sub[s].state
       /\ sub[s].retained => sub'[s].retained]_vars
=============================================================================
