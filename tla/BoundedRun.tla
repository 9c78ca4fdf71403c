----------------------------- MODULE BoundedRun -----------------------------
(***************************************************************************)
(* What `run` in agent/loop.py promises about its own length.  Only the    *)
(* control of the turn loop and the counter of agent/guard.py are kept:    *)
(* which tools run, what they return and how memory is compacted are all   *)
(* abstracted away.  AgentLoop implements this specification.              *)
(***************************************************************************)
EXTENDS Naturals

CONSTANTS
    Ceiling,     \* CallGuard's ceiling, --max-calls on the command line
    MaxBatch     \* most tool calls the model returns in one turn (a bound)

ASSUME CeilingAssumption == Ceiling \in Nat
ASSUME BatchAssumption == MaxBatch \in Nat \ {0}

VARIABLES
    phase,       \* where the `while True` of run stands
    calls,       \* CallGuard._calls
    left,        \* calls of the current turn still to dispatch
    outcome      \* how run returned; "crashed" when an exception left it

vars == <<phase, calls, left, outcome>>

Outcomes == {"none", "finished", "answered", "aborted", "crashed"}

TypeOK ==
    /\ phase \in {"turn", "dispatch", "over"}
    /\ calls \in Nat
    /\ left \in 0 .. MaxBatch
    /\ outcome \in Outcomes

Init ==
    /\ phase = "turn"
    /\ calls = 0
    /\ left = 0
    /\ outcome = "none"

-----------------------------------------------------------------------------
(* Faulty variants, substituted for a definition to see a property fail:   *)
(* a failed call escapes the count; check() is off by one.                 *)
RecordOnSuccessOnly == calls' \in {calls, calls + 1}
TrippedOneLate == calls > Ceiling

(* CallGuard.record, and the condition on which CallGuard.check raises.    *)
Record == calls' = calls + 1

Tripped == calls >= Ceiling

(* Leaving `run`, by a return or by an exception nothing catches.          *)
End(how) ==
    /\ phase' = "over"
    /\ outcome' = how

-----------------------------------------------------------------------------
(* The guard trips at the top of a turn.                                   *)
Abort ==
    /\ phase = "turn"
    /\ Tripped
    /\ End("aborted")
    /\ UNCHANGED <<calls, left>>

(* The model answers the turn with n tool calls.                           *)
AskForCalls(n) ==
    /\ phase = "turn"
    /\ ~Tripped
    /\ left' = n
    /\ phase' = "dispatch"
    /\ UNCHANGED <<calls, outcome>>

(* The model answers with text only, or the adapter raises.                *)
EndAtModel ==
    /\ phase = "turn"
    /\ ~Tripped
    /\ End("answered") \/ End("crashed")
    /\ UNCHANGED <<calls, left>>

(* One call is counted, then dispatched; an escaping exception ends run.   *)
Dispatch ==
    /\ phase = "dispatch"
    /\ left > 0
    /\ Record
    /\ left' = left - 1
    /\ (UNCHANGED <<phase, outcome>>) \/ End("crashed")

(* The batch is done: another turn, or the return after `finish`.          *)
CloseTurn ==
    /\ phase = "dispatch"
    /\ left = 0
    /\ \/ phase' = "turn" /\ UNCHANGED outcome
       \/ End("finished")
    /\ UNCHANGED <<calls, left>>

(* A run that is over stays as it is.                                      *)
Over ==
    /\ phase = "over"
    /\ UNCHANGED vars

Next ==
    \/ Abort
    \/ \E n \in 1 .. MaxBatch : AskForCalls(n)
    \/ EndAtModel
    \/ Dispatch
    \/ CloseTurn
    \/ Over

SafeSpec == Init /\ [][Next]_vars

(***************************************************************************)
(* `run` is one thread that never waits on another: while it is not over   *)
(* its next statement is executed.  The one assumption is that the model   *)
(* call and the tools return or raise.                                     *)
(***************************************************************************)
Spec == SafeSpec /\ WF_vars(Next)

-----------------------------------------------------------------------------
(* The overshoot of the ceiling is less than one batch: the guard is only  *)
(* consulted between turns (loop.py:117), so the calls already requested   *)
(* in the turn that reaches the ceiling still run, and no further turn.    *)
CallsBounded == calls + left < Ceiling + MaxBatch

(* A run that reports the ceiling did spend it, and one that ends by the   *)
(* model's own decision spent less before its last turn: the three ways of *)
(* returning of loop.py:120, 128 and 157 are told apart by the counter.    *)
OutcomeAgreesWithCount ==
    /\ outcome = "aborted" => calls >= Ceiling
    /\ outcome = "answered" => calls < Ceiling
    /\ outcome = "finished" => calls > 0
    /\ (phase = "over") <=> (outcome # "none")
=============================================================================
