------------------------------ MODULE OnceGate ------------------------------
(***************************************************************************)
(* What every guarded outbound worker of Qintopia Agent OS promises about  *)
(* one externally visible effect (a group message, a welcome, a model      *)
(* call): a job stays `closed` while nothing may leave the process; a      *)
(* durable gate is opened at most once; while or after the gate is open at *)
(* most one request leaves; and the recorded outcome never claims more     *)
(* than what is known.                                                     *)
(*                                                                         *)
(* The module is an abstract specification: the components implement it    *)
(* through a refinement mapping (see QiweImageSend and SpaceAutomation).   *)
(***************************************************************************)
EXTENDS Naturals

CONSTANT Jobs

VARIABLE job

Phases == {"closed", "open", "sent", "denied", "unknown"}

JobState == [phase : Phases, gate : BOOLEAN, calls : 0..1, effect : 0..1]

Closed == [phase |-> "closed", gate |-> FALSE, calls |-> 0, effect |-> 0]

Init == job = [j \in Jobs |-> Closed]

-----------------------------------------------------------------------------
(* The steps of one job, as relations between its state s and its next     *)
(* state t.                                                                *)

\* The durable gate: committed before the external request.
Open(s, t) ==
    /\ s.phase = "closed"
    /\ t = [phase |-> "open", gate |-> TRUE, calls |-> s.calls, effect |-> s.effect]

\* The one request.  It may leave late, after the gate was reconciled.
Call(s, t) ==
    /\ s.gate
    /\ s.phase \in {"open", "unknown"}
    /\ s.calls = 0
    /\ \E e \in 0..1 :
          t = [phase |-> s.phase, gate |-> TRUE, calls |-> 1, effect |-> e]

\* Success is recorded only when the effect happened.
Confirm(s, t) ==
    /\ s.phase = "open"
    /\ s.effect = 1
    /\ t = [s EXCEPT !.phase = "sent"]

\* A denial is definite: no request left and none will.
Deny(s, t) ==
    /\ s.phase \in {"closed", "open"}
    /\ s.calls = 0
    /\ t = [s EXCEPT !.phase = "denied"]

\* Giving up without knowing.
GiveUp(s, t) ==
    /\ s.phase \in {"closed", "open"}
    /\ t = [s EXCEPT !.phase = "unknown"]

JobStep(s, t) ==
    Open(s, t) \/ Call(s, t) \/ Confirm(s, t) \/ Deny(s, t) \/ GiveUp(s, t)

\* One database transaction may settle several jobs at once.
Next ==
    /\ job' \in [Jobs -> JobState]
    /\ \A j \in Jobs : job'[j] = job[j] \/ JobStep(job[j], job'[j])

Spec == Init /\ [][Next]_job

=============================================================================
