-------------------------- MODULE MCQiweImageSend --------------------------
(* Small instances of QiweImageSend for TLC.                               *)
EXTENDS QiweImageSend, TLC

Symmetry == Permutations(Handlers) \cup Permutations(Workers)

(* Every scan that could change something infinitely often does so: the    *)
(* counterexample is then never a matter of unlucky timer ticks.           *)
StrongFairSpec ==
    FairSpec /\ \A u \in Workers : SF_vars(ClaimReadyWorkItem(u, WorkItems))

=============================================================================
