------------------------- MODULE MCResidentWelcome -------------------------
(* The three parts of the resident welcome in one model.  They meet at       *)
(* version numbers only (the snapshot a case is built from, the gate in      *)
(* front of a delivery), and each part changes those by actions of its own;  *)
(* so a behaviour explores one part, chosen by focus, with the other two at  *)
(* rest.                                                                     *)
EXTENDS WelcomeSource, WelcomeDelivery, WelcomeReview, TLC

VARIABLE focus  \* the part this behaviour explores

Init ==
    /\ focus \in {"source", "delivery", "review"}
    /\ SourceInit /\ DeliveryInit /\ ReviewInit
    /\ focus # "review" => appPerson = Nobody

Source == focus = "source" /\ SourceNext /\ UNCHANGED <<focus, dvars, rvars>>
Delivery == focus = "delivery" /\ DeliveryNext /\ UNCHANGED <<focus, svars, rvars>>
ReviewPart == focus = "review" /\ ReviewNext /\ UNCHANGED <<focus, svars, dvars>>

Next == Source \/ Delivery \/ ReviewPart

Spec == Init /\ [][Next]_<<focus, svars, dvars, rvars>>

\* Workers and persons are interchangeable.
Symmetric == {[w \in WWorkers |-> f[w]] @@ [p \in People |-> g[p]] :
                 f \in Permutations(WWorkers), g \in Permutations(People)}
=============================================================================
