------------------------------ MODULE Publication ------------------------------
(***************************************************************************)
(* What a TestFlight deployment promises, without how it talks to App      *)
(* Store Connect: a build becomes valid, and only then is it given to      *)
(* testers and to Apple's reviewers, in that order and once; a deployment  *)
(* reports success only for a build number whose build got as far as its   *)
(* configuration asks, and reports once.                                   *)
(***************************************************************************)
CONSTANTS
    Jobs,      \* the deployments; a build is named by the one that uploaded it
    Numbers,   \* the build numbers
    None       \* no build number yet

VARIABLES
    config,    \* what the deployment is to do
    number,    \* the build number it settled on
    valid,     \* the builds App Store Connect has processed as VALID, by number
    offered,   \* the builds in the beta group
    reviewed,  \* the builds submitted for beta review
    waived,    \* the deployments that found review prerequisites missing
    report     \* what each has reported

abstractVars == <<config, number, valid, offered, reviewed, waived, report>>

TestFlight(j) == config[j].kind = "testflight"

\* The build is where the deployment's configuration wants it.
Delivered(j, b) ==
    /\ b \in valid /\ number[b] = number[j]
    /\ config[j].group # "none" => b \in offered
    /\ config[j].group = "review" => b \in reviewed \/ j \in waived

Init ==
    /\ number = [j \in Jobs |-> None]
    /\ valid = {} /\ offered = {} /\ reviewed = {} /\ waived = {}
    /\ report = [j \in Jobs |-> "none"]

\* A running deployment settles on its number, once.
Settle(j) ==
    /\ report[j] = "none" /\ number[j] = None
    /\ \E n \in Numbers : number' = [number EXCEPT ![j] = n]
    /\ UNCHANGED <<config, valid, offered, reviewed, waived, report>>

Validate(b) ==
    /\ b \notin valid /\ number[b] # None /\ valid' = valid \cup {b}
    /\ UNCHANGED <<config, number, offered, reviewed, waived, report>>

Offer(b) ==
    /\ b \in valid \ offered /\ offered' = offered \cup {b}
    /\ UNCHANGED <<config, number, valid, reviewed, waived, report>>

Submit(b) ==
    /\ b \in offered \ reviewed /\ reviewed' = reviewed \cup {b}
    /\ UNCHANGED <<config, number, valid, offered, waived, report>>

Waive(j) ==
    /\ j \notin waived /\ waived' = waived \cup {j}
    /\ UNCHANGED <<config, number, valid, offered, reviewed, report>>

Succeed(j) ==
    /\ report[j] = "none" /\ (TestFlight(j) => \E b \in Jobs : Delivered(j, b))
    /\ report' = [report EXCEPT ![j] = "ok"]
    /\ UNCHANGED <<config, number, valid, offered, reviewed, waived>>

Fail(j) ==
    /\ report[j] = "none" /\ report' = [report EXCEPT ![j] = "failed"]
    /\ UNCHANGED <<config, number, valid, offered, reviewed, waived>>

Next == \E j \in Jobs :
    Settle(j) \/ Validate(j) \/ Offer(j) \/ Submit(j) \/ Waive(j) \/ Succeed(j) \/ Fail(j)

Spec == Init /\ [][Next]_abstractVars
=============================================================================
