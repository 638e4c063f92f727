----------------------------- MODULE MCDeployment -----------------------------
(***************************************************************************)
(* Instances of Deployment for TLC: two jobs, at the same time or one      *)
(* after the other, that choose or are given the same or different numbers *)
(* and publish the same or different builds.                               *)
(***************************************************************************)
EXTENDS Deployment

CONSTANTS j1, j2

Deploy(n, g) == [kind |-> "testflight", number |-> n, group |-> g, issuer |-> TRUE]
AdHoc == [kind |-> "adhoc", number |-> Automatic, group |-> "none", issuer |-> TRUE]
NoIssuer(n) == [Deploy(n, "none") EXCEPT !.issuer = FALSE]
Both(a, b) == [j \in {j1, j2} |-> IF j = j1 THEN a ELSE b]

Pairs ==
    {Both(Deploy(Automatic, "review"), Deploy(1, "internal")), Both(Deploy(Automatic, "external"), Deploy(2, "none")),
     Both(AdHoc, NoIssuer(1)), Both(AdHoc, NoIssuer(Automatic))}
Retried == {Both(Deploy(Automatic, "none"), Deploy(Automatic, "none"))}
=============================================================================
