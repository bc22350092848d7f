------------------------------ MODULE MCTokens ------------------------------
(* Values of the constants of TokenRefresh for TLC. *)
EXTENDS TokenRefresh, TLC

CONSTANTS x1, x2, p1, p2

TwoClients == {x1, x2}
TwoCalls == {p1, p2}
Interchangeable == Permutations(TwoClients) \cup Permutations(TwoCalls)

(* Pipedrive's client does nothing that Hubspot's does not do. *)
AllPolicies == {Hubspot, Gong, Outreach, Salesloft, MsDynamics, Salesforce, Pardot, Marketo}
(* Salesforce and Pardot keep the refresh token they were shown. *)
RotatingPolicies == {q \in AllPolicies : q.returns} \ {Pardot}

=============================================================================
