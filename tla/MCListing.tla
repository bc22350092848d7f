------------------------------ MODULE MCListing ------------------------------
(* Values of the constants of Listing for TLC. *)
EXTENDS ListingInvariant

EveryWay == {MsDynamics, Outreach, IntercomSearch, IntercomCompanies, Linear, Salesloft,
             Pipedrive, ApolloSequences, GongTranscripts, Salesforce, Hubspot}

(* Its listings say which records are deleted, so a ghost can bring records back. *)
OneWay == {Salesforce}

=============================================================================
