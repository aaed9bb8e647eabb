------------------------------ MODULE MCEvents ------------------------------
(* Model of `soroban events` for TLC: up to two --topic values of one to     *)
(* six segments, with at most one segment that is not a plain ScVal (so     *)
(* every position of the wildcard and of the bad segment, before, at and    *)
(* after the five-segment limit, occurs), up to two --id values, and up to  *)
(* two events in the response.                                              *)
EXTENDS Events, FiniteSets

MCTopicFilters ==
    {t \in UNION {[1..n -> Segments] : n \in 1..6} :
        Cardinality({i \in DOMAIN t : t[i] # "v"}) <= 1}
MCMaxTopics == 2
MCMaxIds == 2
MCMaxEvents == 2
=============================================================================
