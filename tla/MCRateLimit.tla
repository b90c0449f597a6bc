------------------------------ MODULE MCRateLimit ------------------------------
(***************************************************************************)
(* Small instances of RateLimit for TLC: the shape of DEFAULT_POLICIES, an  *)
(* exact route with a narrow limit above a wider policy that covers all.    *)
(***************************************************************************)
EXTENDS RateLimit

MCPolicies ==
    <<[limit |-> 1, seconds |-> 1, covers |-> {"explanation"}],
      [limit |-> 1, seconds |-> 2, covers |-> {"explanation", "write"}]>>
OnePolicy == <<[limit |-> 1, seconds |-> 2, covers |-> {"analyze"}]>>
MCRoutes == {"explanation", "write", "health"}
OneRoute == {"analyze"}
=============================================================================
