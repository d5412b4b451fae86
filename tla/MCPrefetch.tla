----------------------------- MODULE MCPrefetch -----------------------------
(* A module of six functions: a diamond, a cycle back to the trigger, which *)
(* is no longer pending, and one function already cached.                   *)
EXTENDS Prefetch, TLC

CONSTANTS a, b, c, d, e, g

MCCallGraph ==
    a :> <<b, c, e, g>> @@ b :> <<d>> @@ c :> <<d, a>> @@
    d :> <<b, d>> @@ e :> <<>> @@ g :> <<>>

MCPending == {b, c, d, e, g}
=============================================================================
