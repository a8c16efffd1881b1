---------------------------- MODULE MCRunServer ----------------------------
(***************************************************************************)
(* The configurations of flintlockd that the TLC runs of RunServer start   *)
(* from.  The HTTP gateway needs the API it forwards to.                   *)
(***************************************************************************)
EXTENDS RunServer

\* The controllers alone, the API behind its gateway, and every pair in which a
\* failure of one component has to bring down the other.
SmallConfigs ==
  {{"controllers"}, {"api", "gateway"}, {"pprof", "api"}, {"pprof", "controllers"},
   {"api", "controllers"}}

OnlyControllers == {{"controllers"}}

=============================================================================
