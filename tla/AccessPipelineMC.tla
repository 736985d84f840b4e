-------------------------- MODULE AccessPipelineMC --------------------------
(***************************************************************************)
(* Instances of AccessPipeline for TLC.                                    *)
(***************************************************************************)
EXTENDS AccessPipeline, TLC

CONSTANTS r1, r2, read, nolimit

Handler(needAuth, scopes, limit) ==
  [needAuth |-> needAuth, scopes |-> scopes, limit |-> limit]

(* A handler with NeedAuth and a scope, and one open to everybody, with    *)
(* limits that two requests can reach.                                     *)
SomeHandlers == {Handler(TRUE, {read}, 1), Handler(FALSE, {}, 1)}
=============================================================================
