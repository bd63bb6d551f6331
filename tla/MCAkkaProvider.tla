--------------------------- MODULE MCAkkaProvider ---------------------------
(* Two callers, a stateful action, an action whose constructor may fail and  *)
(* a class that does not exist.                                              *)
EXTENDS AkkaProvider, TLC

MCHandle(k, p) == {<<k, p>>}

\* The reply tells which action and which context it answers.
MCReplies == Classes \X Payloads

\* Callers are alike.
Symmetry == Permutations(Clients)
=============================================================================
