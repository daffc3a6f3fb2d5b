----------------------------- MODULE MCAISessions -----------------------------
(* All callers in one instance: no two processes share the session. *)
EXTENDS AISessions

MCAiHome(c) == CHOOSE i \in AiInstances : TRUE
=============================================================================
