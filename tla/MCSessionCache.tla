--------------------------- MODULE MCSessionCache ---------------------------
(* SessionCache with two replicas and a handful of lookups.                *)
EXTENDS SessionCache

\* One replica at a time revokes: the second call finds the row revoked.
OneRevokes == \E r \in Replicas : revoking[r] = "no"
=============================================================================
