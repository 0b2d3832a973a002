---------------------------- MODULE MCAccessAudit ----------------------------
\* Model-checking instance of AccessAudit; the bounds are in the .cfg file.
EXTENDS AccessAudit, TLC

CONSTANTS c1

OneUser == (c1 :> "u")
=============================================================================
