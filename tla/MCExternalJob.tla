--------------------------- MODULE MCExternalJob ---------------------------
(* An instance of ExternalJob for TLC. *)
EXTENDS ExternalJob, TLC

CONSTANTS first, second, child

\* A job whose second attempt retries the first one; the first has a child.
OneChild == (first :> {child}) @@ (second :> {}) @@ (child :> {})
Retried == (first :> NoAttempt) @@ (second :> first) @@ (child :> NoAttempt)

\* A job that runs once and has no children.
NoChild == first :> {}
Once == first :> NoAttempt
=============================================================================
