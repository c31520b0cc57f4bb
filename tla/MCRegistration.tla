--------------------------- MODULE MCRegistration ---------------------------
(***************************************************************************)
(* A small instance of Registration: two requests for one username, two    *)
(* invitations whose limit is one use or none, and one moment of expiry.   *)
(* No symmetry, because liveness is checked too.                           *)
(***************************************************************************)
EXTENDS Registration
=============================================================================
