--------------------------- MODULE MCRunLifecycle ---------------------------
(* Small instances of RunLifecycle: the constants TLC cannot read from a cfg. *)
EXTENDS RunLifecycle

MCBackoff == <<1, 2>>
=============================================================================
