----------------------------- MODULE MCAllowed -----------------------------
(***************************************************************************)
(* Small instances of Allowed.                                             *)
(***************************************************************************)
EXTENDS Allowed, TLC

CONSTANTS f1, f2, h1, h2

AllConfigs == [parseOnUpload : BOOLEAN, keepDead : BOOLEAN, deleteInvalid : BOOLEAN]
OneConfig == {[parseOnUpload |-> TRUE, keepDead |-> FALSE, deleteInvalid |-> FALSE]}
=============================================================================
