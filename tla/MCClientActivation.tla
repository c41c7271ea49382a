--------------------------- MODULE MCClientActivation ---------------------------
(***************************************************************************)
(* Instances of ClientActivation, with a reader of the credentials: users  *)
(* have a content with a login and one without.                            *)
(***************************************************************************)
EXTENDS OfficialCredential

CONSTANTS a, b

MyConfigs == {a, b}

================================================================================
