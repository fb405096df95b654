---------------------------- MODULE MCConfigEdit ----------------------------
(* Small instances of ConfigEdit.                                            *)
EXTENDS ConfigEdit, TLC

CONSTANTS n1, n2, n3, web, k1, k2

\* Two providers, one of them without a key, and the key of the server.
MCFirst == n1 :> k1 @@ n2 :> NoKey @@ web :> k2
=============================================================================
