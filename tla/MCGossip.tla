------------------------------- MODULE MCGossip -------------------------------
(* Instances of Gossip for TLC.                                            *)
EXTENDS Gossip, TLC

CONSTANTS a, b, c

Cadena == (a :> <<>>) @@ (b :> <<a>>) @@ (c :> <<b>>)
==============================================================================
