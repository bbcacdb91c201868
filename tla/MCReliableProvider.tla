------------------------- MODULE MCReliableProvider -------------------------
(* Instances of ReliableProvider for TLC.                                  *)
EXTENDS ReliableProvider

CONSTANTS chat, digest, summary, primary, backup, large, small

TwoProviders == <<primary, backup>>
Chains == [c \in Calls |-> IF c = summary THEN <<large, small>> ELSE <<large>>]
=============================================================================
