------------------------------ MODULE MCTerminalUi ------------------------------
(* An instance of TerminalUi for TLC.                                        *)
EXTENDS TerminalUi, TLC

CONSTANTS s1, s2, a, b

TwoServers == <<s1, s2>>
TwoTools == <<a, b>>
TheirHome  == a :> s1 @@ b :> s1
=============================================================================
