---------------------------- MODULE MCDestination ----------------------------
(* Instances of Destination: heating controller h0 is the default device, h1 *)
(* a second one, h2 a third, and h9 an address at which nothing answers.     *)
EXTENDS Destination

CONSTANTS h0, h1, h2, h9

MCThree == {h0, h1, h2}
MCThreeAndGhost == {h0, h1, h2, h9}
MCJsonAll == {"url", "post"}
=============================================================================
