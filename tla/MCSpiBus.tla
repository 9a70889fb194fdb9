------------------------------ MODULE MCSpiBus ------------------------------
(* SpiBus with two tries of two polls each, transfers of at most two bytes  *)
(* and packets of four: the blocks are one to three transfers or packets,   *)
(* with and without a single byte left.                                     *)
EXTENDS SpiBus, SpiFrame

MCRanges == {<<0, 1>>, <<1, 2>>, <<2, 3>>, <<1, 4>>, <<0, 5>>, <<0, 9>>}

=============================================================================
