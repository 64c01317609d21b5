---------------------------- MODULE MCBlockStore ----------------------------
(* BlockStore for TLC: the smallest block that can be stored in part, and a   *)
(* transaction of another block of its height.                                *)
EXTENDS BlockStore

TwoTxs      == << <<0>>, <<1, 2>> >>
OneByOne    == <<1, 1>>
NoMalformed == {{}}
NoPeers     == {}
OtherBlock  == {Doc(2, 3, 0)}
=============================================================================
