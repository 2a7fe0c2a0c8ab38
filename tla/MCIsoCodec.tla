---------------------------- MODULE MCIsoCodec -----------------------------
(***************************************************************************)
(* Values for TLC: counted fields of one and of twelve characters, so that *)
(* a length may be cut away with its value and has two digits.             *)
(***************************************************************************)
EXTENDS IsoCodec

MCSizes == {1, 12}
=============================================================================
