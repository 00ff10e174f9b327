------------------------------ MODULE MCGcMark ------------------------------
(* Instances of GcMark for TLC.  Room for two words makes the mark stack   *)
(* overflow as soon as an array is found below another block; four blocks  *)
(* of which one is no container are enough for a rescan to overflow behind *)
(* its own back.  GcFinalizer has every heap of fewer blocks.              *)
EXTENDS GcMark

MCKinds == {<<"object", "array", "array", "leaf">>,
            <<"leaf", "array", "object", "leaf">>}
MCRoots == {<<0, 3>>}

AllKinds == [Blocks -> Kinds]
MCWeakRoots == {<<1>>, <<3>>}
=============================================================================
