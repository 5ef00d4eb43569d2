---------------------------- MODULE MCGenerations ----------------------------
(* An instance of Generations: an upload attempted twice and an update.         *)
EXTENDS Generations, TLC

CONSTANTS w1, w2

TwoWorks == {w1, w2}

UploadRetried == (w1 :> 2) @@ (w2 :> 1)
=============================================================================
