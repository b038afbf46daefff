---------------------------- MODULE MCGenerator -----------------------------
(***************************************************************************)
(* An instance of the signal sources for TLC: tables of four samples.      *)
(***************************************************************************)
EXTENDS Generator, TLC

OnePeriod == (0 :> 0) @@ (1 :> 256) @@ (2 :> 0) @@ (3 :> -256)

(* Ends of the range, and beyond it.                                       *)
Samples == { -256, 256, 260 }

ChannelNumbers == { 0, 1, 2, 4 }

(* 36 stands for 35/255, from where the drift is the longest.              *)
Levels == { -1, 36, 256, 257 }

PwmTable == << 9, 4, 1, 0, 0 >>

Frequencies == { -1, 0, 3, 9 }

Bytes == { 255, 256 }
=============================================================================
