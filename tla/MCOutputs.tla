------------------------------ MODULE MCOutputs ------------------------------
(***************************************************************************)
(* Small instances of Outputs for TLC: h1, h2 and h3 are clones, on one    *)
(* output by same-as; h4 and h5 have an output each.                       *)
(***************************************************************************)
EXTENDS Outputs

CONSTANTS h1, h2, h3, h4, h5, o1, o2, o3

ASSUME HeadsAreNamed == Heads \subseteq {h1, h2, h3, h4, h5}

MCControls ==
    [h \in Heads |->
        IF h \in {h1, h2, h3} THEN o1 ELSE IF h = h4 THEN o2 ELSE o3]

=============================================================================
