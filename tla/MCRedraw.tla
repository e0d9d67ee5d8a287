------------------------------ MODULE MCRedraw ------------------------------
EXTENDS Redraw, TLC

\* Outputs are interchangeable: the state machine treats every crtc alike.
OutputSymmetry == Permutations(Outputs)
=============================================================================
