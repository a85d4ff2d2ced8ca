-------------------------- MODULE MCTransientFlush --------------------------
(* A few instructions over one or two registers.                            *)
EXTENDS TransientFlush

CONSTANTS r1, r2

OneReg  == {r1}
TwoRegs == {r1, r2}
OnlyALU == {"ALU"}
AllKinds == {"ALU", "BR"}
============================================================================
