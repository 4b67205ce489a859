----------------------------- MODULE MCAeadUdp -----------------------------
(* Model-checking instance of AeadUdp: the constants the .cfg files give.  *)
EXTENDS AeadUdp, TLC

CONSTANTS s1, s2, s3

MCSalts == {s1, s2, s3}
\* Salts are random bytes: any renaming of them is a behaviour too.
MCSaltSymmetry == Permutations(MCSalts)
=============================================================================
