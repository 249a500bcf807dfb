------------------------------ MODULE MCUploads ------------------------------
(* Small instances of Uploads.                                               *)
EXTENDS Uploads, TLC

CONSTANTS alice, bob, r1, r2, r3, f1, f2

TwoUsers == {alice, bob}
ThreeReqs == {r1, r2, r3}
TwoReqs == {r1, r2}
OneFile == {f1}
TwoFiles == {f1, f2}

Symmetry == Permutations(TwoUsers) \union Permutations(ThreeReqs)
=============================================================================
