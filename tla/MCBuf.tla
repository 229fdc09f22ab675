------------------------------- MODULE MCBuf -------------------------------
(* Buf for TLC: frames and files are interchangeable. *)
EXTENDS Buf, TLC

CONSTANTS fA, fB, file1, file2, junk, x

MCFrames == {fA, fB}
MCFiles == {file1, file2}
MCData == {junk, x}
MCNextFree == {USED}
Symmetry == Permutations(MCFrames) \cup Permutations(MCFiles)
=============================================================================
