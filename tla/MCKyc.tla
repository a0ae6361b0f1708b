-------------------------------- MODULE MCKyc --------------------------------
(* Kyc for TLC.  Uploads are interchangeable, and so are candidates.       *)
EXTENDS Kyc, TLC

Interchangeable == Permutations(Uploads) \cup Permutations(Candidates)
=============================================================================
