--------------------------- MODULE MCAssetUpload ---------------------------
(***************************************************************************)
(* Model values and symmetry for checking AssetUpload with TLC.            *)
(***************************************************************************)
EXTENDS AssetUpload, TLC

\* Requests, cleanup runs, keys and sizes are told apart only by equality.
Symmetry == Permutations(Requests) \cup Permutations(Cleaners)
              \cup Permutations(Keys) \cup Permutations(Sizes)

\* Bound: the project's deletion falls in the life of the first two sessions.
EarlyDeletion == deletion.pc = "listed" => clock <= 1
=============================================================================
