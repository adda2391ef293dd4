------------------------------ MODULE MCDocsSync ------------------------------
(* One item's docs in two stores, alike.                                    *)
EXTENDS DocsSync, TLC

MCSymmetry == Permutations(Store)
=============================================================================
