--------------------------- MODULE MCWasmRegistry ---------------------------
(***************************************************************************)
(* The instances of MCWasmTx, for the refinement.                          *)
(***************************************************************************)
EXTENDS MCWasmTx, WasmRegistry
=============================================================================
