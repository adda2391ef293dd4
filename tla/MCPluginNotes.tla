----------------------------- MODULE MCPluginNotes -----------------------------
(* One plugin run beside one store's rounds, the run perhaps between a        *)
(* round's scan and its look at what runners removed.                         *)
EXTENDS PluginNotes
=============================================================================
