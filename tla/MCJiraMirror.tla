----------------------------- MODULE MCJiraMirror -----------------------------
(* One item and one ticket with a comment, a poller and a store's request.  *)
EXTENDS JiraMirror
=============================================================================
