----------------------------- MODULE MCWcfxsFxs -----------------------------
(***************************************************************************)
(* WcfxsFxs with three polls instead of eight to settle the hook.          *)
(***************************************************************************)
EXTENDS WcfxsFxs
=============================================================================
