------------------------------- MODULE MCStartup -------------------------------
(***************************************************************************)
(* The runs on module Startup: two links and one peer, so that one tunnel  *)
(* can be recreated, given up or left out beside another.                  *)
(***************************************************************************)
EXTENDS StartupProperties
=============================================================================
