------------------------------- MODULE MCGuiJobs -------------------------------
(* Two archives and two jobs for TLC; the constants are given in the configuration. *)
EXTENDS GuiJobs
=============================================================================
