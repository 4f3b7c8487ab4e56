-------------------------- MODULE MCRedirectClient --------------------------
(* Two competing runs over a client of two files, one of them the metadata. *)
EXTENDS RedirectClient, TLC

CONSTANTS metadata, assembly, run1, run2

MCManifest == <<assembly, metadata>>
MCRuns == {run1, run2}
=============================================================================
