-------------------------- MODULE MCBrowserSession --------------------------
(***************************************************************************)
(* Every kind of job, and pages of up to three viewports.                  *)
(***************************************************************************)
EXTENDS BrowserSession

AllJobs == {"png", "fullHeight", "pdf", "csv"}
=============================================================================
