--------------------------- MODULE MCCaptureVisit ---------------------------
(* Two monitors, two visits that can follow each other and a plugin that     *)
(* leaves an error of the page or of the browser.                            *)
EXTENDS CaptureVisit
=============================================================================
