------------------------- MODULE MCFailoverMonitor -------------------------
(* The watcher with two masters, two windows and room for two goroutines.  *)
EXTENDS FailoverMonitor
============================================================================
