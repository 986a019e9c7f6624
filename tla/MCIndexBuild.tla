---------------------------- MODULE MCIndexBuild ----------------------------
(* Two worker processes on a text of two chunks or on one recording.          *)
EXTENDS IndexBuild
=============================================================================
