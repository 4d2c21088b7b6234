----------------------------- MODULE UpdateFiles -----------------------------
(***************************************************************************)
(* The files an installation reads and writes, and the FSUpdate instances  *)
(* that do so.  A file is one of Contents, cut short, or not there: two    *)
(* contents stand for two files with different SHA-256 sums.               *)
(***************************************************************************)
CONSTANTS
  Procs,      \* FSUpdate instances, each in a thread or process of its own
  Contents    \* complete files: payloads, manifests

File == Contents \cup {"partial", "absent"}

ASSUME ContentsAssumption ==
  /\ "partial" \notin Contents /\ "absent" \notin Contents
  /\ Contents # {}
=============================================================================
