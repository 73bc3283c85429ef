------------------------------ MODULE MCWatch -------------------------------
(***************************************************************************)
(* Instances of Watch for TLC, and what README.md:39 says of the watcher   *)
(* that the code does not keep: "It keeps running and watches the source   *)
(* directory for changes."                                                 *)
(***************************************************************************)
EXTENDS Watch

\* A file deleted while a snapshot is taken does not end the watcher.
ScanKeepsWatching == [][ pc = "scan" => pc' # "failed" ]_vars
=============================================================================
