----------------------------- MODULE RestoreSpec -----------------------------
(***************************************************************************)
(* What `btrfs restore` promises (spec 4.11), without the directory walk:  *)
(* it fills output files one at a time, each a regular file of the chosen  *)
(* tree, and then exits.  It may exit with an error at any point; it exits *)
(* 0 only when every file it was to restore is there, apart from those     *)
(* the command line excuses (existing files without -o, failures under     *)
(* -i).  RestoreDir implements it (RestoreDir!RestoreRefinement).          *)
(***************************************************************************)
VARIABLES
  want,      \* the paths of the regular files of the chosen tree
  excused,   \* the paths of those that may be missing after exit 0
  restored,  \* the paths filled so far
  status     \* "running", "ok" (exit 0) or "error"

vars == <<want, excused, restored, status>>

Init == restored = {} /\ status = "running"

(* One file of the tree copied to the output.                             *)
RestoreFile ==
  /\ status = "running"
  /\ \E p \in want : restored' = restored \cup {p}
  /\ UNCHANGED <<want, excused, status>>

(* The exit: 0 only once every file not excused is restored.              *)
Exit ==
  /\ status = "running"
  /\ status' \in {"ok", "error"}
  /\ status' = "ok" => want \ excused \subseteq restored
  /\ UNCHANGED <<want, excused, restored>>

Next == RestoreFile \/ Exit

(* restore always exits.                                                  *)
Spec == Init /\ [][Next]_vars /\ WF_vars(Exit)
=============================================================================
