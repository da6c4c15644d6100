---------------------------- MODULE ScanProject ----------------------------
(***************************************************************************)
(* The dependency scan of a multi-file build (src/driver/dep_scan.rs:      *)
(* scan_file, and src/driver/mod.rs): every file goes through the          *)
(* preprocessor, the MODULE and USE statements of what is emitted are its  *)
(* dependences, and the compilation order is resolved from those of all    *)
(* the files.  One file, Followed, is preprocessed line by line; the       *)
(* others, which no state connects with it, may have any dependences.      *)
(***************************************************************************)
EXTENDS DepScan, Preprocess

CONSTANT Followed

\* Statements are <<"use", m>> and <<"module", m>>.
Named(kind) == {m \in Modules : <<kind, m>> \in output}

ScanInit == Init /\ PpInit

Preprocessing == result = "scanning" /\ PpNext /\ UNCHANGED vars

\* The file's dependences are what was emitted; its preprocessor is dropped.
ScanFile ==
  /\ status = "done"
  /\ \E p \in Projects :
       /\ p.defines[Followed] = Named("module")
       /\ p.uses[Followed] = Named("use")
       /\ Resolve(p)
  /\ status' = "dropped" /\ defines' = {}
  /\ in_c_block_comment' = FALSE /\ output' = {} /\ lines' = 0
  /\ UNCHANGED <<cond_stack, skip_depth, open_files, groups>>

\* A file that cannot be preprocessed ends the build.
ScanError ==
  /\ result = "scanning" /\ status = "error"
  /\ result' = "unreadable"
  /\ UNCHANGED <<project, module_to_file, in_degree, queue, order, next>>
  /\ UNCHANGED ppvars

Done == result \notin {"scanning", "none"} /\ UNCHANGED <<vars, ppvars>>

ScanNext ==
  \/ Preprocessing
  \/ ScanFile
  \/ ScanError
  \/ Order /\ UNCHANGED ppvars
  \/ Done

ScanSpec == ScanInit /\ [][ScanNext]_<<vars, ppvars>>
=============================================================================
