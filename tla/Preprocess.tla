----------------------------- MODULE Preprocess -----------------------------
(***************************************************************************)
(* The conditional directives, include files and C block comments of the   *)
(* preprocessor (src/preprocess/mod.rs).  A file is read line by line; the *)
(* next line is any line.  Nested conditionals are a stack of frames with  *)
(* a counter of the frames that are not Active, and an included file works *)
(* on the same stack, above the floor it found.                            *)
(*                                                                         *)
(* `groups' and the field `entry' are history variables: what the          *)
(* directives mean, told without the frames' four states and the counter.  *)
(***************************************************************************)
EXTENDS Integers, Sequences

CONSTANTS
  Macros,
  Predefined,     \* the macros of the configuration
  Statements,     \* what a line of program text may say
  IncludeLimit,   \* 64 in the code
  MaxLines        \* lines of a source file and all it includes

ASSUME PreprocessAssumption ==
  /\ Predefined \subseteq Macros
  /\ IncludeLimit \in Nat
  /\ MaxLines \in Nat

VARIABLES
  defines,
  cond_stack,            \* of [state, seen_else]
  skip_depth,
  in_c_block_comment,
  open_files,            \* the file and its includers: [floor, entry]
  output,                \* the statements emitted
  lines,
  status,                \* "reading", "done" or "error"
  groups                 \* of [here, any]: is this arm taken, was one so far

ppvars == <<defines, cond_stack, skip_depth, in_c_block_comment, open_files,
            output, lines, status, groups>>

States == {"Active", "Skipping", "Done", "ParentSkipping"}
Verdicts == {"true", "false", "malformed"}   \* of the expression of #if, #elif

PpInit ==
  /\ defines = Predefined
  /\ cond_stack = << >> /\ skip_depth = 0
  /\ in_c_block_comment = FALSE
  /\ open_files = << [floor |-> 0, entry |-> << >>] >>
  /\ output = {}
  /\ lines = 0 /\ status = "reading"
  /\ groups = << >>

-----------------------------------------------------------------------------
(* The stack *)

Skips(state) == IF state = "Active" THEN 0 ELSE 1

IsEmitting == skip_depth = 0

PushCond(state) ==
  /\ cond_stack' = Append(cond_stack, [state |-> state, seen_else |-> FALSE])
  /\ skip_depth' = skip_depth + Skips(state)

Top == cond_stack[Len(cond_stack)]

\* The new state of the innermost frame, and whether it has its #else.
SetTopCond(state, seen_else) ==
  /\ cond_stack' = [cond_stack EXCEPT ![Len(cond_stack)] =
                      [state |-> state, seen_else |-> seen_else]]
  /\ skip_depth' = skip_depth + Skips(state) - Skips(Top.state)

\* Mutant: the counter is left alone when a skipped group ends.
PopCondUncounted ==
  /\ cond_stack' = SubSeq(cond_stack, 1, Len(cond_stack) - 1)
  /\ UNCHANGED skip_depth

PopCond ==
  /\ cond_stack' = SubSeq(cond_stack, 1, Len(cond_stack) - 1)
  /\ skip_depth' = skip_depth - Skips(Top.state)

Floor == open_files[Len(open_files)].floor

\* Mutant: a file may go on with a conditional of its includer.
MatchesAny == Len(cond_stack) > 0

\* require_file_local_conditional, and that there is a frame at all.
Matches ==
  /\ ~(Floor > 0 /\ Len(cond_stack) = Floor)
  /\ Len(cond_stack) > 0

\* An error ends the preprocessing of the whole file; what the frames of
\* include_file then pop is not looked at again.
Fail ==
  /\ status' = "error"
  /\ UNCHANGED <<defines, cond_stack, skip_depth, open_files, output, groups>>

-----------------------------------------------------------------------------
(* Lines *)

\* The next line is taken and is not in a comment.
Line ==
  /\ status = "reading" /\ lines < MaxLines /\ ~in_c_block_comment
  /\ lines' = lines + 1
  /\ UNCHANGED in_c_block_comment

Text(s) ==
  /\ Line
  /\ output' = IF IsEmitting THEN output \cup {s} ELSE output
  /\ UNCHANGED <<defines, cond_stack, skip_depth, open_files, status, groups>>

\* A line that begins or ends a block comment, or is within one and is blank
\* once that is stripped.  The flag is the preprocessor's, not the file's.
Comment(inside) ==
  /\ status = "reading" /\ lines < MaxLines
  /\ in_c_block_comment \/ inside
  /\ in_c_block_comment' = inside
  /\ lines' = lines + 1
  /\ UNCHANGED <<defines, cond_stack, skip_depth, open_files, output, status, groups>>

OpenGroup(taken) == groups' = Append(groups, [here |-> taken, any |-> taken])

DoIfdef(m, negate) ==
  LET condition == (m \in defines) # negate IN
  /\ Line
  /\ PushCond(IF ~IsEmitting THEN "ParentSkipping"
              ELSE IF condition THEN "Active" ELSE "Skipping")
  /\ OpenGroup(condition)
  /\ UNCHANGED <<defines, open_files, output, status>>

\* The expression is evaluated only where text is emitted.
DoIf(v) ==
  /\ Line
  /\ IF IsEmitting /\ v = "malformed"
     THEN Fail
     ELSE /\ PushCond(IF ~IsEmitting THEN "ParentSkipping"
                      ELSE IF v = "true" THEN "Active" ELSE "Skipping")
          /\ OpenGroup(v = "true")
          /\ UNCHANGED <<defines, open_files, output, status>>

\* The state of a frame after #elif with verdict v, and after #else (verdict
\* "true").
NextArm(state, v) ==
  CASE state \in {"ParentSkipping", "Done"} -> state
    [] state = "Active" -> "Done"
    [] OTHER -> IF v = "true" THEN "Active" ELSE "Skipping"

NextGroup(v) ==
  LET g == groups[Len(groups)] IN
  groups' = [groups EXCEPT ![Len(groups)] =
               [here |-> ~g.any /\ v = "true", any |-> g.any \/ v = "true"]]

DoElif(v) ==
  /\ Line
  /\ IF \/ ~Matches
        \/ Top.seen_else
        \/ Top.state = "Skipping" /\ v = "malformed"
     THEN Fail
     ELSE /\ SetTopCond(NextArm(Top.state, v), FALSE)
          /\ NextGroup(v)
          /\ UNCHANGED <<defines, open_files, output, status>>

DoElse ==
  /\ Line
  /\ IF ~Matches \/ Top.seen_else
     THEN Fail
     ELSE /\ SetTopCond(NextArm(Top.state, "true"), TRUE)
          /\ NextGroup("true")
          /\ UNCHANGED <<defines, open_files, output, status>>

DoEndif ==
  /\ Line
  /\ IF ~Matches
     THEN Fail
     ELSE /\ PopCond
          /\ groups' = SubSeq(groups, 1, Len(groups) - 1)
          /\ UNCHANGED <<defines, open_files, output, status>>

\* Other directives act only where text is emitted.
DoDefine(m, undef) ==
  /\ Line
  /\ defines' = IF ~IsEmitting THEN defines
                ELSE IF undef THEN defines \ {m} ELSE defines \cup {m}
  /\ UNCHANGED <<cond_stack, skip_depth, open_files, output, status, groups>>

\* #error and unknown directives.
DoError ==
  /\ Line
  /\ IF IsEmitting THEN Fail
     ELSE UNCHANGED <<defines, cond_stack, skip_depth, open_files, output, status, groups>>

\* #include and the Fortran INCLUDE line.
DoInclude(found) ==
  /\ Line
  /\ CASE ~IsEmitting ->
            UNCHANGED <<defines, cond_stack, skip_depth, open_files, output, status, groups>>
       [] IsEmitting /\ (Len(open_files) > IncludeLimit \/ ~found) -> Fail
       [] OTHER ->
            /\ open_files' = Append(open_files, [floor |-> Len(cond_stack), entry |-> cond_stack])
            /\ UNCHANGED <<defines, cond_stack, skip_depth, output, status, groups>>

\* The end of the innermost file.  A block comment may go on into its includer.
EndOfFile ==
  /\ status = "reading"
  /\ IF Len(cond_stack) > Floor
     THEN Fail
     ELSE /\ IF Len(open_files) = 1
             THEN status' = "done" /\ UNCHANGED open_files
             ELSE open_files' = SubSeq(open_files, 1, Len(open_files) - 1) /\ UNCHANGED status
          /\ UNCHANGED <<defines, cond_stack, skip_depth, output, groups>>
  /\ UNCHANGED <<in_c_block_comment, lines>>

PpNext ==
  \/ \E s \in Statements : Text(s)
  \/ \E inside \in BOOLEAN : Comment(inside)
  \/ \E m \in Macros, negate \in BOOLEAN : DoIfdef(m, negate)
  \/ \E v \in Verdicts : DoIf(v) \/ DoElif(v)
  \/ DoElse \/ DoEndif
  \/ \E m \in Macros, undef \in BOOLEAN : DoDefine(m, undef)
  \/ DoError
  \/ \E found \in BOOLEAN : DoInclude(found)
  \/ EndOfFile

PpSpec == PpInit /\ [][PpNext]_ppvars

-----------------------------------------------------------------------------
(* What the directives mean *)

\* Text is emitted (the counter is zero) exactly when every group that
\* encloses it is in the arm to take: the first whose condition held, or the
\* #else when none did (is_emitting, push_cond, set_top_cond, pop_cond).
EmitsRight == IsEmitting <=> \A i \in DOMAIN groups : groups[i].here

\* No file touches the conditionals of its includers: all frames below a
\* file's floor are as they were when it was opened ("included file crossed
\* its conditional-stack floor"), so an #else or #endif missing in an include
\* file is never made good by the next one in the file around it.
IncludesIsolated ==
  \A k \in DOMAIN open_files :
    /\ Len(cond_stack) >= open_files[k].floor
    /\ SubSeq(cond_stack, 1, open_files[k].floor) = open_files[k].entry
=============================================================================
