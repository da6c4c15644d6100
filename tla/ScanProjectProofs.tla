------------------------- MODULE ScanProjectProofs -------------------------
(***************************************************************************)
(* The preprocessor emits what its directives mean, include files keep to  *)
(* themselves, and the compilation order is right, for every set of macros *)
(* and statements, every include limit, files of any length and any number *)
(* of files and modules.                                                   *)
(*                                                                         *)
(* EmitsRight says nothing of the frames, so it is not inductive.  The     *)
(* frames are Active up to some level, then comes one that skips for its   *)
(* own reason, and all above it skip because of it; skip_depth is the      *)
(* number of levels that are not Active.  IncludesIsolated needs that the  *)
(* floors of the open files do not decrease.                               *)
(*                                                                         *)
(* The order: an in-degree is the number of modules that a file still      *)
(* waits for, and the files that wait for none are those placed or queued. *)
(* A set of files that wait for one another has no first one in the order. *)
(***************************************************************************)
EXTENDS ScanProject, SequenceTheorems, FiniteSetTheorems, TLAPS

-----------------------------------------------------------------------------
(* The preprocessor *)

Frame == [state : States, seen_else : BOOLEAN]
Group == [here : BOOLEAN, any : BOOLEAN]
File == [floor : Nat, entry : Seq(Frame)]

PpTypes ==
  /\ cond_stack \in Seq(Frame)
  /\ skip_depth \in Nat
  /\ groups \in Seq(Group)
  /\ open_files \in Seq(File)
  /\ Len(open_files) >= 1

\* The frame at level i, and what the group there stands for.
Level(i) ==
  LET a == Len(cond_stack) - skip_depth IN
  /\ i <= a => cond_stack[i].state = "Active" /\ groups[i].here /\ groups[i].any
  /\ i = a + 1 => /\ cond_stack[i].state \in {"Skipping", "Done"}
                  /\ ~groups[i].here
                  /\ groups[i].any <=> cond_stack[i].state = "Done"
  /\ i > a + 1 => cond_stack[i].state = "ParentSkipping"

Levels ==
  /\ Len(groups) = Len(cond_stack)
  /\ skip_depth <= Len(cond_stack)
  /\ \A i \in 1..Len(cond_stack) : Level(i)

Floors ==
  /\ \A k, l \in 1..Len(open_files) : k <= l => open_files[k].floor <= open_files[l].floor
  /\ \A k \in 1..Len(open_files) :
       /\ Len(open_files[k].entry) = open_files[k].floor
       /\ \A i \in 1..open_files[k].floor : cond_stack[i] = open_files[k].entry[i]
  /\ Floor <= Len(cond_stack)

PpInv == PpTypes /\ Levels /\ Floors

-----------------------------------------------------------------------------
\* The numbers the arithmetic below is about.
LEMMA Numbers ==
  ASSUME PpTypes
  PROVE  /\ Len(cond_stack) \in Nat /\ Len(open_files) \in Nat
         /\ \A k \in 1..Len(open_files) : open_files[k].floor \in Nat
         /\ Floor \in Nat
<1>1. Len(cond_stack) \in Nat /\ Len(open_files) \in Nat /\ Len(open_files) \in 1..Len(open_files)
  BY DEF PpTypes
<1>2. ASSUME NEW k \in 1..Len(open_files)
      PROVE  open_files[k] \in File
  BY DEF PpTypes
<1>3. \A k \in 1..Len(open_files) : open_files[k].floor \in Nat
  BY <1>2 DEF File
<1> QED BY <1>1, <1>3 DEF Floor

\* No floor is above that of the innermost file, nor that above the stack.
LEMMA BelowTop ==
  ASSUME PpInv
  PROVE  /\ Floor <= Len(cond_stack)
         /\ \A k \in 1..Len(open_files) : open_files[k].floor <= Floor
<1>1. Len(open_files) \in 1..Len(open_files)
  BY DEF PpInv, PpTypes
<1> QED BY <1>1, Numbers DEF PpInv, Floors, Floor

\* A sequence without its last element.
LEMMA Shorter ==
  ASSUME NEW S, NEW s \in Seq(S), Len(s) >= 1
  PROVE  /\ SubSeq(s, 1, Len(s) - 1) \in Seq(S)
         /\ Len(SubSeq(s, 1, Len(s) - 1)) = Len(s) - 1
         /\ \A i \in 1..(Len(s) - 1) : SubSeq(s, 1, Len(s) - 1)[i] = s[i]
<1> DEFINE n == Len(s) - 1
<1>1. n \in Nat
  OBVIOUS
<1>2. SubSeq(s, 1, n) \in Seq(S)
  OBVIOUS
<1>3. \A i \in 1..n : SubSeq(s, 1, n)[i] = s[i]
  OBVIOUS
<1>4. Len(SubSeq(s, 1, n)) = n
  <2> HIDE DEF n
  <2> QED BY <1>1
<1> QED BY <1>2, <1>3, <1>4

\* A stack that is at least as high as every floor, and the same below each.
LEMMA FloorsFrame ==
  ASSUME PpInv, open_files' = open_files,
         Len(cond_stack') \in Nat, Len(cond_stack') >= Floor,
         \A i \in 1..Floor : cond_stack'[i] = cond_stack[i]
  PROVE  Floors'
<1>1. Floor' = Floor /\ Floor \in Nat
  BY Numbers DEF Floor, PpInv
<1>2. ASSUME NEW k \in 1..Len(open_files)
      PROVE  /\ Len(open_files[k].entry) = open_files[k].floor
             /\ \A i \in 1..open_files[k].floor : cond_stack'[i] = open_files[k].entry[i]
  <2>1. /\ open_files[k].floor <= Floor /\ open_files[k].floor \in Nat
        /\ Len(open_files[k].entry) = open_files[k].floor
        /\ \A i \in 1..open_files[k].floor : cond_stack[i] = open_files[k].entry[i]
    BY Numbers DEF PpInv, Floors, Floor
  <2> QED BY <2>1, <1>1
<1> QED BY <1>1, <1>2 DEF Floors, PpInv

\* A new frame (#ifdef, #ifndef, #if): push_cond keeps the levels.
LEMMA PushKeeps ==
  ASSUME PpInv, NEW state \in States, NEW taken \in BOOLEAN,
         PushCond(state), OpenGroup(taken), open_files' = open_files,
         IF IsEmitting THEN state = (IF taken THEN "Active" ELSE "Skipping")
                       ELSE state = "ParentSkipping"
  PROVE  PpInv'
<1> DEFINE L == Len(cond_stack)
           f == [state |-> state, seen_else |-> FALSE]
           g == [here |-> taken, any |-> taken]
<1> USE DEF PpInv
<1>1. f \in Frame /\ g \in Group /\ L \in Nat
  BY DEF Frame, Group, PpTypes
<1>2. /\ cond_stack' \in Seq(Frame) /\ Len(cond_stack') = L + 1
      /\ cond_stack'[L + 1] = f
      /\ \A i \in 1..L : cond_stack'[i] = cond_stack[i]
  BY <1>1 DEF PushCond, PpTypes
<1>3. /\ groups' \in Seq(Group) /\ Len(groups') = L + 1
      /\ groups'[L + 1] = g
      /\ \A i \in 1..L : groups'[i] = groups[i]
  BY <1>1 DEF OpenGroup, PpTypes, Levels
<1>4. skip_depth \in Nat /\ skip_depth <= L
  BY DEF PpTypes, Levels
<1>5. skip_depth' = skip_depth + Skips(state) /\ Skips(state) \in {0, 1}
  BY DEF PushCond, Skips
<1>6. PpTypes'
  BY <1>2, <1>3, <1>4, <1>5 DEF PpTypes
<1>7. Levels'
  <2>1. ASSUME NEW i \in 1..(L + 1) PROVE Level(i)'
    <3>1. CASE state = "Active"
      <4>1. skip_depth = 0 /\ skip_depth' = 0 /\ taken
        BY <3>1, <1>4, <1>5 DEF IsEmitting, Skips
      <4>2. CASE i = L + 1
        BY <4>1, <4>2, <3>1, <1>1, <1>2, <1>3 DEF Level
      <4>3. CASE i \in 1..L
        BY <4>1, <4>3, <1>1, <1>2, <1>3 DEF Level, Levels
      <4> QED BY <4>2, <4>3, <1>1
    <3>2. CASE state # "Active"
      <4>1. skip_depth' = skip_depth + 1
        BY <3>2, <1>5 DEF Skips
      <4>2. CASE i = L + 1
        <5>1. CASE IsEmitting
          BY <5>1, <4>1, <4>2, <3>2, <1>1, <1>2, <1>3 DEF Level, IsEmitting
        <5>2. CASE ~IsEmitting
          BY <5>2, <4>1, <4>2, <1>1, <1>2, <1>3, <1>4 DEF Level, IsEmitting
        <5> QED BY <5>1, <5>2
      <4>3. CASE i \in 1..L
        BY <4>1, <4>3, <1>1, <1>2, <1>3, <1>4 DEF Level, Levels
      <4> QED BY <4>2, <4>3, <1>1
    <3> QED BY <3>1, <3>2
  <2> QED BY <2>1, <1>1, <1>2, <1>3, <1>4, <1>5 DEF Levels
<1>8. Floors'
  <2>1. Floor \in Nat /\ Floor <= L
    BY Numbers DEF Floors
  <2> QED BY <2>1, <1>1, <1>2, FloorsFrame
<1> QED BY <1>6, <1>7, <1>8

\* The frame an #elif, #else or #endif acts on lies above every floor.
LEMMA MatchIsLocal ==
  ASSUME PpInv, Matches
  PROVE  Len(cond_stack) > Floor
BY Numbers DEF PpInv, Floors, Matches

\* The next arm (#elif with its verdict, #else): set_top_cond keeps the levels.
LEMMA NextArmKeeps ==
  ASSUME PpInv, Matches, NEW v \in Verdicts, NEW e \in BOOLEAN,
         SetTopCond(NextArm(Top.state, v), e), NextGroup(v), open_files' = open_files
  PROVE  PpInv'
<1> DEFINE L == Len(cond_stack)
           s == NextArm(Top.state, v)
           g == groups[L]
           h == [here |-> ~g.any /\ v = "true", any |-> g.any \/ v = "true"]
<1> USE DEF PpInv
<1>1. L \in Nat /\ L >= 1 /\ L > Floor /\ Floor \in Nat
  BY MatchIsLocal, Numbers
<1>2. Top.state \in States /\ Level(L) /\ Len(groups) = L /\ g.any \in BOOLEAN
  <2>1. Len(groups) = L /\ cond_stack[L] \in Frame /\ g \in Group
    BY <1>1, ElementOfSeq DEF PpTypes, Levels
  <2> QED BY <2>1, <1>1 DEF Top, Frame, Group, Levels
<1>3. s \in States
  BY <1>2 DEF NextArm, States
<1>4. h \in Group
  BY DEF Group
<1>5. /\ cond_stack' \in Seq(Frame) /\ Len(cond_stack') = L
      /\ cond_stack'[L].state = s
      /\ \A i \in 1..(L - 1) : cond_stack'[i] = cond_stack[i]
  BY <1>1, <1>3 DEF SetTopCond, PpTypes, Frame
<1>6. /\ groups' \in Seq(Group) /\ Len(groups') = L
      /\ groups'[L] = h
      /\ \A i \in 1..(L - 1) : groups'[i] = groups[i]
  BY <1>1, <1>2, <1>4 DEF NextGroup, PpTypes
<1>7. skip_depth \in Nat /\ skip_depth <= L /\ skip_depth' = skip_depth + Skips(s) - Skips(Top.state)
  BY DEF PpTypes, Levels, SetTopCond
<1>8. \/ Top.state = "Active" /\ skip_depth = 0
      \/ Top.state \in {"Skipping", "Done"} /\ skip_depth = 1
      \/ Top.state = "ParentSkipping" /\ skip_depth > 1
  BY <1>1, <1>2, <1>7 DEF Level, Top
<1>9. ASSUME NEW i \in 1..L PROVE Level(i)' /\ skip_depth' \in Nat /\ skip_depth' <= L
  <2>1. CASE Top.state = "Active"
    <3>1. s = "Done" /\ skip_depth = 0 /\ skip_depth' = 1
      BY <2>1, <1>7, <1>8 DEF NextArm, Skips
    <3>2. ~h.here /\ h.any
      <4>1. g.any
        BY <3>1, <1>1, <1>2 DEF Level
      <4> QED BY <4>1
    <3>3. CASE i = L
      BY <3>1, <3>2, <3>3, <1>1, <1>2, <1>5, <1>6 DEF Level
    <3>4. CASE i \in 1..(L - 1)
      BY <3>1, <3>4, <1>1, <1>5, <1>6 DEF Level, Levels
    <3> QED BY <3>1, <3>3, <3>4, <1>1
  <2>2. CASE Top.state = "Skipping"
    <3>1. skip_depth = 1 /\ ~g.any
      BY <2>2, <1>1, <1>2, <1>8 DEF Level, Top
    <3>2. CASE v = "true"
      <4>1. s = "Active" /\ skip_depth' = 0
        BY <2>2, <3>1, <3>2, <1>7 DEF NextArm, Skips
      <4>2. CASE i = L
        <5>1. h.here /\ h.any
          BY <3>1, <3>2
        <5> QED BY <5>1, <4>1, <4>2, <1>1, <1>5, <1>6 DEF Level
      <4>3. CASE i \in 1..(L - 1)
        BY <3>1, <4>1, <4>3, <1>1, <1>5, <1>6 DEF Level, Levels
      <4> QED BY <4>1, <4>2, <4>3, <1>1
    <3>3. CASE v # "true"
      <4>1. s = "Skipping" /\ skip_depth' = 1
        BY <2>2, <3>1, <3>3, <1>7 DEF NextArm, Skips
      <4>2. CASE i = L
        <5>1. ~h.here /\ ~h.any
          BY <3>1, <3>3
        <5> QED BY <5>1, <4>1, <4>2, <1>1, <1>5, <1>6 DEF Level
      <4>3. CASE i \in 1..(L - 1)
        BY <3>1, <4>1, <4>3, <1>1, <1>5, <1>6 DEF Level, Levels
      <4> QED BY <4>1, <4>2, <4>3, <1>1
    <3> QED BY <3>2, <3>3
  <2>3. CASE Top.state = "Done"
    <3>1. s = "Done" /\ skip_depth = 1 /\ skip_depth' = 1 /\ g.any
      BY <2>3, <1>1, <1>2, <1>7, <1>8 DEF Level, Top, NextArm, Skips
    <3>2. CASE i = L
      <4>1. ~h.here /\ h.any
        BY <3>1
      <4> QED BY <4>1, <3>1, <3>2, <1>1, <1>5, <1>6 DEF Level
    <3>3. CASE i \in 1..(L - 1)
      <4>1. Level(i)
        BY <3>3, <1>1 DEF Levels
      <4>2. Len(cond_stack)' - skip_depth' = L - skip_depth
        BY <3>1, <1>5
      <4>3. cond_stack'[i] = cond_stack[i] /\ groups'[i] = groups[i]
        BY <3>3, <1>5, <1>6
      <4>4. Level(i)'
        BY <4>1, <4>2, <4>3, Zenon DEF Level
      <4>5. skip_depth' \in Nat /\ skip_depth' <= L
        BY <3>1, <1>1, <1>7
      <4> QED BY <4>4, <4>5
    <3> QED BY <3>1, <3>2, <3>3, <1>1
  <2>4. CASE Top.state = "ParentSkipping"
    <3>1. s = "ParentSkipping" /\ skip_depth > 1 /\ skip_depth' = skip_depth
      BY <2>4, <1>7, <1>8 DEF NextArm, Skips
    <3>2. CASE i = L
      BY <3>1, <3>2, <1>1, <1>5, <1>6, <1>7 DEF Level
    <3>3. CASE i \in 1..(L - 1)
      <4>1. Level(i)
        BY <3>3, <1>1 DEF Levels
      <4>2. Len(cond_stack)' - skip_depth' = L - skip_depth
        BY <3>1, <1>5
      <4>3. cond_stack'[i] = cond_stack[i] /\ groups'[i] = groups[i]
        BY <3>3, <1>5, <1>6
      <4>4. Level(i)'
        BY <4>1, <4>2, <4>3, Zenon DEF Level
      <4>5. skip_depth' \in Nat /\ skip_depth' <= L
        BY <3>1, <1>1, <1>7
      <4> QED BY <4>4, <4>5
    <3> QED BY <3>1, <3>2, <3>3, <1>1, <1>7
  <2> QED BY <2>1, <2>2, <2>3, <2>4, <1>2 DEF States
<1>10. PpTypes' /\ Levels'
  BY <1>1, <1>5, <1>6, <1>9 DEF PpTypes, Levels
<1>11. Floors'
  BY <1>1, <1>5, FloorsFrame
<1> QED BY <1>10, <1>11

\* The end of a group: pop_cond keeps the levels.
LEMMA PopKeeps ==
  ASSUME PpInv, Matches, PopCond, groups' = SubSeq(groups, 1, Len(groups) - 1),
         open_files' = open_files
  PROVE  PpInv'
<1> DEFINE L == Len(cond_stack)
<1> USE DEF PpInv
<1>1. L \in Nat /\ L >= 1 /\ L > Floor /\ Floor \in Nat
  BY MatchIsLocal, Numbers
<1>2. Level(L) /\ Len(groups) = L /\ Top.state \in States
  <2>1. cond_stack[L] \in Frame
    BY <1>1 DEF PpTypes
  <2> QED BY <2>1, <1>1 DEF Top, Frame, Levels
<1>3. /\ cond_stack' \in Seq(Frame) /\ Len(cond_stack') = L - 1
      /\ \A i \in 1..(L - 1) : cond_stack'[i] = cond_stack[i]
  BY <1>1, Shorter DEF PopCond, PpTypes
<1>4. /\ groups' \in Seq(Group) /\ Len(groups') = L - 1
      /\ \A i \in 1..(L - 1) : groups'[i] = groups[i]
  BY <1>1, <1>2, Shorter DEF PpTypes
<1>5. skip_depth \in Nat /\ skip_depth <= L /\ skip_depth' = skip_depth - Skips(Top.state)
  BY DEF PpTypes, Levels, PopCond
<1>6. skip_depth' = IF skip_depth = 0 THEN 0 ELSE skip_depth - 1
  <2>1. Top.state = "Active" <=> skip_depth = 0
    BY <1>1, <1>2, <1>5 DEF Level, Top
  <2> QED BY <2>1, <1>5 DEF Skips
<1>7. PpTypes' /\ Levels'
  <2>1. ASSUME NEW i \in 1..(L - 1) PROVE Level(i)'
    <3>1. Level(i)
      BY <1>1 DEF Levels
    <3>3. CASE skip_depth = 0
      <4>1. cond_stack[i].state = "Active" /\ groups[i].here /\ groups[i].any
        BY <3>1, <3>3, <1>1 DEF Level
      <4>2. Len(cond_stack)' - skip_depth' = L - 1 /\ i \in Nat /\ i <= L - 1
        BY <3>3, <1>1, <1>3, <1>6
      <4>3. cond_stack'[i] = cond_stack[i] /\ groups'[i] = groups[i]
        BY <1>3, <1>4
      <4>4. ~(i = L - 1 + 1) /\ ~(i > L - 1 + 1)
        BY <4>2, <1>1
      <4> QED BY <4>1, <4>2, <4>3, <4>4 DEF Level
    <3>4. CASE skip_depth > 0
      <4>1. Len(cond_stack)' - skip_depth' = L - skip_depth
        BY <3>4, <1>1, <1>3, <1>5, <1>6
      <4>2. cond_stack'[i] = cond_stack[i] /\ groups'[i] = groups[i]
        BY <1>3, <1>4
      <4> QED BY <3>1, <4>1, <4>2, Zenon DEF Level
    <3> QED BY <3>3, <3>4, <1>5
  <2> QED BY <2>1, <1>1, <1>3, <1>4, <1>5, <1>6 DEF PpTypes, Levels
<1>8. Floors'
  BY <1>1, <1>3, FloorsFrame
<1> QED BY <1>7, <1>8

\* An included file begins at a floor no lower than the others (include_file).
LEMMA IncludeKeeps ==
  ASSUME PpInv,
         open_files' = Append(open_files, [floor |-> Len(cond_stack), entry |-> cond_stack]),
         UNCHANGED <<cond_stack, skip_depth, groups>>
  PROVE  PpInv'
<1> DEFINE n == Len(open_files)
           file == [floor |-> Len(cond_stack), entry |-> cond_stack]
<1> USE DEF PpInv
<1>1. /\ n \in Nat /\ n >= 1 /\ Len(cond_stack) \in Nat
      /\ Floor \in Nat /\ Floor <= Len(cond_stack)
      /\ \A k \in 1..n : open_files[k].floor \in Nat /\ open_files[k].floor <= Floor
  BY Numbers, BelowTop DEF PpTypes
<1>2. file \in File
  BY <1>1 DEF PpTypes, File
<1>3. /\ open_files' \in Seq(File) /\ Len(open_files') = n + 1
      /\ open_files'[n + 1] = file
      /\ \A k \in 1..n : open_files'[k] = open_files[k]
  BY <1>1, <1>2 DEF PpTypes
<1>4. PpTypes' /\ Levels'
  <2>1. PpTypes'
    BY <1>1, <1>3, SMT DEF PpTypes
  <2>2. Levels' <=> Levels
    BY Zenon DEF Levels, Level
  <2> QED BY <2>1, <2>2
<1>5. Floor' = Len(cond_stack)
  BY <1>3 DEF Floor
<1>6. ASSUME NEW k \in 1..(n + 1)
      PROVE  /\ Len(open_files'[k].entry) = open_files'[k].floor
             /\ \A i \in 1..open_files'[k].floor : cond_stack[i] = open_files'[k].entry[i]
  <2>1. CASE k = n + 1
    BY <2>1, <1>1, <1>3
  <2>2. CASE k \in 1..n
    BY <2>2, <1>3 DEF Floors
  <2> QED BY <2>1, <2>2, <1>1
<1>7. ASSUME NEW k \in 1..(n + 1), NEW l \in 1..(n + 1), k <= l
      PROVE  open_files'[k].floor <= open_files'[l].floor
  <2>1. CASE l = n + 1
    <3>1. CASE k = n + 1
      BY <2>1, <3>1, <1>1, <1>3
    <3>2. CASE k \in 1..n
      BY <2>1, <3>2, <1>1, <1>3
    <3> QED BY <3>1, <3>2, <1>1
  <2>2. CASE l \in 1..n
    <3>1. k \in 1..n
      BY <2>2, <1>1, <1>7
    <3> QED BY <3>1, <2>2, <1>3, <1>7 DEF Floors
  <2> QED BY <2>1, <2>2, <1>1
<1>8. Floors'
  BY <1>1, <1>3, <1>5, <1>6, <1>7 DEF Floors
<1> QED BY <1>4, <1>8

\* The includer goes on at its own floor.
LEMMA ReturnKeeps ==
  ASSUME PpInv, Len(open_files) # 1,
         open_files' = SubSeq(open_files, 1, Len(open_files) - 1),
         UNCHANGED <<cond_stack, skip_depth, groups>>
  PROVE  PpInv'
<1> DEFINE n == Len(open_files)
<1> USE DEF PpInv
<1>1. /\ n \in Nat /\ n >= 2 /\ Len(cond_stack) \in Nat
      /\ Floor \in Nat /\ Floor <= Len(cond_stack)
      /\ \A k \in 1..n : open_files[k].floor \in Nat /\ open_files[k].floor <= Floor
  <2>1. n \in Nat /\ n >= 1
    BY DEF PpTypes
  <2>2. n >= 2
    <3>1. n # 1
      OBVIOUS
    <3> HIDE DEF n
    <3> QED BY <2>1, <3>1
  <2> QED BY <2>1, <2>2, Numbers, BelowTop
<1>2. /\ open_files' \in Seq(File) /\ Len(open_files') = n - 1
      /\ \A k \in 1..(n - 1) : open_files'[k] = open_files[k]
  BY <1>1, Shorter DEF PpTypes
<1>3. PpTypes' /\ Levels'
  BY <1>1, <1>2 DEF PpTypes, Levels, Level
<1>4. Floor' = open_files[n - 1].floor
  BY <1>1, <1>2 DEF Floor
<1>5. Floor' <= Len(cond_stack)
  BY <1>1, <1>4
<1>6. \A k, l \in 1..(n - 1) : k <= l => open_files'[k].floor <= open_files'[l].floor
  BY <1>1, <1>2 DEF Floors
<1>7. ASSUME NEW k \in 1..(n - 1)
      PROVE  /\ Len(open_files'[k].entry) = open_files'[k].floor
             /\ \A i \in 1..open_files'[k].floor : cond_stack[i] = open_files'[k].entry[i]
  <2>1. open_files'[k] = open_files[k] /\ k \in 1..n
    BY <1>1, <1>2
  <2> QED BY <2>1 DEF Floors
<1>8. Floors'
  BY <1>2, <1>5, <1>6, <1>7 DEF Floors
<1> QED BY <1>3, <1>8

-----------------------------------------------------------------------------
\* Steps that leave the stack, the groups and the open files alone.
LEMMA FrameKeeps ==
  ASSUME PpInv, UNCHANGED <<cond_stack, skip_depth, groups, open_files>>
  PROVE  PpInv'
BY DEF PpInv, PpTypes, Levels, Level, Floors, Floor

\* The file starts at the bottom of every stack.
LEMMA PpInitInv == PpInit => PpInv
<1> SUFFICES ASSUME PpInit PROVE PpInv
  OBVIOUS
<1>1. << >> \in Seq(Frame) /\ << >> \in Seq(Group) /\ Len(<< >>) = 0
  OBVIOUS
<1>2. [floor |-> 0, entry |-> << >>] \in File
  BY <1>1 DEF File
<1>3. /\ open_files \in Seq(File) /\ Len(open_files) = 1
      /\ open_files[1] = [floor |-> 0, entry |-> << >>]
  BY <1>2 DEF PpInit
<1>4. PpTypes
  BY <1>1, <1>3 DEF PpInit, PpTypes
<1>5. Levels
  BY <1>1 DEF PpInit, Levels
<1>6. Floors
  BY <1>1, <1>3 DEF PpInit, Floors, Floor
<1> QED BY <1>4, <1>5, <1>6 DEF PpInv

\* Every line preserves the invariant.
LEMMA PpStepInv == PpInv /\ [PpNext]_ppvars => PpInv'
<1> SUFFICES ASSUME PpInv, [PpNext]_ppvars PROVE PpInv'
  OBVIOUS
<1>1. ASSUME NEW s \in Statements, Text(s) PROVE PpInv'
  BY <1>1, FrameKeeps DEF Text
<1>2. ASSUME NEW inside \in BOOLEAN, Comment(inside) PROVE PpInv'
  BY <1>2, FrameKeeps DEF Comment
<1>3. ASSUME NEW m \in Macros, NEW negate \in BOOLEAN, DoIfdef(m, negate) PROVE PpInv'
  <2> DEFINE c == (m \in defines) # negate
             s == IF ~IsEmitting THEN "ParentSkipping" ELSE IF c THEN "Active" ELSE "Skipping"
  <2>1. PushCond(s) /\ OpenGroup(c) /\ open_files' = open_files
    BY <1>3 DEF DoIfdef
  <2>2. s \in States /\ c \in BOOLEAN
    BY DEF States
  <2>3. IF IsEmitting THEN s = (IF c THEN "Active" ELSE "Skipping") ELSE s = "ParentSkipping"
    OBVIOUS
  <2> HIDE DEF c, s
  <2> QED BY <2>1, <2>2, <2>3, PushKeeps
<1>4. ASSUME NEW v \in Verdicts, DoIf(v) PROVE PpInv'
  <2> DEFINE c == v = "true"
             s == IF ~IsEmitting THEN "ParentSkipping" ELSE IF c THEN "Active" ELSE "Skipping"
  <2>1. CASE Fail
    BY <2>1, FrameKeeps DEF Fail
  <2>2. CASE PushCond(s) /\ OpenGroup(c) /\ open_files' = open_files
    <3>1. s \in States /\ c \in BOOLEAN
      BY DEF States
    <3>2. IF IsEmitting THEN s = (IF c THEN "Active" ELSE "Skipping") ELSE s = "ParentSkipping"
      OBVIOUS
    <3> HIDE DEF c, s
    <3> QED BY <2>2, <3>1, <3>2, PushKeeps
  <2> QED BY <1>4, <2>1, <2>2 DEF DoIf
<1>5. ASSUME NEW v \in Verdicts, DoElif(v) PROVE PpInv'
  <2>1. CASE Fail
    BY <2>1, FrameKeeps DEF Fail
  <2>2. CASE Matches /\ SetTopCond(NextArm(Top.state, v), FALSE) /\ NextGroup(v)
             /\ open_files' = open_files
    BY <2>2, NextArmKeeps
  <2> QED BY <1>5, <2>1, <2>2 DEF DoElif
<1>6. ASSUME DoElse PROVE PpInv'
  <2>1. CASE Fail
    BY <2>1, FrameKeeps DEF Fail
  <2>2. CASE Matches /\ SetTopCond(NextArm(Top.state, "true"), TRUE) /\ NextGroup("true")
             /\ open_files' = open_files
    BY <2>2, NextArmKeeps DEF Verdicts
  <2> QED BY <1>6, <2>1, <2>2 DEF DoElse
<1>7. ASSUME DoEndif PROVE PpInv'
  <2>1. CASE Fail
    BY <2>1, FrameKeeps DEF Fail
  <2>2. CASE Matches /\ PopCond /\ groups' = SubSeq(groups, 1, Len(groups) - 1)
             /\ open_files' = open_files
    BY <2>2, PopKeeps
  <2> QED BY <1>7, <2>1, <2>2 DEF DoEndif
<1>8. ASSUME NEW m \in Macros, NEW undef \in BOOLEAN, DoDefine(m, undef) PROVE PpInv'
  BY <1>8, FrameKeeps DEF DoDefine
<1>9. ASSUME DoError PROVE PpInv'
  BY <1>9, FrameKeeps DEF DoError, Fail
<1>10. ASSUME NEW found \in BOOLEAN, DoInclude(found) PROVE PpInv'
  <2>1. CASE UNCHANGED <<cond_stack, skip_depth, groups, open_files>>
    BY <2>1, FrameKeeps
  <2>2. CASE /\ open_files' = Append(open_files, [floor |-> Len(cond_stack), entry |-> cond_stack])
             /\ UNCHANGED <<cond_stack, skip_depth, groups>>
    BY <2>2, IncludeKeeps
  <2> QED BY <1>10, <2>1, <2>2 DEF DoInclude, Fail
<1>11. ASSUME EndOfFile PROVE PpInv'
  <2>1. CASE UNCHANGED <<cond_stack, skip_depth, groups, open_files>>
    BY <2>1, FrameKeeps
  <2>2. CASE /\ Len(open_files) # 1
             /\ open_files' = SubSeq(open_files, 1, Len(open_files) - 1)
             /\ UNCHANGED <<cond_stack, skip_depth, groups>>
    BY <2>2, ReturnKeeps
  <2> QED BY <1>11, <2>1, <2>2 DEF EndOfFile, Fail
<1>12. CASE UNCHANGED ppvars
  BY <1>12, FrameKeeps DEF ppvars
<1> QED
  BY <1>1, <1>2, <1>3, <1>4, <1>5, <1>6, <1>7, <1>8, <1>9, <1>10, <1>11, <1>12 DEF PpNext

\* The counter is zero when no level skips.
LEMMA InvEmitsRight == PpInv => EmitsRight
<1> SUFFICES ASSUME PpInv PROVE EmitsRight
  OBVIOUS
<1> DEFINE L == Len(cond_stack)
<1>1. /\ L \in Nat /\ skip_depth \in Nat /\ skip_depth <= L
      /\ Len(groups) = L /\ DOMAIN groups = 1..L
      /\ \A i \in 1..L : Level(i)
  BY DEF PpInv, PpTypes, Levels
<1>2. CASE skip_depth = 0
  <2>1. ASSUME NEW i \in 1..L PROVE groups[i].here
    BY <1>1, <1>2 DEF Level
  <2> QED BY <1>1, <1>2, <2>1 DEF EmitsRight, IsEmitting
<1>3. CASE skip_depth > 0
  <2>1. L - skip_depth + 1 \in 1..L
    BY <1>1, <1>3
  <2>2. ~groups[L - skip_depth + 1].here
    BY <1>1, <2>1 DEF Level
  <2> QED BY <1>1, <1>3, <2>1, <2>2 DEF EmitsRight, IsEmitting
<1> QED BY <1>1, <1>2, <1>3

\* What is below a file's floor is what it was opened with.
LEMMA InvIsolated == PpInv => IncludesIsolated
<1> SUFFICES ASSUME PpInv, NEW k \in 1..Len(open_files)
             PROVE  /\ Len(cond_stack) >= open_files[k].floor
                    /\ SubSeq(cond_stack, 1, open_files[k].floor) = open_files[k].entry
  BY DEF IncludesIsolated, PpInv, PpTypes
<1> DEFINE n == open_files[k].floor
           e == open_files[k].entry
<1>1. n \in Nat /\ Len(cond_stack) \in Nat /\ Len(cond_stack) >= n
  BY Numbers, BelowTop DEF PpInv
<1>2. e \in Seq(Frame) /\ Len(e) = n /\ \A i \in 1..n : cond_stack[i] = e[i]
  <2>1. open_files[k] \in File
    BY ElementOfSeq DEF PpInv, PpTypes
  <2> QED BY <2>1 DEF PpInv, Floors, File
<1>3. cond_stack \in Seq(Frame)
  BY DEF PpInv, PpTypes
<1> HIDE DEF n, e
<1>4. SubSeq(cond_stack, 1, n) \in Seq(Frame)
  BY <1>1, <1>3
<1>5. Len(SubSeq(cond_stack, 1, n)) = n
  BY <1>1, <1>3
<1>6. \A i \in 1..n : SubSeq(cond_stack, 1, n)[i] = cond_stack[i]
  BY <1>1, <1>3
<1>7. SubSeq(cond_stack, 1, n) = e
  BY <1>2, <1>4, <1>5, <1>6, SeqEqual
<1> QED BY <1>1, <1>7 DEF n, e

-----------------------------------------------------------------------------
\* The preprocessor emits exactly the text in the arms to take, however
\* conditionals are nested and spread over include files (is_emitting).
THEOREM EmissionIsRight == PpSpec => []EmitsRight
BY PpInitInv, PpStepInv, InvEmitsRight, PTL DEF PpSpec

\* No include file changes a conditional of its includers (include_file,
\* require_file_local_conditional).
THEOREM IncludesAreIsolated == PpSpec => []IncludesIsolated
BY PpInitInv, PpStepInv, InvIsolated, PTL DEF PpSpec

\* In the build too, where the scan takes the output and drops the preprocessor.
THEOREM PreprocessedRightly == ScanSpec => [](EmitsRight /\ IncludesIsolated)
<1>1. ScanInit => PpInv
  BY PpInitInv DEF ScanInit
<1>2. PpInv /\ [ScanNext]_<<vars, ppvars>> => PpInv'
  <2> SUFFICES ASSUME PpInv, [ScanNext]_<<vars, ppvars>> PROVE PpInv'
    OBVIOUS
  <2>1. CASE Preprocessing
    BY <2>1, PpStepInv DEF Preprocessing
  <2>2. CASE ScanFile
    BY <2>2 DEF ScanFile, PpInv, PpTypes, Levels, Level, Floors, Floor
  <2>3. CASE UNCHANGED ppvars
    BY <2>3, PpStepInv
  <2> QED BY <2>1, <2>2, <2>3 DEF ScanNext, ScanError, Done
<1> QED BY <1>1, <1>2, InvEmitsRight, InvIsolated, PTL DEF ScanSpec

\* Most leaves of what follows are first-order; Zenon is tried first, briefly,
\* and SMT then.
USE ZenonT(2), SMT

-----------------------------------------------------------------------------
(* The order of the files *)

\* The modules that file i waits for: those of files that are not placed yet.
Waiting(i) ==
  {m \in project.uses[i] \cap DOMAIN module_to_file :
     module_to_file[m] # i /\ module_to_file[m] \notin Range(order)}

ScanTypes ==
  /\ project \in [defines : [Files -> SUBSET Modules], uses : [Files -> SUBSET Modules]]
  /\ \A i \in Files : IsFiniteSet(project.uses[i])
  /\ next \in 0..(N + 1)
  /\ order \in Seq(Files) /\ queue \in Seq(Files)
  /\ result \in {"scanning", "none", "duplicate", "ordered", "cycle", "unreadable"}

\* The table holds the definitions of the files before `next`.
Table ==
  /\ \A m \in DOMAIN module_to_file :
       /\ module_to_file[m] \in Files /\ module_to_file[m] < next
       /\ m \in project.defines[module_to_file[m]]
  /\ \A i \in Files : i < next =>
       \A m \in project.defines[i] : m \in DOMAIN module_to_file /\ module_to_file[m] = i

\* Kahn's invariant: an in-degree is the number of modules still waited for,
\* and who waits for none is placed or queued.
Kahn ==
  /\ next <= N => order = << >> /\ queue = << >>
  /\ next = N + 1 =>
       /\ \A i \in Files : in_degree[i] = Cardinality(Waiting(i))
       /\ Range(order) \cup Range(queue) = {i \in Files : Waiting(i) = {}}
       /\ in_degree = [i \in Files |-> in_degree[i]]
  /\ \A k \in 1..Len(order), l \in 1..Len(queue) : order[k] # queue[l]
  /\ IsInjective(order) /\ IsInjective(queue)
  /\ \A k \in 1..Len(order) : \A j \in Files :
       Needs(order[k], j) => \E l \in 1..(k - 1) : order[l] = j

\* What a result says.
Verdict ==
  /\ result = "scanning" => next = 0 /\ \A i \in Files : project.defines[i] = {}
  /\ result = "duplicate" => Duplicated
  /\ result \in {"ordered", "cycle"} => next = N + 1 /\ queue = << >>
  /\ result = "ordered" => Len(order) = N
  /\ result = "cycle" => Len(order) # N

OrderInv == ScanTypes /\ Table /\ Kahn /\ Verdict

-----------------------------------------------------------------------------
\* The files are finitely many numbers.
LEMMA FilesFinite ==
  /\ Files \subseteq Nat /\ IsFiniteSet(Files) /\ Cardinality(Files) = N /\ N \in Nat
<1>1. N \in Nat
  BY ProjectsAssumption
<1>2. IsFiniteSet(0..(N - 1)) /\ Cardinality(0..(N - 1)) = IF 0 > N - 1 THEN 0 ELSE N - 1 - 0 + 1
  BY <1>1, FS_Interval
<1> QED BY <1>1, <1>2, SMT DEF Files

\* Ascending(S) has the files of S, each once: the rank of a file, the number of
\* files up to it, tells the files of S apart, so every rank up to the number
\* of files is that of one of them.
LEMMA AscendingIs ==
  ASSUME NEW S \in SUBSET Files
  PROVE  /\ Ascending(S) \in Seq(Files) /\ Range(Ascending(S)) = S
         /\ IsInjective(Ascending(S))
<1> DEFINE n == Cardinality(S)
           upTo(i) == {j \in S : j <= i}
           rank == [i \in S |-> Cardinality(upTo(i))]
<1>1. IsFiniteSet(S) /\ n \in Nat /\ S \subseteq Nat
  BY FilesFinite, FS_Subset, FS_CardinalityType
<1>2. \A i \in S : IsFiniteSet(upTo(i)) /\ upTo(i) \subseteq S /\ i \in upTo(i)
  BY <1>1, FS_Subset
<1>3. \A i \in S : rank[i] \in 1..n
  <2> TAKE i \in S
  <2>1. Cardinality(upTo(i)) \in Nat /\ Cardinality(upTo(i)) <= n /\ Cardinality(upTo(i)) # 0
    BY <1>1, <1>2, FS_Subset, FS_CardinalityType, FS_EmptySet
  <2> QED BY <1>1, <2>1
<1>4. \A i, j \in S : i < j => Cardinality(upTo(i)) # Cardinality(upTo(j))
  <2> SUFFICES ASSUME NEW i \in S, NEW j \in S, i < j PROVE Cardinality(upTo(i)) # Cardinality(upTo(j))
    OBVIOUS
  <2>1. upTo(i) \subseteq upTo(j)
    <3> SUFFICES ASSUME NEW k \in S, k <= i PROVE k <= j
      OBVIOUS
    <3> QED BY <1>1, SMT
  <2>2. j \notin upTo(i) /\ j \in upTo(j)
    BY <1>1
  <2> HIDE DEF upTo
  <2> QED BY <1>2, <2>1, <2>2, FS_Subset
<1>5. rank \in Injection(S, 1..n)
  <2>1. rank \in [S -> 1..n]
    BY <1>3
  <2>2. \A i, j \in S : rank[i] = rank[j] => i = j
    BY <1>1, <1>4
  <2> HIDE DEF rank
  <2> QED BY <2>1, <2>2 DEF Injection, IsInjective
<1>6. IsFiniteSet(1..n) /\ Cardinality(1..n) = n
  BY <1>1, FS_Interval
<1>7. rank \in Surjection(S, 1..n)
  BY <1>5, <1>6, FS_Injection
<1>8. \A k \in 1..n : \E i \in S : Cardinality(upTo(i)) = k
  BY <1>7 DEF Surjection
<1> DEFINE a == Ascending(S)
<1>9. /\ a = [k \in 1..n |-> a[k]]
      /\ \A k \in 1..n : a[k] \in S /\ Cardinality(upTo(a[k])) = k
  <2>1. a = [k \in 1..n |-> CHOOSE i \in S : Cardinality(upTo(i)) = k]
    BY DEF Ascending
  <2>2. ASSUME NEW k \in 1..n
        PROVE  (CHOOSE i \in S : Cardinality(upTo(i)) = k) \in S
               /\ Cardinality(upTo(CHOOSE i \in S : Cardinality(upTo(i)) = k)) = k
    <3> HIDE DEF upTo
    <3> QED BY <1>8
  <2> HIDE DEF a, upTo
  <2> QED BY <2>1, <2>2
<1> HIDE DEF a
<1>10. a \in Seq(Files) /\ Len(a) = n /\ DOMAIN a = 1..n
  <2>1. a \in [1..n -> Files]
    BY <1>9
  <2>2. n \in Nat
    BY <1>1
  <2> HIDE DEF n
  <2> QED BY <2>1, <2>2, SMT
<1>11. IsInjective(a)
  BY <1>9, <1>10 DEF IsInjective
<1>12. S \subseteq Range(a)
  <2> SUFFICES ASSUME NEW i \in S PROVE i \in Range(a)
    OBVIOUS
  <2>1. a[rank[i]] \in S /\ rank[a[rank[i]]] = rank[i] /\ rank[i] \in 1..n
    <3>1. rank[i] \in 1..n
      BY <1>3
    <3>2. a[rank[i]] \in S /\ Cardinality(upTo(a[rank[i]])) = rank[i]
      BY <1>9, <3>1
    <3> QED BY <3>1, <3>2
  <2>2. a[rank[i]] = i
    BY <1>5, <2>1 DEF Injection, IsInjective
  <2> QED BY <1>10, <2>1, <2>2 DEF Range
<1>13. Range(a) \subseteq S
  BY <1>9, <1>10 DEF Range
<1> QED BY <1>10, <1>11, <1>12, <1>13 DEF a

\* Before the files are resolved there is nothing in the table.
LEMMA OrderInit == Init => OrderInv
<1> SUFFICES ASSUME Init PROVE OrderInv
  OBVIOUS
<1>1. N \in Nat
  BY ProjectsAssumption
<1>2. ScanTypes
  <2>1. IsFiniteSet({})
    BY FS_EmptySet
  <2> QED BY <1>1, <2>1 DEF Init, ScanTypes
<1>3. Table
  BY <1>1, FilesFinite DEF Init, Table
<1>4. Kahn
  BY <1>1 DEF Init, Kahn, IsInjective
<1>5. Verdict
  BY DEF Init, Verdict
<1> QED BY <1>2, <1>3, <1>4, <1>5 DEF OrderInv

\* The projects are of finitely many modules.
LEMMA ResolveInv ==
  ASSUME OrderInv, NEW p \in Projects, Resolve(p)
  PROVE  OrderInv'
<1> USE DEF OrderInv, Resolve
<1>1. ScanTypes'
  BY ProjectsAssumption DEF ScanTypes
<1>2. next = 0 /\ next <= N /\ order = << >> /\ queue = << >>
  BY ProjectsAssumption DEF Verdict, Kahn
<1>3. Table'
  <2>1. DOMAIN module_to_file = {}
    <3> SUFFICES ASSUME NEW m \in DOMAIN module_to_file PROVE FALSE
      OBVIOUS
    <3>1. PICK k \in Files : k < 0
      BY <1>2 DEF Table
    <3> QED BY <3>1, FilesFinite, SMT
  <2>2. \A i \in Files : ~(i < 0)
    BY FilesFinite, SMT
  <2> QED BY <1>2, <2>1, <2>2 DEF Table
<1>4. Kahn'
  <2>1. next' <= N /\ next' # N + 1 /\ order' = << >> /\ queue' = << >>
    BY <1>2, ProjectsAssumption
  <2> QED BY <2>1 DEF Kahn, IsInjective
<1>5. Verdict'
  BY DEF Verdict
<1> QED BY <1>1, <1>3, <1>4, <1>5

\* The table takes the definitions of one more file, or finds one it has.
LEMMA DefineInv ==
  ASSUME OrderInv, NEW i \in Files, Define(i)
  PROVE  OrderInv'
<1> USE DEF OrderInv
<1> DEFINE new == project.defines[i]
<1>1. /\ result = "none" /\ next = i /\ i \in Nat /\ N \in Nat /\ i < N
      /\ UNCHANGED <<project, in_degree, queue, order>>
  BY FilesFinite DEF Define, Files
<1>2. order = << >> /\ queue = << >>
  BY <1>1 DEF Kahn
<1>3. CASE new \cap DOMAIN module_to_file # {}
  <2>1. result' = "duplicate" /\ UNCHANGED <<module_to_file, next>>
    BY <1>3 DEF Define
  <2>2. PICK m \in new : m \in DOMAIN module_to_file
    BY <1>3
  <2>3. /\ module_to_file[m] \in Files /\ module_to_file[m] # i
        /\ m \in project.defines[module_to_file[m]]
    BY <1>1, <2>2, FilesFinite DEF Table
  <2>4. Duplicated'
    BY <1>1, <2>2, <2>3 DEF Duplicated
  <2>5. ScanTypes' /\ Table'
    BY <1>1, <2>1 DEF ScanTypes, Table
  <2>6. Kahn'
    BY <1>1, <1>2, <2>1 DEF Kahn
  <2> QED BY <2>1, <2>4, <2>5, <2>6 DEF Verdict
<1>4. CASE new \cap DOMAIN module_to_file = {}
  <2>1. /\ result' = result /\ next' = i + 1
        /\ module_to_file' = [m \in DOMAIN module_to_file \cup new |->
                                IF m \in new THEN i ELSE module_to_file[m]]
    BY <1>4 DEF Define
  <2>2. ScanTypes'
    BY <1>1, <2>1 DEF ScanTypes
  <2>3. ASSUME NEW m \in DOMAIN module_to_file'
        PROVE  /\ module_to_file'[m] \in Files /\ module_to_file'[m] < i + 1
               /\ m \in project.defines[module_to_file'[m]]
    <3>1. CASE m \in new
      BY <1>1, <2>1, <3>1
    <3>2. CASE m \notin new
      <4>1. m \in DOMAIN module_to_file /\ module_to_file'[m] = module_to_file[m]
        BY <2>1, <2>3, <3>2
      <4>2. /\ module_to_file[m] \in Files /\ module_to_file[m] < i
            /\ m \in project.defines[module_to_file[m]]
        BY <1>1, <4>1 DEF Table
      <4>3. module_to_file[m] < i + 1
        <5>1. module_to_file[m] \in Nat
          BY <4>2, FilesFinite
        <5> QED BY <1>1, <4>2, <5>1, SMT
      <4> QED BY <4>1, <4>2, <4>3
    <3> QED BY <3>1, <3>2
  <2>4. ASSUME NEW k \in Files, k < i + 1, NEW m \in project.defines[k]
        PROVE  m \in DOMAIN module_to_file' /\ module_to_file'[m] = k
    <3>1. CASE k = i
      BY <2>1, <2>4, <3>1
    <3>2. CASE k # i
      <4>1. k < i
        <5>1. k \in Nat
          BY FilesFinite
        <5> QED BY <1>1, <2>4, <3>2, <5>1, SMT
      <4>2. m \in DOMAIN module_to_file /\ module_to_file[m] = k
        BY <1>1, <2>4, <4>1 DEF Table
      <4>3. m \notin new
        BY <1>4, <4>2
      <4> QED BY <2>1, <4>2, <4>3
    <3> QED BY <3>1, <3>2
  <2>5. Table'
    BY <1>1, <2>1, <2>3, <2>4 DEF Table
  <2>6. Kahn'
    <3>1. next' <= N /\ next' # N + 1
      BY <1>1, <2>1
    <3> QED BY <1>1, <1>2, <3>1 DEF Kahn, IsInjective
  <2>7. Verdict'
    BY <1>1, <2>1 DEF Verdict
  <2> QED BY <2>2, <2>5, <2>6, <2>7
<1> QED BY <1>3, <1>4

\* File i needs the files it waits for, and with a complete table those it
\* needs and that are not placed keep it waiting.
LEMMA WaitingIsNeed ==
  ASSUME OrderInv, next \in {N, N + 1}, NEW i \in Files
  PROVE  /\ IsFiniteSet(Waiting(i))
         /\ \A m \in Waiting(i) : /\ module_to_file[m] \in Files /\ Needs(i, module_to_file[m])
                                  /\ module_to_file[m] \notin Range(order)
         /\ \A j \in Files : Needs(i, j) /\ j \notin Range(order) =>
              \E m \in Waiting(i) : module_to_file[m] = j
<1> USE DEF OrderInv
<1>1. IsFiniteSet(Waiting(i))
  <2>1. Waiting(i) \subseteq project.uses[i] /\ IsFiniteSet(project.uses[i])
    BY DEF Waiting, ScanTypes
  <2> QED BY <2>1, FS_Subset
<1>2. ASSUME NEW m \in Waiting(i)
      PROVE  /\ module_to_file[m] \in Files /\ Needs(i, module_to_file[m])
             /\ module_to_file[m] \notin Range(order)
  BY DEF Waiting, Needs, Table
<1>3. ASSUME NEW j \in Files, Needs(i, j), j \notin Range(order)
      PROVE  \E m \in Waiting(i) : module_to_file[m] = j
  <2>1. PICK m \in project.uses[i] : m \in project.defines[j]
    BY <1>3 DEF Needs
  <2>2. j < next
    BY FilesFinite, SMT DEF Files
  <2>3. m \in DOMAIN module_to_file /\ module_to_file[m] = j
    BY <2>1, <2>2 DEF Table
  <2> QED BY <1>3, <2>1, <2>3 DEF Waiting, Needs
<1> QED BY <1>1, <1>2, <1>3

\* The in-degrees from the complete table, and the files that wait for nothing.
LEMMA CountInv ==
  ASSUME OrderInv, Count
  PROVE  OrderInv'
<1> USE DEF OrderInv
<1>1. /\ result = "none" /\ next = N /\ N \in Nat /\ next' = N + 1
      /\ UNCHANGED <<project, module_to_file, order, result>>
  BY FilesFinite DEF Count
<1>2. order = << >> /\ Range(order) = {} /\ Len(order) = 0
  BY <1>1 DEF Kahn, Range
<1>3. \A i \in Files : Waiting(i)' = Waiting(i)
  BY <1>1 DEF Waiting, Range
<1>4. \A i \in Files : InDegree(i) = Cardinality(Waiting(i))
  BY <1>2 DEF InDegree, Waiting
<1> DEFINE free == {i \in Files : Waiting(i) = {}}
<1>5. /\ in_degree' = [i \in Files |-> Cardinality(Waiting(i))]
      /\ queue' = Ascending(free)
  <2>1. in_degree' = [i \in Files |-> Cardinality(Waiting(i))]
    BY <1>4 DEF Count
  <2>2. \A i \in Files : Cardinality(Waiting(i)) = 0 <=> Waiting(i) = {}
    BY <1>1, WaitingIsNeed, FS_EmptySet
  <2>3. {i \in Files : in_degree'[i] = 0} = free
    BY <2>1, <2>2
  <2> QED BY <2>1, <2>3 DEF Count
<1>6. queue' \in Seq(Files) /\ Range(queue') = free /\ IsInjective(queue')
  BY <1>5, AscendingIs
<1>7. ScanTypes'
  BY <1>1, <1>6 DEF ScanTypes
<1>8. Table'
  <2>1. \A i \in Files : i < N /\ i < N + 1
    BY <1>1, FilesFinite, SMT DEF Files
  <2> QED BY <1>1, <2>1 DEF Table
<1>9. Kahn'
  <2>1. ~(next' <= N)
    BY <1>1
  <2>2. \A i \in Files : in_degree'[i] = Cardinality(Waiting(i)')
    BY <1>3, <1>5
  <2>3. Range(order)' \cup Range(queue)' = {i \in Files : Waiting(i)' = {}}
    BY <1>1, <1>2, <1>3, <1>6
  <2>4. in_degree' = [i \in Files |-> in_degree'[i]]
    BY <1>5
  <2>5. /\ order' = << >> /\ \A k \in 1..Len(order') : FALSE
        /\ IsInjective(order)'
    BY <1>1, <1>2 DEF Kahn
  <2> QED BY <1>6, <2>1, <2>2, <2>3, <2>4, <2>5 DEF Kahn
<1>11. Verdict'
  BY <1>1 DEF Verdict
<1> QED BY <1>7, <1>8, <1>9, <1>11

\* A sequence without its head, and with an element or a sequence at its end.
LEMMA QueueParts ==
  ASSUME NEW q \in Seq(Files), q # << >>, IsInjective(q),
         NEW a \in Seq(Files), IsInjective(a), Range(a) \cap Range(q) = {}
  PROVE  /\ Head(q) \in Range(q) /\ Head(q) \in Files
         /\ Tail(q) \o a \in Seq(Files)
         /\ Range(Tail(q) \o a) = (Range(q) \ {Head(q)}) \cup Range(a)
         /\ IsInjective(Tail(q) \o a)
<1> DEFINE t == Tail(q)
           c == t \o a
<1>1. /\ Head(q) = q[1] /\ Len(q) \in Nat /\ Len(q) >= 1 /\ t \in Seq(Files)
      /\ Len(t) = Len(q) - 1 /\ \A k \in 1..Len(t) : t[k] = q[k + 1]
  BY HeadTailProperties, EmptySeq
<1>2. Head(q) \in Range(q) /\ Head(q) \in Files
  BY <1>1 DEF Range
<1>3. c \in Seq(Files) /\ Len(c) = Len(t) + Len(a) /\ Len(a) \in Nat /\ Len(t) \in Nat
  BY <1>1
<1>4. /\ \A k \in 1..Len(t) : c[k] = q[k + 1]
      /\ \A k \in 1..Len(a) : c[Len(t) + k] = a[k]
  <2>1. \A k \in 1..Len(t) : c[k] = t[k]
    BY <1>1, <1>3, SMT
  <2>2. \A k \in 1..Len(a) : c[Len(t) + k] = a[k]
    BY <1>1, <1>3, SMT
  <2> QED BY <1>1, <2>1, <2>2
<1>5. \A k \in 1..Len(c) : \/ k \in 1..Len(t)
                           \/ k - Len(t) \in 1..Len(a) /\ k = Len(t) + (k - Len(t))
  BY <1>3, SMT
<1>6. DOMAIN c = 1..Len(c) /\ DOMAIN q = 1..Len(q) /\ DOMAIN a = 1..Len(a)
  BY <1>3, LenProperties
<1>7. \A k \in 1..Len(t) : k + 1 \in 1..Len(q) /\ k + 1 # 1 /\ k \in 1..Len(c)
  BY <1>1, <1>3, SMT
<1>8. \A k \in 1..Len(a) : Len(t) + k \in 1..Len(c)
  BY <1>3, SMT
<1>9. \A k \in 1..Len(q) : k # 1 => k - 1 \in 1..Len(t) /\ k = (k - 1) + 1
  BY <1>1, SMT
<1> HIDE DEF c, t
<1>10. \A k \in 1..Len(c) : k = Len(t) + (k - Len(t))
  BY <1>3, SMT
<1>11. Range(c) = (Range(q) \ {Head(q)}) \cup Range(a)
  <2>1. ASSUME NEW x \in Range(c) PROVE x \in (Range(q) \ {Head(q)}) \cup Range(a)
    <3>1. PICK k \in 1..Len(c) : c[k] = x
      BY <1>6 DEF Range
    <3>2. CASE k \in 1..Len(t)
      <4>1. x = q[k + 1] /\ k + 1 \in 1..Len(q) /\ k + 1 # 1 /\ 1 \in 1..Len(q)
        BY <1>1, <1>4, <1>7, <3>1, <3>2
      <4>2. x # q[1]
        BY <1>6, <4>1 DEF IsInjective
      <4> QED BY <1>1, <1>6, <4>1, <4>2 DEF Range
    <3>3. CASE k - Len(t) \in 1..Len(a) /\ k = Len(t) + (k - Len(t))
      BY <1>4, <1>6, <3>1, <3>3 DEF Range
    <3> QED BY <1>5, <3>2, <3>3
  <2>2. ASSUME NEW x \in Range(q), x # Head(q) PROVE x \in Range(c)
    <3>1. PICK k \in 1..Len(q) : q[k] = x
      BY <1>6 DEF Range
    <3>2. k - 1 \in 1..Len(t) /\ k = (k - 1) + 1
      BY <1>1, <1>9, <2>2, <3>1
    <3> QED BY <1>4, <1>6, <1>7, <3>1, <3>2 DEF Range
  <2>3. Range(a) \subseteq Range(c)
    BY <1>4, <1>6, <1>8 DEF Range
  <2> QED BY <2>1, <2>2, <2>3
<1>12. IsInjective(c)
  <2> SUFFICES ASSUME NEW k \in 1..Len(c), NEW l \in 1..Len(c), c[k] = c[l] PROVE k = l
    BY <1>6 DEF IsInjective
  <2>1. CASE k \in 1..Len(t) /\ l \in 1..Len(t)
    <3>1. q[k + 1] = q[l + 1] /\ k + 1 \in 1..Len(q) /\ l + 1 \in 1..Len(q)
      BY <1>4, <1>7, <2>1
    <3>2. k + 1 = l + 1
      BY <1>6, <3>1 DEF IsInjective
    <3> QED BY <3>2, SMT
  <2>2. CASE k - Len(t) \in 1..Len(a) /\ l - Len(t) \in 1..Len(a)
    <3>1. PICK x \in 1..Len(a) : k = Len(t) + x
      BY <1>10, <2>2
    <3>2. PICK y \in 1..Len(a) : l = Len(t) + y
      BY <1>10, <2>2
    <3>3. a[x] = a[y]
      BY <1>4, <3>1, <3>2
    <3> QED BY <1>6, <3>1, <3>2, <3>3 DEF IsInjective
  <2>3. \A x \in 1..Len(t), y \in 1..Len(c) : y - Len(t) \in 1..Len(a) => c[x] # c[y]
    <3> SUFFICES ASSUME NEW x \in 1..Len(t), NEW y \in 1..Len(c), y - Len(t) \in 1..Len(a)
                 PROVE  c[x] # c[y]
      OBVIOUS
    <3>1. c[x] \in Range(q)
      BY <1>4, <1>6, <1>7 DEF Range
    <3>2. c[y] \in Range(a)
      <4>1. PICK z \in 1..Len(a) : y = Len(t) + z
        BY <1>10
      <4> QED BY <1>4, <1>6, <4>1 DEF Range
    <3> QED BY <3>1, <3>2
  <2> QED BY <1>5, <2>1, <2>2, <2>3
<1> QED BY <1>2, <1>3, <1>11, <1>12 DEF c, t

\* One file more in the order, and its dependents.
LEMMA PopInv ==
  ASSUME OrderInv, Pop
  PROVE  OrderInv'
<1> USE DEF OrderInv
<1> DEFINE j == Head(queue)
           gone(i) == {m \in project.uses[i] \cap DOMAIN module_to_file : module_to_file[m] = j}
           freed == {i \in Files : Edges(i, j) > 0 /\ in_degree'[i] = 0}
<1>1. /\ result = "none" /\ next = N + 1 /\ queue # << >> /\ order' = Append(order, j)
      /\ in_degree' = [i \in Files |-> in_degree[i] - Edges(i, j)]
      /\ queue' = Tail(queue) \o Ascending(freed)
      /\ UNCHANGED <<project, module_to_file, next, result>> /\ N \in Nat
  BY FilesFinite DEF Pop
<1>2. /\ \A i \in Files : in_degree[i] = Cardinality(Waiting(i))
      /\ Range(order) \cup Range(queue) = {i \in Files : Waiting(i) = {}}
      /\ order \in Seq(Files) /\ queue \in Seq(Files) /\ IsInjective(order) /\ IsInjective(queue)
  BY <1>1 DEF Kahn, ScanTypes
<1>3. Range(order) \cap Range(queue) = {}
  BY <1>2, LenProperties DEF Kahn, Range
<1>4. j \in Range(queue) /\ j \in Files /\ Waiting(j) = {} /\ j \notin Range(order)
  <2>1. j \in Range(queue) /\ j \in Files
    BY <1>1, <1>2, HeadTailProperties, EmptySeq, LenProperties DEF Range
  <2> QED BY <1>2, <1>3, <2>1
<1>5. Range(order)' = Range(order) \cup {j} /\ order' \in Seq(Files) /\ Len(order') = Len(order) + 1
      /\ order'[Len(order) + 1] = j /\ \A k \in 1..Len(order) : order'[k] = order[k]
      /\ Len(order) \in Nat
  <2>1. /\ order' \in Seq(Files) /\ Len(order') = Len(order) + 1 /\ Len(order) \in Nat
        /\ order'[Len(order) + 1] = j /\ \A k \in 1..Len(order) : order'[k] = order[k]
    BY <1>1, <1>2, <1>4
  <2>2. DOMAIN order' = 1..(Len(order) + 1) /\ DOMAIN order = 1..Len(order)
    BY <1>2, <2>1, LenProperties
  <2>3. 1..(Len(order) + 1) = 1..Len(order) \cup {Len(order) + 1}
    BY <2>1, SMT
  <2>4. Range(order)' = Range(order) \cup {j}
    BY <2>1, <2>2, <2>3 DEF Range
  <2> QED BY <2>1, <2>4
\* The modules of j are no longer waited for.
<1>6. ASSUME NEW i \in Files
      PROVE  /\ Waiting(i)' = Waiting(i) \ gone(i)
             /\ IsFiniteSet(Waiting(i)) /\ IsFiniteSet(Waiting(i)')
             /\ in_degree'[i] = Cardinality(Waiting(i)')
             /\ Edges(i, j) > 0 <=> Waiting(i) \cap gone(i) # {}
  <2>1. Waiting(i)' = Waiting(i) \ gone(i)
    BY <1>1, <1>5 DEF Waiting
  <2>2. IsFiniteSet(Waiting(i))
    BY <1>1, WaitingIsNeed
  <2>3. Edges(i, j) = Cardinality(Waiting(i) \cap gone(i))
    <3>1. CASE i = j
      BY <1>4, <3>1, FS_EmptySet DEF Edges
    <3>2. CASE i # j
      <4>1. gone(i) \subseteq Waiting(i)
        BY <1>4, <3>2 DEF Waiting
      <4>2. Waiting(i) \cap gone(i) = gone(i)
        BY <4>1
      <4> QED BY <3>2, <4>2 DEF Edges
    <3> QED BY <3>1, <3>2
  <2> HIDE DEF gone
  <2>4. /\ IsFiniteSet(Waiting(i) \ gone(i)) /\ IsFiniteSet(Waiting(i) \cap gone(i))
        /\ Cardinality(Waiting(i) \ gone(i)) = Cardinality(Waiting(i)) - Cardinality(Waiting(i) \cap gone(i))
    BY <2>2, FS_Difference, FS_Intersection
  <2>5. in_degree'[i] = Cardinality(Waiting(i)')
    BY <1>1, <1>2, <2>1, <2>3, <2>4
  <2>6. Edges(i, j) \in Nat /\ (Edges(i, j) = 0 <=> Waiting(i) \cap gone(i) = {})
    BY <2>3, <2>4, FS_EmptySet, FS_CardinalityType
  <2>7. Edges(i, j) > 0 <=> Waiting(i) \cap gone(i) # {}
    BY <2>6, SMT
  <2> QED BY <2>1, <2>2, <2>4, <2>5, <2>7
<1>7. freed = {i \in Files : Waiting(i) # {} /\ Waiting(i)' = {}}
  <2>1. ASSUME NEW i \in Files
        PROVE  Edges(i, j) > 0 /\ in_degree'[i] = 0 <=> Waiting(i) # {} /\ Waiting(i)' = {}
    <3>1. in_degree'[i] = 0 <=> Waiting(i)' = {}
      BY <1>6, FS_EmptySet
    <3>2. Waiting(i) # {} /\ Waiting(i)' = {} => Waiting(i) \cap gone(i) # {}
      BY <1>6
    <3> QED BY <1>6, <3>1, <3>2
  <2> QED BY <2>1
<1>8. /\ Ascending(freed) \in Seq(Files) /\ Range(Ascending(freed)) = freed
      /\ IsInjective(Ascending(freed))
  BY AscendingIs
<1>9. /\ queue' \in Seq(Files) /\ Range(queue)' = (Range(queue) \ {j}) \cup freed
      /\ IsInjective(queue)'
  <2>1. freed \cap Range(queue) = {}
    BY <1>2, <1>7
  <2> HIDE DEF freed, j
  <2>2. /\ Tail(queue) \o Ascending(freed) \in Seq(Files)
        /\ Range(Tail(queue) \o Ascending(freed)) = (Range(queue) \ {Head(queue)}) \cup Range(Ascending(freed))
        /\ IsInjective(Tail(queue) \o Ascending(freed))
    BY <1>1, <1>2, <1>8, <2>1, QueueParts
  <2> QED BY <1>1, <1>8, <2>2 DEF j
<1> HIDE DEF freed
<1>10. ScanTypes'
  BY <1>1, <1>5, <1>9 DEF ScanTypes
<1>11. Table'
  BY <1>1 DEF Table
<1>12. Range(order)' \cup Range(queue)' = {i \in Files : Waiting(i)' = {}}
  <2>1. \A i \in Files : Waiting(i) = {} => Waiting(i)' = {}
    BY <1>6
  <2>2. Range(order)' \cup Range(queue)' = Range(order) \cup Range(queue) \cup freed
    BY <1>4, <1>5, <1>9
  <2> QED BY <1>2, <1>7, <2>1, <2>2
<1>13. Range(order)' \cap Range(queue)' = {}
  BY <1>2, <1>3, <1>4, <1>5, <1>7, <1>9
<1>14. IsInjective(order)'
  <2>1. DOMAIN order' = 1..(Len(order) + 1) /\ DOMAIN order = 1..Len(order)
    BY <1>2, <1>5, LenProperties
  <2>2. \A k \in 1..Len(order) : order[k] # j
    BY <1>4, <2>1 DEF Range
  <2>3. \A k \in 1..(Len(order) + 1) : k \in 1..Len(order) \/ k = Len(order) + 1
    BY <1>5, SMT
  <2> QED BY <1>2, <1>5, <2>1, <2>2, <2>3 DEF IsInjective
<1>15. ASSUME NEW k \in 1..Len(order'), NEW f \in Files, Needs(order'[k], f)
       PROVE  \E l \in 1..(k - 1) : order'[l] = f
  <2>1. Needs(order'[k], f)
    BY <1>15
  <2>2. CASE k \in 1..Len(order)
    <3>1. PICK l \in 1..(k - 1) : order[l] = f
      BY <1>5, <2>1, <2>2 DEF Kahn
    <3>2. l \in 1..Len(order)
      BY <1>5, <2>2, SMT
    <3> QED BY <1>5, <3>1, <3>2
  <2>3. CASE k = Len(order) + 1
    <3>1. Needs(j, f)
      BY <1>5, <2>1, <2>3
    <3>2. f \in Range(order)
      BY <1>1, <1>4, <3>1, WaitingIsNeed
    <3>3. PICK l \in 1..Len(order) : order[l] = f
      BY <1>2, <3>2, LenProperties DEF Range
    <3>4. l \in 1..(k - 1)
      BY <1>5, <2>3, SMT
    <3> QED BY <1>5, <3>3, <3>4
  <2>4. k \in 1..Len(order) \/ k = Len(order) + 1
    BY <1>5, SMT
  <2> QED BY <2>2, <2>3, <2>4
<1>16. Kahn'
  <2>1. \A k \in 1..Len(order)', l \in 1..Len(queue)' : order'[k] # queue'[l]
    <3>1. \A k \in 1..Len(order)' : order'[k] \in Range(order)'
      BY <1>5, LenProperties DEF Range
    <3>2. \A l \in 1..Len(queue)' : queue'[l] \in Range(queue)'
      BY <1>9, LenProperties DEF Range
    <3> QED BY <1>13, <3>1, <3>2
  <2>2. ~(next' <= N)
    BY <1>1
  <2>3. in_degree' = [i \in Files |-> in_degree'[i]]
    BY <1>1
  <2>4. \A i \in Files : in_degree'[i] = Cardinality(Waiting(i)')
    BY <1>6
  <2>5. \A k \in 1..Len(order)' : \A f \in Files :
          Needs(order[k], f)' => \E l \in 1..(k - 1) : order'[l] = f
    BY <1>1, <1>15 DEF Needs
  <2> QED BY <1>9, <1>12, <1>14, <2>1, <2>2, <2>3, <2>4, <2>5 DEF Kahn
<1>17. Verdict'
  BY <1>1 DEF Verdict
<1> QED BY <1>10, <1>11, <1>16, <1>17

\* When the queue is empty the files are ordered, or some are left over.
LEMMA FinishInv ==
  ASSUME OrderInv, Finish
  PROVE  OrderInv'
<1> USE DEF OrderInv
<1>1. /\ result = "none" /\ next = N + 1 /\ queue = << >>
      /\ result' = IF Len(order) = N THEN "ordered" ELSE "cycle"
      /\ UNCHANGED <<project, module_to_file, in_degree, queue, order, next>>
  BY DEF Finish
<1>2. ScanTypes' /\ Table'
  BY <1>1 DEF ScanTypes, Table
<1>3. Kahn'
  BY <1>1 DEF Kahn, Waiting, Needs
<1>4. Verdict'
  BY <1>1 DEF Verdict
<1> QED BY <1>2, <1>3, <1>4

\* The order is the only place that looks at the files' dependences.
LEMMA OrderKept ==
  ASSUME OrderInv, UNCHANGED <<project, module_to_file, in_degree, queue, order, next>>,
         result' = result \/ (result' = "unreadable" /\ result = "scanning")
  PROVE  OrderInv'
<1> USE DEF OrderInv
<1>1. ScanTypes' /\ Table'
  BY DEF ScanTypes, Table
<1>2. Kahn'
  BY DEF Kahn, Waiting, Needs
<1>3. Verdict'
  BY DEF Verdict, Duplicated
<1> QED BY <1>1, <1>2, <1>3

\* Every step of the scan and of the resolution preserves the invariant.
LEMMA OrderNext == OrderInv /\ [ScanNext]_<<vars, ppvars>> => OrderInv'
<1> SUFFICES ASSUME OrderInv, [ScanNext]_<<vars, ppvars>> PROVE OrderInv'
  OBVIOUS
<1>1. CASE Preprocessing
  BY <1>1, OrderKept DEF Preprocessing, vars
<1>2. CASE ScanFile
  BY <1>2, ResolveInv DEF ScanFile
<1>3. CASE ScanError
  BY <1>3, OrderKept DEF ScanError
<1>4. ASSUME NEW i \in Files, Define(i) PROVE OrderInv'
  BY <1>4, DefineInv
<1>5. CASE Count
  BY <1>5, CountInv
<1>6. CASE Pop
  BY <1>6, PopInv
<1>7. CASE Finish
  BY <1>7, FinishInv
<1>8. CASE UNCHANGED vars
  BY <1>8, OrderKept DEF vars
<1> QED BY <1>1, <1>2, <1>3, <1>4, <1>5, <1>6, <1>7, <1>8 DEF ScanNext, Order, Done

\* The invariant of the table, the in-degrees and the order holds throughout.
THEOREM OrderInvariant == ScanSpec => []OrderInv
<1>1. ScanInit => OrderInv
  BY OrderInit DEF ScanInit
<1> QED BY <1>1, OrderNext, PTL DEF ScanSpec

-----------------------------------------------------------------------------
\* A file of a knot is never placed: the first one that is would need one that
\* is placed before it.
LEMMA KnotsWait ==
  ASSUME OrderInv, NEW S \in SUBSET Files, Knot(S)
  PROVE  S \cap Range(order) = {}
<1> DEFINE at == {k \in 1..Len(order) : order[k] \in S}
<1>1. order \in Seq(Files) /\ Len(order) \in Nat /\ DOMAIN order = 1..Len(order)
  BY LenProperties DEF OrderInv, ScanTypes
<1>2. SUFFICES ASSUME at # {} PROVE FALSE
  BY <1>1 DEF Range
<1>3. PICK k \in at : \A l \in at : ~(l < k)
  <2>1. PICK k \in at : \A l \in at : <<l, k>> \notin OpToRel(<, Nat)
    <3>1. at \subseteq Nat
      BY <1>1
    <3> HIDE DEF at
    <3> QED BY <1>2, <3>1, NatLessThanWellFounded, WFMin
  <2>2. \A l \in at : l < k => <<l, k>> \in OpToRel(<, Nat)
    BY <1>1 DEF OpToRel
  <2> QED BY <2>1, <2>2
<1>4. PICK j \in S : Needs(order[k], j)
  BY DEF Knot
<1>5. PICK l \in 1..(k - 1) : order[l] = j
  BY <1>4 DEF OrderInv, Kahn
<1>6. l \in at /\ l < k
  BY <1>1, <1>4, <1>5
<1> QED BY <1>3, <1>6

\* No file is compiled before a file whose modules it uses, none twice, and an
\* order that is returned is complete: for any number of files and any modules.
THEOREM OrderRespectsUses == ScanSpec => []DependencesFirst
<1>1. OrderInv => DependencesFirst
  <2> SUFFICES ASSUME OrderInv PROVE DependencesFirst
    OBVIOUS
  <2>1. /\ order \in Seq(Files) /\ queue \in Seq(Files) /\ Len(order) \in Nat /\ Len(queue) \in Nat
        /\ DOMAIN order = 1..Len(order) /\ DOMAIN queue = 1..Len(queue)
    BY LenProperties DEF OrderInv, ScanTypes
  <2> DEFINE c == order \o queue
  <2>2. /\ DOMAIN c = 1..(Len(order) + Len(queue))
        /\ \A k \in 1..Len(order) : c[k] = order[k]
        /\ \A k \in 1..Len(queue) : c[Len(order) + k] = queue[k]
    BY <2>1, SMT
  <2>3. \A k \in 1..(Len(order) + Len(queue)) :
          k \in 1..Len(order) \/ \E l \in 1..Len(queue) : k = Len(order) + l
    <3> TAKE k \in 1..(Len(order) + Len(queue))
    <3>1. k \in 1..Len(order) \/ (k - Len(order) \in 1..Len(queue) /\ k = Len(order) + (k - Len(order)))
      BY <2>1, SMT
    <3> QED BY <3>1
  <2> HIDE DEF c
  <2>4. ASSUME NEW a \in DOMAIN c, NEW b \in DOMAIN c, c[a] = c[b] PROVE a = b
    <3>1. CASE a \in 1..Len(order) /\ b \in 1..Len(order)
      BY <2>1, <2>2, <2>4, <3>1 DEF OrderInv, Kahn, IsInjective
    <3>2. ASSUME NEW k \in 1..Len(queue), NEW l \in 1..Len(queue),
                 a = Len(order) + k, b = Len(order) + l
          PROVE  a = b
      BY <2>1, <2>2, <2>4, <3>2 DEF OrderInv, Kahn, IsInjective
    <3>3. ~(a \in 1..Len(order) /\ \E l \in 1..Len(queue) : b = Len(order) + l)
      BY <2>2, <2>4 DEF OrderInv, Kahn
    <3>4. ~(b \in 1..Len(order) /\ \E l \in 1..Len(queue) : a = Len(order) + l)
      BY <2>2, <2>4 DEF OrderInv, Kahn
    <3> QED BY <2>2, <2>3, <3>1, <3>2, <3>3, <3>4
  <2>5. IsInjective(order \o queue)
    BY <2>4 DEF IsInjective, c
  <2> QED BY <2>5 DEF DependencesFirst, OrderInv, Kahn, Verdict
<1> QED BY <1>1, OrderInvariant, PTL

\* A build is refused exactly for a module with two files or for files that wait
\* for one another, and the message then names every file of such a set.
THEOREM RefusalsAreRight == ScanSpec => []RefusedRightly
<1>1. OrderInv => RefusedRightly
  <2> SUFFICES ASSUME OrderInv PROVE RefusedRightly
    OBVIOUS
  <2> USE DEF OrderInv
  <2>1. /\ order \in Seq(Files) /\ Len(order) \in Nat /\ DOMAIN order = 1..Len(order)
        /\ Range(order) \subseteq Files
    BY LenProperties DEF ScanTypes, Range
  <2>2. ASSUME result \in {"ordered", "cycle"} PROVE ~Duplicated
    <3> SUFFICES ASSUME Duplicated PROVE FALSE
      OBVIOUS
    <3>1. PICK i \in Files : \E j \in Files : i # j /\ project.defines[i] \cap project.defines[j] # {}
      BY DEF Duplicated
    <3>2. PICK j \in Files : i # j /\ project.defines[i] \cap project.defines[j] # {}
      BY <3>1
    <3>3. i < next /\ j < next
      BY <2>2, FilesFinite, SMT DEF Verdict, Files
    <3> QED BY <3>2, <3>3 DEF Table
  <2>3. Len(order) = N <=> Range(order) = Files
    <3>1. order \in Injection(1..Len(order), Files)
      BY <2>1 DEF Injection, Kahn
    <3>2. Cardinality(1..Len(order)) = Len(order)
      BY <2>1, FS_Interval
    <3>3. Cardinality(1..Len(order)) = Cardinality(Files) <=> order \in Surjection(1..Len(order), Files)
      BY <3>1, FilesFinite, FS_Injection
    <3>4. order \in Surjection(1..Len(order), Files) <=> Range(order) = Files
      BY <2>1, <3>1 DEF Surjection, Injection, Range
    <3> QED BY <3>2, <3>3, <3>4, FilesFinite
  <2>4. ASSUME result = "ordered", NEW S \in SUBSET Files PROVE ~Knot(S)
    BY <2>3, <2>4, KnotsWait DEF Verdict, Knot
  <2>5. ASSUME result = "cycle"
        PROVE  /\ \E S \in SUBSET Files : Knot(S)
               /\ \A S \in SUBSET Files : Knot(S) => \A i \in S : in_degree[i] > 0
    <3>1. /\ next = N + 1 /\ queue = << >> /\ Range(order) # Files
          /\ Range(order) = {i \in Files : Waiting(i) = {}}
          /\ \A i \in Files : in_degree[i] = Cardinality(Waiting(i))
      BY <2>3, <2>5 DEF Verdict, Kahn, Range
    <3> DEFINE S == Files \ Range(order)
    <3>2. S # {}
      BY <2>1, <3>1
    <3>3. ASSUME NEW i \in S PROVE \E j \in S : Needs(i, j)
      <4>1. PICK m \in Waiting(i) : TRUE
        BY <3>1
      <4> QED BY <3>1, <4>1, WaitingIsNeed
    <3>4. Knot(S)
      BY <3>2, <3>3 DEF Knot
    <3>5. ASSUME NEW T \in SUBSET Files, Knot(T), NEW i \in T PROVE in_degree[i] > 0
      <4>1. Waiting(i) # {}
        BY <3>1, <3>5, KnotsWait
      <4>2. IsFiniteSet(Waiting(i))
        BY <3>1, WaitingIsNeed
      <4>3. Cardinality(Waiting(i)) \in Nat /\ Cardinality(Waiting(i)) # 0
        BY <4>1, <4>2, FS_EmptySet, FS_CardinalityType
      <4> QED BY <3>1, <4>3
    <3> QED BY <3>4, <3>5
  <2> QED BY <2>2, <2>4, <2>5 DEF RefusedRightly, Verdict
<1> QED BY <1>1, OrderInvariant, PTL
=============================================================================
