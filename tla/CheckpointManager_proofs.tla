---------------------- MODULE CheckpointManager_proofs ----------------------
(***************************************************************************)
(* Theorems about the checkpoint directory, for any number of steps, saves   *)
(* and crashes, and any number of checkpoints to keep.                       *)
(***************************************************************************)
EXTENDS CheckpointManager, FiniteSetTheorems, FunctionTheorems,
        WellFoundedInduction, TLAPS

-------------------------------------------------------------------------------
(* The directory's contents.                                                 *)

\* The three kinds of directories never share a name.
LEMMA NamesDiffer ==
    \A s, t : /\ Tmp(s) # Step(t) /\ Tmp(s) # Old(t) /\ Step(s) # Old(t)
              /\ Step(s) = Step(t) <=> s = t
              /\ Old(s) = Old(t) <=> s = t
              /\ Tmp(s) = Tmp(t) <=> s = t
BY DEF Tmp, Step, Old

\* A directory that the step does not touch.
Same(n) == /\ Exists(n)' <=> Exists(n)
           /\ Exists(n) => dirs'[n] = dirs[n]

\* A directory is written.
LEMMA WithEffect ==
    ASSUME NEW n, NEW c, dirs' = With(n, c)
    PROVE  /\ Exists(n)' /\ dirs'[n] = c
           /\ \A x : x # n => Same(x)
BY DEF With, Same, Exists

\* A directory is renamed.
LEMMA RenamedEffect ==
    ASSUME NEW n, NEW m, n # m, dirs' = Renamed(n, m)
    PROVE  /\ ~Exists(n)' /\ Exists(m)' /\ dirs'[m] = dirs[n]
           /\ \A x : x # n /\ x # m => Same(x)
BY DEF Renamed, Same, Exists

\* Deleting a directory takes files away from it, one by one, and from no other.
LEMMA RmTreeEffect ==
    ASSUME NEW n, Exists(n), RmTree(n)
    PROVE  /\ Exists(n)' => dirs'[n] \subseteq dirs[n]
           /\ \A x : x # n => Same(x)
           /\ \A x : Exists(x)' => Exists(x) /\ dirs'[x] \subseteq dirs[x]
<1>1. CASE dirs[n] = {}
  <2>1. dirs' = Without(n)
    BY <1>1 DEF RmTree
  <2> QED
    BY <2>1 DEF Without, Same, Exists
<1>2. CASE dirs[n] # {}
  <2> PICK x \in dirs[n] : dirs' = With(n, dirs[n] \ {x})
    BY <1>2 DEF RmTree
  <2>1. /\ Exists(n)' /\ dirs'[n] = dirs[n] \ {x}
        /\ \A y : y # n => Same(y)
    BY WithEffect
  <2>2. \A y : Exists(y)' => Exists(y) /\ dirs'[y] \subseteq dirs[y]
    BY <2>1 DEF Same
  <2> QED
    BY <2>1, <2>2
<1> QED
  BY <1>1, <1>2

-------------------------------------------------------------------------------
(* What a directory holds.                                                   *)

SaveRecords ==
    [step : Steps, metric : Metrics \cup {NoMetric}, files : Layouts]

States == {"training", "clearing_tmp", "writing", "moved_aside", "deleting_old",
           "retention", "removing", "raised"}

FilesOf(i) == {<<f, i>> : f \in saves[i].files}

\* The directory n belongs to step s: what it holds comes from one finalized save.
OwnedBy(n, s) ==
    Exists(n) => \E i \in finalized :
                     saves[i].step = s /\ dirs[n] \subseteq FilesOf(i)

Typed ==
    /\ saves \in Seq(SaveRecords)
    /\ pc \in States
    /\ layout \in Layouts
    /\ finalized \subseteq 1 .. ThisSave
    /\ crashes \in Nat

\* The save in progress, and how far its directories have come.
SaveSound ==
    /\ pc # "training" =>
           /\ ThisSave >= 1 /\ target \in Steps
           /\ saves[ThisSave].step = target /\ saves[ThisSave].files = layout
    /\ pc \in {"clearing_tmp", "writing", "moved_aside"} => ThisSave \notin finalized
    /\ pc \in {"deleting_old", "retention"} =>
           /\ ThisSave \in finalized
           /\ Exists(Step(target)) /\ dirs[Step(target)] = FilesOf(ThisSave)
    /\ pc \in {"writing", "moved_aside"} =>
           Exists(Tmp(target)) /\ dirs[Tmp(target)] \subseteq FilesOf(ThisSave)
    /\ pc = "moved_aside" =>
           /\ dirs[Tmp(target)] = FilesOf(ThisSave)
           /\ ~Exists(Step(target)) /\ Exists(Old(target))

Owned == \A s \in Steps : OwnedBy(Step(s), s) /\ OwnedBy(Old(s), s)

Sound == Typed /\ SaveSound /\ Owned

\* The saves that were begun, and the finalized ones, are a history.
SavesKept ==
    /\ finalized \subseteq finalized'
    /\ ThisSave' >= ThisSave
    /\ \A i \in 1 .. ThisSave : saves'[i] = saves[i]

\* A directory keeps its owner when it is left alone or loses files.
LEMMA OwnedShrinks ==
    ASSUME Typed, NEW n, NEW s, OwnedBy(n, s),
           Exists(n)' => Exists(n) /\ dirs'[n] \subseteq dirs[n],
           finalized \subseteq finalized',
           \A i \in 1 .. ThisSave : saves'[i] = saves[i]
    PROVE  OwnedBy(n, s)'
<1> SUFFICES ASSUME Exists(n)'
             PROVE  \E i \in finalized' : /\ saves'[i].step = s
                                          /\ dirs'[n] \subseteq FilesOf(i)'
  BY DEF OwnedBy
<1> PICK i \in finalized : saves[i].step = s /\ dirs[n] \subseteq FilesOf(i)
  BY DEF OwnedBy
<1>1. i \in 1 .. ThisSave /\ saves'[i] = saves[i]
  BY DEF Typed
<1>2. FilesOf(i)' = FilesOf(i)
  BY <1>1 DEF FilesOf
<1> QED
  BY <1>1, <1>2

\* When all the files have been written, the directory holds exactly the save.
LEMMA WrittenWhole ==
    ASSUME Sound, pc = "writing", WritingDone
    PROVE  dirs[Tmp(target)] = FilesOf(ThisSave)
<1>1. \A f \in layout : <<f, ThisSave>> \in dirs[Tmp(target)]
  BY DEF WritingDone
<1>2. saves[ThisSave].files = layout /\ dirs[Tmp(target)] \subseteq FilesOf(ThisSave)
  BY DEF Sound, SaveSound
<1> QED
  BY <1>1, <1>2 DEF FilesOf

\* So do all the directories of a step that creates none of them.
LEMMA AllOwnedShrink ==
    ASSUME Typed, Owned,
           \A t \in Steps : \A n \in {Step(t), Old(t)} :
               Exists(n)' => Exists(n) /\ dirs'[n] \subseteq dirs[n],
           finalized \subseteq finalized',
           \A i \in 1 .. ThisSave : saves'[i] = saves[i]
    PROVE  Owned'
<1>1. ASSUME NEW s \in Steps
      PROVE  OwnedBy(Step(s), s)' /\ OwnedBy(Old(s), s)'
  BY <1>1, OwnedShrinks DEF Owned
<1> QED
  BY <1>1 DEF Owned

-------------------------------------------------------------------------------
(* Every action keeps the directories sound.                                 *)

\* At the start there is no directory and no save.
LEMMA SoundInit == Init => Sound
<1> SUFFICES ASSUME Init PROVE Sound
  OBVIOUS
<1>1. Len(saves) = 0 /\ \A n : ~Exists(n)
  BY DEF Init, Exists
<1>2. Typed
  BY <1>1 DEF Init, Typed, States, ThisSave
<1>3. SaveSound /\ Owned
  BY <1>1 DEF Init, SaveSound, Owned, OwnedBy
<1> QED
  BY <1>2, <1>3 DEF Sound

\* init_tmp_checkpoint: a save begins, and what an interrupted one left goes.
LEMMA SoundBegins ==
    ASSUME Sound,
           \/ \E s \in Steps, m \in Metrics \cup {NoMetric} : BeginSave(s, m)
           \/ ClearTmp \/ MakeTmp
    PROVE  Sound'
<1> USE DEF Sound
<1>1. ASSUME NEW s \in Steps, NEW m \in Metrics \cup {NoMetric}, BeginSave(s, m)
      PROVE  Sound'
  <2> DEFINE r == [step |-> s, metric |-> m, files |-> layout]
  <2>1. r \in SaveRecords /\ saves' = Append(saves, r)
    BY <1>1 DEF BeginSave, SaveRecords, Typed
  <2>2. /\ saves' \in Seq(SaveRecords) /\ ThisSave \in Nat /\ ThisSave' = ThisSave + 1
        /\ saves'[ThisSave'] = r
        /\ \A i \in 1 .. ThisSave : saves'[i] = saves[i]
    <3> HIDE DEF r
    <3> QED
      BY <2>1 DEF Typed, ThisSave
  <2>3. /\ pc' = "clearing_tmp" /\ target' = s
        /\ UNCHANGED <<dirs, layout, finalized, crashes>>
    BY <1>1 DEF BeginSave
  <2>4. Typed'
    BY <2>2, <2>3 DEF Typed, States
  <2>5. SaveSound'
    BY <2>2, <2>3 DEF SaveSound, Typed
  <2>6. Owned'
    BY <2>2, <2>3, AllOwnedShrink DEF Exists
  <2> QED
    BY <2>4, <2>5, <2>6
<1>2. CASE ClearTmp
  <2>1. /\ pc = "clearing_tmp" /\ Exists(Tmp(target)) /\ RmTree(Tmp(target))
        /\ UNCHANGED <<saves, pc, target, layout, toRemove, finalized, crashes>>
    BY <1>2 DEF ClearTmp
  <2>2. \A x : Exists(x)' => Exists(x) /\ dirs'[x] \subseteq dirs[x]
    BY <2>1, RmTreeEffect
  <2>3. Typed' /\ SaveSound'
    BY <2>1 DEF Typed, SaveSound, ThisSave
  <2>4. Owned'
    BY <2>1, <2>2, AllOwnedShrink
  <2> QED
    BY <2>3, <2>4
<1>3. CASE MakeTmp
  <2>1. /\ pc = "clearing_tmp" /\ pc' = "writing"
        /\ dirs' = With(Tmp(target), {<<"training_info", ThisSave>>})
        /\ UNCHANGED <<saves, target, layout, toRemove, finalized, crashes>>
    BY <1>3 DEF MakeTmp
  <2>2. /\ Exists(Tmp(target))' /\ dirs'[Tmp(target)] = {<<"training_info", ThisSave>>}
        /\ \A x : x # Tmp(target) => Same(x)
    BY <2>1, WithEffect
  <2>3. "training_info" \in saves[ThisSave].files
    BY <2>1 DEF SaveSound, Typed, Layouts, Always
  <2>4. dirs'[Tmp(target)] \subseteq FilesOf(ThisSave)
    BY <2>2, <2>3 DEF FilesOf
  <2>5. Typed'
    BY <2>1 DEF Typed, States, ThisSave
  <2>6. SaveSound'
    BY <2>1, <2>2, <2>4, ZenonT(60) DEF SaveSound, ThisSave, FilesOf
  <2>7. Owned'
    BY <2>1, <2>2, AllOwnedShrink, NamesDiffer, SMTT(60) DEF Same
  <2> QED
    BY <2>5, <2>6, <2>7
<1> QED
  BY <1>1, <1>2, <1>3

\* The trainer writes a file of this save into tmp_step_N.
LEMMA SoundWrites ==
    ASSUME Sound, WriteFile
    PROVE  Sound'
<1> USE DEF Sound
<1>1. PICK f \in layout : dirs' = With(Tmp(target), Written(Tmp(target), f))
  BY DEF WriteFile
<1>2. /\ pc = "writing"
      /\ UNCHANGED <<saves, pc, target, layout, toRemove, finalized, crashes>>
  BY DEF WriteFile
<1>3. /\ Exists(Tmp(target))' /\ dirs'[Tmp(target)] = Written(Tmp(target), f)
      /\ \A x : x # Tmp(target) => Same(x)
  BY <1>1, <1>2, WithEffect
<1>4. Written(Tmp(target), f) \subseteq FilesOf(ThisSave)
  BY <1>2 DEF SaveSound, Written, FilesOf
<1>5. Typed'
  BY <1>2 DEF Typed, ThisSave
<1>6. SaveSound'
  BY <1>2, <1>3, <1>4 DEF SaveSound, ThisSave, FilesOf
<1>7. Owned'
  BY <1>2, <1>3, AllOwnedShrink, NamesDiffer DEF Same
<1> QED
  BY <1>5, <1>6, <1>7

\* What the renames of finalize_checkpoint do: tmp_step_N becomes step_N.
LEMMA Finalized ==
    ASSUME Sound, Promote \/ Replace
    PROVE  /\ target \in Steps /\ ThisSave \in 1 .. Len(saves)
           /\ saves[ThisSave].step = target
           /\ ThisSave \notin finalized
           /\ finalized' = finalized \cup {ThisSave} /\ SavesKept
           /\ pc \in {"writing", "moved_aside"} /\ pc' \in {"retention", "deleting_old"}
           /\ ~Exists(Step(target))
           /\ Exists(Step(target))' /\ dirs'[Step(target)] = FilesOf(ThisSave)
           /\ \A x : x # Step(target) /\ x # Tmp(target) => Same(x)
           /\ UNCHANGED <<saves, target, layout, toRemove, crashes>>
<1>1. /\ pc \in {"writing", "moved_aside"} /\ pc' \in {"retention", "deleting_old"}
      /\ dirs' = Renamed(Tmp(target), Step(target))
      /\ finalized' = finalized \cup {ThisSave}
      /\ UNCHANGED <<saves, target, layout, toRemove, crashes>>
  BY DEF Promote, Replace
<1>2. dirs[Tmp(target)] = FilesOf(ThisSave) /\ ~Exists(Step(target))
  <2>1. CASE Promote
    BY <2>1, WrittenWhole DEF Promote
  <2>2. CASE Replace
    BY <2>2 DEF Replace, Sound, SaveSound
  <2> QED
    BY <2>1, <2>2
<1>3. /\ Exists(Step(target))' /\ dirs'[Step(target)] = FilesOf(ThisSave)
      /\ \A x : x # Step(target) /\ x # Tmp(target) => Same(x)
  BY <1>1, <1>2, RenamedEffect, NamesDiffer
<1>4. /\ target \in Steps /\ ThisSave \in 1 .. Len(saves)
      /\ saves[ThisSave].step = target /\ ThisSave \notin finalized
  BY <1>1 DEF Sound, SaveSound, Typed, ThisSave
<1>5. SavesKept
  BY <1>1 DEF SavesKept, ThisSave, Sound, Typed
<1> QED
  BY <1>1, <1>2, <1>3, <1>4, <1>5

\* finalize_checkpoint
LEMMA SoundFinalizes ==
    ASSUME Sound, Promote \/ Replace
    PROVE  Sound'
<1> USE DEF Sound
<1>1. /\ pc' \in {"retention", "deleting_old"}
      /\ pc # "training"
  BY DEF Promote, Replace
<1>2. FilesOf(ThisSave)' = FilesOf(ThisSave) /\ ThisSave' = ThisSave
  BY Finalized DEF FilesOf, ThisSave
<1>3. Typed'
  BY <1>1, Finalized DEF Typed, States, ThisSave
<1>4. SaveSound'
  BY <1>1, <1>2, Finalized DEF SaveSound
<1>5. ASSUME NEW s \in Steps
      PROVE  OwnedBy(Step(s), s)' /\ OwnedBy(Old(s), s)'
  <2>1. OwnedBy(Old(s), s)'
    BY <1>5, Finalized, OwnedShrinks, NamesDiffer DEF Same, Owned
  <2>2. CASE s = target
    <3>1. ThisSave \in finalized' /\ saves'[ThisSave].step = s
      BY <2>2, Finalized
    <3>2. dirs'[Step(s)] \subseteq FilesOf(ThisSave)'
      BY <1>2, <2>2, Finalized
    <3> HIDE DEF Sound
    <3>3. saves'[ThisSave].step = s /\ FilesOf(ThisSave)' = {<<f, ThisSave>> : f \in saves'[ThisSave].files}
      BY <1>2, <3>1, Finalized DEF FilesOf
    <3>4. OwnedBy(Step(s), s)'
      BY <3>1, <3>2, <3>3 DEF OwnedBy, FilesOf
    <3> QED
      BY <2>1, <3>4
  <2>3. CASE s # target
    BY <1>5, <2>1, <2>3, Finalized, OwnedShrinks, NamesDiffer DEF Same, Owned
  <2> QED
    BY <2>2, <2>3
<1> QED
  BY <1>3, <1>4, <1>5 DEF Owned

\* What the first rename does: step_N becomes old_step_N.
LEMMA MovedAside ==
    ASSUME Sound, MoveAside
    PROVE  /\ target \in Steps
           /\ Exists(Step(target)) /\ ~Exists(Step(target))'
           /\ Exists(Old(target))' /\ dirs'[Old(target)] = dirs[Step(target)]
           /\ \A x : x # Step(target) /\ x # Old(target) => Same(x)
           /\ dirs[Tmp(target)] = FilesOf(ThisSave)
           /\ pc = "writing" /\ pc' = "moved_aside"
           /\ UNCHANGED <<saves, target, layout, toRemove, finalized, crashes>>
<1>1. /\ pc = "writing" /\ pc' = "moved_aside" /\ WritingDone
      /\ Exists(Step(target))
      /\ dirs' = Renamed(Step(target), Old(target))
      /\ UNCHANGED <<saves, target, layout, toRemove, finalized, crashes>>
  BY DEF MoveAside
<1>2. dirs[Tmp(target)] = FilesOf(ThisSave)
  BY <1>1, WrittenWhole
<1>3. /\ ~Exists(Step(target))' /\ Exists(Old(target))'
      /\ dirs'[Old(target)] = dirs[Step(target)]
      /\ \A x : x # Step(target) /\ x # Old(target) => Same(x)
  BY <1>1, RenamedEffect, NamesDiffer
<1> QED
  BY <1>1, <1>2, <1>3 DEF Sound, SaveSound

\* An existing step_N is moved aside, and deleted when the new one is there.
LEMMA SoundReplaces ==
    ASSUME Sound, MoveAside \/ MoveAsideFails \/ DeleteOld
    PROVE  Sound'
<1> USE DEF Sound
<1>1. CASE MoveAside
  <2>1. Typed'
    BY <1>1, MovedAside DEF Typed, States, ThisSave
  <2>2. Same(Tmp(target)) /\ FilesOf(ThisSave)' = FilesOf(ThisSave)
    BY <1>1, MovedAside, NamesDiffer DEF FilesOf, ThisSave
  <2>3. SaveSound'
    BY <1>1, <2>2, MovedAside DEF SaveSound, Same, ThisSave
  <2>4. ASSUME NEW s \in Steps
        PROVE  OwnedBy(Step(s), s)' /\ OwnedBy(Old(s), s)'
    <3>1. CASE s = target
      <4>1. PICK i \in finalized : saves[i].step = s /\ dirs[Step(s)] \subseteq FilesOf(i)
        BY <1>1, <2>4, <3>1, MovedAside DEF Owned, OwnedBy
      <4>2. i \in finalized' /\ saves'[i].step = s /\ dirs'[Old(s)] \subseteq FilesOf(i)'
        BY <1>1, <3>1, <4>1, MovedAside DEF FilesOf
      <4> QED
        BY <1>1, <3>1, <4>2, MovedAside DEF OwnedBy, FilesOf
    <3>2. CASE s # target
      <4>1. Same(Step(s)) /\ Same(Old(s))
        BY <1>1, <3>2, MovedAside, NamesDiffer
      <4> QED
        BY <1>1, <2>4, <4>1, MovedAside, OwnedShrinks DEF Same, Owned
    <3> QED
      BY <3>1, <3>2
  <2> QED
    BY <2>1, <2>3, <2>4 DEF Owned
<1>2. CASE MoveAsideFails
  <2>1. /\ pc' = "raised" /\ pc = "writing"
        /\ UNCHANGED <<dirs, saves, target, layout, toRemove, finalized, crashes>>
    BY <1>2 DEF MoveAsideFails
  <2>2. Typed' /\ SaveSound'
    BY <2>1 DEF Typed, States, SaveSound, ThisSave
  <2>3. Owned'
    BY <2>1, AllOwnedShrink DEF Exists
  <2> QED
    BY <2>2, <2>3
<1>3. CASE DeleteOld
  <2>1. /\ pc = "deleting_old" /\ pc' \in {"deleting_old", "retention"}
        /\ UNCHANGED <<saves, target, layout, toRemove, finalized, crashes>>
    BY <1>3 DEF DeleteOld
  <2>2. /\ Same(Step(target))
        /\ \A x : Exists(x)' => Exists(x) /\ dirs'[x] \subseteq dirs[x]
    <3>1. CASE Exists(Old(target))
      BY <1>3, <3>1, RmTreeEffect, NamesDiffer DEF DeleteOld
    <3>2. CASE ~Exists(Old(target))
      BY <1>3, <3>2 DEF DeleteOld, Same, Exists
    <3> QED
      BY <3>1, <3>2
  <2>3. Typed'
    BY <2>1 DEF Typed, States, ThisSave
  <2>4. SaveSound'
    BY <2>1, <2>2 DEF SaveSound, ThisSave, Same, FilesOf
  <2>5. Owned'
    BY <2>1, <2>2, AllOwnedShrink
  <2> QED
    BY <2>3, <2>4, <2>5
<1> QED
  BY <1>1, <1>2, <1>3

\* remove_old_checkpoints, and a crash: directories are only taken away.
LEMMA SoundRemoves ==
    ASSUME Sound, RemoveOldCheckpoints \/ RemoveOne \/ SaveDone \/ CrashAndResume
    PROVE  Sound'
<1> USE DEF Sound
<1>1. /\ \A x : Exists(x)' => Exists(x) /\ dirs'[x] \subseteq dirs[x]
      /\ UNCHANGED <<saves, finalized>>
  <2>1. CASE RemoveOne
    <3> DEFINE n == Step(Head(toRemove))
    <3>1. CASE Exists(n)
      BY <2>1, <3>1, RmTreeEffect DEF RemoveOne
    <3>2. CASE ~Exists(n)
      BY <2>1, <3>2 DEF RemoveOne, Exists
    <3> QED
      BY <3>1, <3>2
  <2>2. CASE ~RemoveOne
    BY <2>2 DEF RemoveOldCheckpoints, SaveDone, CrashAndResume, Exists
  <2> QED
    BY <2>1, <2>2
<1>2. Owned'
  BY <1>1, AllOwnedShrink
<1>3. \/ pc' = "training" /\ layout' \in Layouts /\ crashes' \in Nat
      \/ /\ pc \in {"retention", "removing"} /\ pc' = "removing"
         /\ UNCHANGED <<target, layout, crashes>>
  BY DEF RemoveOldCheckpoints, RemoveOne, SaveDone, CrashAndResume, Typed
<1>4. Typed'
  BY <1>1, <1>3 DEF Typed, States, ThisSave
<1>5. SaveSound'
  BY <1>1, <1>3 DEF SaveSound, ThisSave
<1> QED
  BY <1>2, <1>4, <1>5

\* No step of the manager makes the directory unsound.
LEMMA SoundStep == Sound /\ [Next]_vars => Sound'
<1> SUFFICES ASSUME Sound, [Next]_vars PROVE Sound'
  OBVIOUS
<1>1. CASE UNCHANGED vars
  <2>1. UNCHANGED <<dirs, saves, pc, target, layout, finalized, crashes>>
    BY <1>1 DEF vars
  <2> QED
    BY <2>1 DEF Sound, Typed, SaveSound, Owned, OwnedBy, FilesOf, Exists, ThisSave
<1>2. CASE Next
  BY <1>2, SoundBegins, SoundWrites, SoundFinalizes, SoundReplaces, SoundRemoves DEF Next
<1> QED
  BY <1>1, <1>2

-------------------------------------------------------------------------------
(* Finite sets and strict orders: the rank of an element is the number of     *)
(* elements before it.                                                       *)

\* A set of natural numbers has a least element.
LEMMA LeastNat ==
    ASSUME NEW T, T \subseteq Nat, T # {}
    PROVE  \E m \in T : \A n \in T : m <= n
<1> DEFINE R == OpToRel(<, Nat)
<1>1. IsWellFoundedOn(R, Nat)
  BY NatLessThanWellFounded
<1>2. \A n, k \in Nat : n < k => <<n, k>> \in R
  BY DEF OpToRel
<1> HIDE DEF R
<1>3. PICK m \in T : \A n \in T : ~ (<<n, m>> \in R)
  BY <1>1, WFMin
<1>4. ASSUME NEW n \in T PROVE m <= n
  <2>1. ~(n < m)
    BY <1>2, <1>3, <1>4
  <2> QED
    BY <2>1
<1> QED
  BY <1>4

\* R orders S: a strict total order.
Orders(R, S) ==
    /\ \A x \in S : <<x, x>> \notin R
    /\ \A x, y, z \in S : <<x, y>> \in R /\ <<y, z>> \in R => <<x, z>> \in R
    /\ \A x, y \in S : x = y \/ <<x, y>> \in R \/ <<y, x>> \in R

Before(R, S, x) == {y \in S : <<y, x>> \in R}

\* An element has a smaller rank than those after it, below the size of the set.
LEMMA RankGrows ==
    ASSUME NEW S, NEW R, IsFiniteSet(S), Orders(R, S), NEW x \in S, NEW y \in S
    PROVE  /\ Cardinality(Before(R, S, x)) \in Nat /\ Cardinality(S) \in Nat
           /\ Cardinality(Before(R, S, x)) < Cardinality(S)
           /\ <<x, y>> \in R =>
                  Cardinality(Before(R, S, x)) < Cardinality(Before(R, S, y))
<1>1. ASSUME NEW T \in SUBSET S, Before(R, S, x) \subseteq T, x \in T
      PROVE  Cardinality(Before(R, S, x)) < Cardinality(T)
  <2>1. Before(R, S, x) # T /\ IsFiniteSet(T)
    BY <1>1, FS_Subset DEF Before, Orders
  <2>2. /\ IsFiniteSet(Before(R, S, x))
        /\ Cardinality(Before(R, S, x)) <= Cardinality(T)
        /\ Cardinality(T) # Cardinality(Before(R, S, x))
    BY <1>1, <2>1, FS_Subset
  <2>3. Cardinality(T) \in Nat /\ Cardinality(Before(R, S, x)) \in Nat
    BY <2>1, <2>2, FS_CardinalityType
  <2> QED
    BY <2>2, <2>3
<1>2. Cardinality(Before(R, S, x)) < Cardinality(S)
  BY <1>1 DEF Before
<1>3. Cardinality(Before(R, S, x)) \in Nat /\ Cardinality(S) \in Nat
  <2>1. IsFiniteSet(Before(R, S, x))
    BY FS_Subset DEF Before
  <2> QED
    BY <2>1, FS_CardinalityType
<1>4. ASSUME <<x, y>> \in R
      PROVE  Cardinality(Before(R, S, x)) < Cardinality(Before(R, S, y))
  <2>1. Before(R, S, y) \in SUBSET S /\ x \in Before(R, S, y)
    BY <1>4 DEF Before
  <2>2. Before(R, S, x) \subseteq Before(R, S, y)
    BY <1>4 DEF Before, Orders
  <2> QED
    BY <1>1, <2>1, <2>2
<1> QED
  BY <1>2, <1>3, <1>4

\* A finite ordered set has a first element.
LEMMA FirstExists ==
    ASSUME NEW S, NEW R, IsFiniteSet(S), Orders(R, S), S # {}
    PROVE  \E m \in S : \A x \in S : x # m => <<m, x>> \in R
<1> DEFINE Rank(x) == Cardinality(Before(R, S, x))
           T == {Rank(x) : x \in S}
<1>1. T \subseteq Nat /\ T # {}
  <2>1. \A x \in S : Rank(x) \in Nat
    BY RankGrows
  <2> HIDE DEF Rank
  <2> QED
    BY <2>1
<1>2. PICK m \in S : \A x \in S : Rank(m) <= Rank(x)
  <2>1. PICK k \in T : \A n \in T : k <= n
    <3> HIDE DEF T
    <3> QED
      BY <1>1, LeastNat
  <2> QED
    BY <2>1
<1>3. ASSUME NEW x \in S, x # m PROVE <<m, x>> \in R
  <2>1. x \in S
    BY <1>3
  <2>2. Rank(x) \in Nat /\ Rank(m) \in Nat /\ (<<x, m>> \in R => Rank(x) < Rank(m))
    BY <2>1, RankGrows
  <2>3. ~(<<x, m>> \in R)
    <3> HIDE DEF Rank
    <3> QED
      BY <1>2, <2>1, <2>2
  <2> QED
    BY <1>3, <2>3 DEF Orders
<1> QED
  BY <1>3

\* The ranks number the elements from 0 on.
LEMMA RankInjective ==
    ASSUME NEW S, NEW R, IsFiniteSet(S), Orders(R, S)
    PROVE  \A x, y \in S : Cardinality(Before(R, S, x)) = Cardinality(Before(R, S, y)) => x = y
<1> SUFFICES ASSUME NEW x \in S, NEW y \in S, x # y
             PROVE  Cardinality(Before(R, S, x)) # Cardinality(Before(R, S, y))
  OBVIOUS
<1>1. Cardinality(Before(R, S, x)) \in Nat /\ Cardinality(Before(R, S, y)) \in Nat
  BY RankGrows
<1>2. <<x, y>> \in R \/ <<y, x>> \in R
  BY DEF Orders
<1>3. CASE <<x, y>> \in R
  <2>1. Cardinality(Before(R, S, x)) < Cardinality(Before(R, S, y))
    BY <1>3, RankGrows
  <2> QED
    BY <1>1, <2>1
<1>4. CASE <<y, x>> \in R
  <2>1. Cardinality(Before(R, S, y)) < Cardinality(Before(R, S, x))
    BY <1>4, RankGrows
  <2> QED
    BY <1>1, <2>1
<1> QED
  BY <1>2, <1>3, <1>4

\* At most k elements have a rank below k.
LEMMA FirstFew ==
    ASSUME NEW S, NEW R, IsFiniteSet(S), Orders(R, S), NEW k \in Nat
    PROVE  Cardinality({x \in S : Cardinality(Before(R, S, x)) < k}) <= k
<1> DEFINE Rank(x) == Cardinality(Before(R, S, x))
           T == {x \in S : Rank(x) < k}
           f == [x \in T |-> Rank(x)]
<1>1. \A x \in T : Rank(x) \in 0 .. k - 1
  <2> TAKE x \in T
  <2>1. Rank(x) \in Nat /\ Rank(x) < k
    BY RankGrows
  <2> HIDE DEF Rank
  <2> QED
    BY <2>1
<1>2. \A x, y \in T : Rank(x) = Rank(y) => x = y
  BY RankInjective
<1>3. f \in [T -> 0 .. k - 1]
  <2> HIDE DEF T, Rank
  <2> QED
    BY <1>1
<1>4. \A x, y \in T : f[x] = f[y] => x = y
  <2> HIDE DEF T, Rank
  <2> QED
    BY <1>2
<1>5. f \in Injection(T, 0 .. k - 1)
  <2> HIDE DEF f, T
  <2> QED
    BY <1>3, <1>4, Fun_IsInj
<1>6. IsFiniteSet(0 .. k - 1) /\ Cardinality(0 .. k - 1) = k
  BY FS_Interval
<1>7. Cardinality(T) <= Cardinality(0 .. k - 1)
  <2> HIDE DEF f, T
  <2> QED
    BY <1>5, <1>6, FS_Injection
<1> QED
  BY <1>6, <1>7

\* A finite ordered set can be listed in order.
LEMMA ListExists ==
    ASSUME NEW S, NEW R, IsFiniteSet(S), Orders(R, S)
    PROVE  \E q \in Bijection(1 .. Cardinality(S), S) :
               \A i, j \in 1 .. Cardinality(S) : i < j => <<q[i], q[j]>> \in R
<1> DEFINE Place(x) == Cardinality(Before(R, S, x)) + 1
           N == Cardinality(S)
           f == [x \in S |-> Place(x)]
           q == Inverse(f, S, 1 .. N)
<1>1. N \in Nat
  BY FS_CardinalityType
<1>2. \A x \in S : Place(x) \in 1 .. N /\ Cardinality(Before(R, S, x)) \in Int
  <2> TAKE x \in S
  <2>1. Cardinality(Before(R, S, x)) \in Nat /\ Cardinality(Before(R, S, x)) < N
    BY RankGrows
  <2> QED
    BY <1>1, <2>1
<1>3. \A x, y \in S : Place(x) = Place(y) => x = y
  <2> TAKE x \in S, y \in S
  <2>1. Place(x) = Place(y) =>
            Cardinality(Before(R, S, x)) = Cardinality(Before(R, S, y))
    BY <1>2
  <2> QED
    BY <2>1, RankInjective
<1>4. f \in [S -> 1 .. N] /\ \A x \in S : f[x] = Place(x)
  <2> HIDE DEF Place, N
  <2> QED
    BY <1>2
<1>5. f \in Injection(S, 1 .. N)
  <2> HIDE DEF f, N
  <2>1. \A x, y \in S : f[x] = f[y] => x = y
    BY <1>3, <1>4
  <2> QED
    BY <1>4, <2>1, Fun_IsInj
<1>6. f \in Bijection(S, 1 .. N)
  <2>1. IsFiniteSet(1 .. N) /\ Cardinality(1 .. N) = N
    BY <1>1, FS_Interval
  <2>2. f \in Surjection(S, 1 .. N)
    <3> HIDE DEF f
    <3> QED
      BY <1>5, <2>1, FS_Injection
  <2> QED
    BY <1>5, <2>2 DEF Bijection
<1>7. q \in Bijection(1 .. N, S) /\ \A x \in S : q[f[x]] = x
  <2> HIDE DEF f, N
  <2> QED
    BY <1>6, Fun_BijInverse
<1>8. \A i \in 1 .. N : q[i] \in S /\ f[q[i]] = i
  <2> HIDE DEF f, N, q
  <2>1. \A i \in 1 .. N : \E x \in S : f[x] = i
    BY <1>6 DEF Bijection, Surjection
  <2> QED
    BY <1>7, <2>1
<1>9. ASSUME NEW i \in 1 .. N, NEW j \in 1 .. N, i < j
      PROVE  <<q[i], q[j]>> \in R
  <2> HIDE DEF q
  <2>1. q[i] \in S /\ q[j] \in S /\ Place(q[i]) = i /\ Place(q[j]) = j
    <3> HIDE DEF f, Place, N
    <3> QED
      BY <1>4, <1>8, <1>9
  <2>2. ~(Cardinality(Before(R, S, q[j])) < Cardinality(Before(R, S, q[i])))
    BY <1>2, <1>9, <2>1
  <2>3. <<q[j], q[i]>> \notin R
    BY <2>1, <2>2, RankGrows
  <2>4. q[i] # q[j]
    BY <1>9, <2>1
  <2> QED
    BY <2>1, <2>3, <2>4 DEF Orders
<1> HIDE DEF q, N
<1> QED
  BY <1>7, <1>9 DEF N

-------------------------------------------------------------------------------
(* The two orders of the manager: by step, and best first.                   *)

\* The largest of a set of steps.
LEMMA MaxOf ==
    ASSUME NEW S \in SUBSET Steps, S # {}
    PROVE  Max(S) \in S /\ \A x \in S : x <= Max(S)
<1> DEFINE R == {p \in S \X S : p[1] > p[2]}
<1>1. S \subseteq Nat /\ IsFiniteSet(S)
  BY CheckpointAssumption, FS_Subset
<1>2. \A x, y \in S : <<x, y>> \in R <=> x > y
  OBVIOUS
<1>3. Orders(R, S)
  <2> HIDE DEF R
  <2> QED
    BY <1>1, <1>2 DEF Orders
<1>4. PICK m \in S : \A x \in S : x # m => <<m, x>> \in R
  <2> HIDE DEF R
  <2> QED
    BY <1>1, <1>3, FirstExists
<1>5. ASSUME NEW x \in S PROVE m >= x
  <2>1. m \in Nat /\ x \in Nat
    BY <1>1
  <2>2. x = m \/ m > x
    BY <1>4
  <2> QED
    BY <2>1, <2>2
<1>6. Max(S) \in S /\ \A x \in S : Max(S) >= x
  BY <1>5 DEF Max
<1> QED
  BY <1>1, <1>6

\* The metric that the manager reads is the one of the save it belongs to.
LEMMA MetricKnown ==
    ASSUME Typed, NEW s \in History, NEW i \in finalized,
           dirs[Step(s)] \subseteq FilesOf(i)
    PROVE  MetricOf(s) = saves[i].metric
<1>1. PICK x \in dirs[Step(s)] : x[1] = "training_info"
  BY DEF History
<1>2. \A y \in dirs[Step(s)] : y[2] = i
  BY DEF FilesOf
<1>3. (CHOOSE y \in dirs[Step(s)] : y[1] = "training_info")[2] = i
  BY <1>1, <1>2
<1> QED
  BY <1>3 DEF MetricOf

\* The metric of a saved step is a number or missing.
LEMMA MetricTyped ==
    ASSUME Typed, Owned, NEW s \in History
    PROVE  MetricOf(s) \in Nat \cup {NoMetric} /\ s \in Nat
<1>1. s \in Steps /\ Exists(Step(s))
  BY DEF History, StepDirs
<1>2. PICK i \in finalized : dirs[Step(s)] \subseteq FilesOf(i)
  BY <1>1 DEF Owned, OwnedBy
<1>3. saves[i] \in SaveRecords
  BY DEF Typed, ThisSave
<1>4. saves[i].metric \in Metrics \cup {NoMetric}
  BY <1>3 DEF SaveRecords
<1> QED
  BY <1>1, <1>2, <1>4, MetricKnown, CheckpointAssumption

Preference(S) == {p \in S \X S : Better(p[1], p[2])}

\* _sort_checkpoints_best_first orders the checkpoints, the ties included.
LEMMA BetterOrders ==
    ASSUME Typed, Owned, NEW S \in SUBSET History
    PROVE  /\ Orders(Preference(S), S) /\ IsFiniteSet(S)
           /\ \A s, t \in S : <<s, t>> \in Preference(S) <=> Better(s, t)
<1>1. \A s \in S : MetricOf(s) \in Int /\ s \in Int
  BY MetricTyped DEF NoMetric
<1>2. NoMetric \in Int
  BY DEF NoMetric
<1>3. RankByMetric \in BOOLEAN /\ HigherIsBetter \in BOOLEAN
  BY CheckpointAssumption
<1>4. \A s \in S : ~Better(s, s)
  BY <1>1 DEF Better
<1>5. \A s, t, u \in S : Better(s, t) /\ Better(t, u) => Better(s, u)
  <2> SUFFICES ASSUME NEW s \in S, NEW t \in S, NEW u \in S,
                      Better(s, t), Better(t, u)
               PROVE  Better(s, u)
    OBVIOUS
  <2>1. /\ MetricOf(s) \in Int /\ MetricOf(t) \in Int /\ MetricOf(u) \in Int
        /\ s \in Int /\ t \in Int /\ u \in Int
    BY <1>1
  <2> QED
    BY <1>2, <1>3, <2>1 DEF Better
<1>6. \A s, t \in S : s = t \/ Better(s, t) \/ Better(t, s)
  BY <1>1, <1>2, <1>3 DEF Better
<1>7. \A s, t \in S : <<s, t>> \in Preference(S) <=> Better(s, t)
  BY DEF Preference
<1>8. IsFiniteSet(S)
  BY CheckpointAssumption, FS_Subset DEF History, StepDirs
<1> QED
  BY <1>4, <1>5, <1>6, <1>7, <1>8 DEF Orders

\* remove_old_checkpoints deletes each of the checkpoints that it has chosen.
LEMMA BestFirstLists ==
    ASSUME Typed, Owned, NEW S \in SUBSET History
    PROVE  /\ BestFirst(S) \in Seq(S)
           /\ \A t \in S : \E i \in 1 .. Len(BestFirst(S)) : BestFirst(S)[i] = t
<1> DEFINE N == Cardinality(S)
           Listed(q) == \A i, j \in 1 .. N : i < j => Better(q[i], q[j])
           b == BestFirst(S)
<1>1. /\ Orders(Preference(S), S) /\ IsFiniteSet(S)
      /\ \A s, t \in S : <<s, t>> \in Preference(S) <=> Better(s, t)
  BY BetterOrders
<1>2. PICK q \in Bijection(1 .. N, S) :
          \A i, j \in 1 .. N : i < j => <<q[i], q[j]>> \in Preference(S)
  BY <1>1, ListExists
<1>3. q \in [1 .. N -> S]
  BY <1>2 DEF Bijection, Injection
<1>4. Listed(q)
  <2> HIDE DEF N
  <2> QED
    BY <1>1, <1>2, <1>3
<1>5. b \in [1 .. N -> S] /\ Listed(b)
  <2>1. b = CHOOSE p \in [1 .. N -> S] : Listed(p)
    BY DEF BestFirst
  <2> HIDE DEF N, Listed, b
  <2> QED
    BY <1>3, <1>4, <2>1
<1>6. N \in Nat
  BY <1>1, FS_CardinalityType
<1>7. \A i, j \in 1 .. N : b[i] = b[j] => i = j
  <2> SUFFICES ASSUME NEW i \in 1 .. N, NEW j \in 1 .. N, i # j
               PROVE  b[i] # b[j]
    OBVIOUS
  <2>1. b[i] \in S /\ b[j] \in S
    <3> HIDE DEF b, N
    <3> QED
      BY <1>5
  <2>2. Better(b[i], b[j]) \/ Better(b[j], b[i])
    <3> HIDE DEF b, N
    <3> QED
      BY <1>5, <1>6
  <2>3. \A s \in S : ~Better(s, s)
    BY <1>1 DEF Orders
  <2> HIDE DEF b, N
  <2> QED
    BY <2>1, <2>2, <2>3
<1>8. b \in Injection(1 .. N, S)
  <2> HIDE DEF b, N
  <2> QED
    BY <1>5, <1>7, Fun_IsInj
<1>9. b \in Surjection(1 .. N, S)
  <2>1. Cardinality(1 .. N) = Cardinality(S)
    <3>1. Cardinality(1 .. N) = N
      <4> HIDE DEF N
      <4> QED
        BY <1>6, FS_Interval
    <3> QED
      BY <3>1
  <2> HIDE DEF b, N
  <2> QED
    BY <1>1, <1>8, <2>1, FS_Injection
<1>10. b \in Seq(S) /\ Len(b) = N
  <2> HIDE DEF b, N
  <2> QED
    BY <1>5, <1>6
<1>11. \A t \in S : \E i \in 1 .. N : b[i] = t
  <2> HIDE DEF b, N
  <2> QED
    BY <1>9 DEF Surjection
<1> QED
  BY <1>10, <1>11

-------------------------------------------------------------------------------
(* What each step does to the checkpoints.                                   *)

\* The steps that touch neither a checkpoint nor one that was moved aside.
Quiet ==
    \/ \E s \in Steps, m \in Metrics \cup {NoMetric} : BeginSave(s, m)
    \/ ClearTmp \/ MakeTmp \/ WriteFile \/ MoveAsideFails
    \/ RemoveOldCheckpoints \/ SaveDone \/ CrashAndResume
    \/ UNCHANGED vars

\* The kinds of steps, by what they do to the disk.
LEMMA NextSplits ==
    ASSUME [Next]_vars
    PROVE  Quiet \/ Promote \/ Replace \/ MoveAside \/ DeleteOld \/ RemoveOne
BY DEF Next, Quiet

\* Steps that touch no finished directory.
LEMMA QuietEffect ==
    ASSUME Sound, Quiet
    PROVE  /\ \A s : Same(Step(s)) /\ Same(Old(s))
           /\ SavesKept /\ finalized' = finalized
<1>0. ThisSave \in Nat
  BY DEF Sound, Typed, ThisSave
<1>1. CASE \E s \in Steps, m \in Metrics \cup {NoMetric} : BeginSave(s, m)
  <2> PICK s \in Steps, m \in Metrics \cup {NoMetric} : BeginSave(s, m)
    BY <1>1
  <2> DEFINE r == [step |-> s, metric |-> m, files |-> layout]
  <2>1. saves' = Append(saves, r) /\ UNCHANGED <<dirs, finalized>>
    BY DEF BeginSave
  <2>2. ThisSave' >= ThisSave /\ \A i \in 1 .. ThisSave : saves'[i] = saves[i]
    <3> HIDE DEF r
    <3> QED
      BY <2>1 DEF Sound, Typed, ThisSave
  <2> QED
    BY <2>1, <2>2 DEF Same, Exists, SavesKept
<1>2. CASE ClearTmp
  BY <1>0, <1>2, RmTreeEffect, NamesDiffer DEF ClearTmp, SavesKept, ThisSave
<1>3. CASE MakeTmp
  BY <1>0, <1>3, WithEffect, NamesDiffer DEF MakeTmp, SavesKept, ThisSave
<1>4. CASE WriteFile
  <2> PICK f \in layout : dirs' = With(Tmp(target), Written(Tmp(target), f))
    BY <1>4 DEF WriteFile
  <2> QED
    BY <1>0, <1>4, WithEffect, NamesDiffer DEF WriteFile, SavesKept, ThisSave
<1>5. CASE MoveAsideFails \/ RemoveOldCheckpoints \/ SaveDone \/ CrashAndResume
            \/ UNCHANGED vars
  <2>1. UNCHANGED <<dirs, saves, finalized>>
    BY <1>5 DEF MoveAsideFails, RemoveOldCheckpoints, SaveDone, CrashAndResume, vars
  <2> QED
    BY <1>0, <2>1 DEF Same, Exists, SavesKept, ThisSave
<1> QED
  BY <1>1, <1>2, <1>3, <1>4, <1>5 DEF Quiet

\* The copy moved aside is deleted.
LEMMA DeleteOldEffect ==
    ASSUME Sound, DeleteOld
    PROVE  /\ \A s : Same(Step(s)) /\ (s # target => Same(Old(s)))
           /\ \A x : Exists(x)' => Exists(x)
           /\ SavesKept
           /\ target \in Steps /\ ThisSave \in finalized
           /\ Exists(Step(target)) /\ dirs[Step(target)] = FilesOf(ThisSave)
           /\ pc' \in {"deleting_old", "retention"}
           /\ UNCHANGED <<saves, finalized, crashes, target>>
<1>1. /\ \A s : Same(Step(s)) /\ (s # target => Same(Old(s)))
      /\ \A x : Exists(x)' => Exists(x)
  <2>1. CASE Exists(Old(target))
    BY <2>1, RmTreeEffect, NamesDiffer DEF DeleteOld
  <2>2. CASE ~Exists(Old(target))
    BY <2>2 DEF DeleteOld, Same, Exists
  <2> QED
    BY <2>1, <2>2
<1>2. /\ pc = "deleting_old" /\ pc' \in {"deleting_old", "retention"}
      /\ UNCHANGED <<saves, finalized, crashes, target>>
  BY DEF DeleteOld
<1>3. SavesKept
  BY <1>2 DEF SavesKept, ThisSave, Sound, Typed
<1> QED
  BY <1>1, <1>2, <1>3 DEF Sound, SaveSound

\* Retention removes the next directory on its list.
LEMMA RemoveOneEffect ==
    ASSUME Sound, RemoveOne, toRemove \in Seq(Steps)
    PROVE  /\ toRemove # <<>> /\ Head(toRemove) \in Range(toRemove)
           /\ toRemove' \in Seq(Steps) /\ Range(toRemove') \subseteq Range(toRemove)
           /\ \A s : s # Head(toRemove) => Same(Step(s))
           /\ \A s : Same(Old(s))
           /\ \A x : Exists(x)' => Exists(x) /\ dirs'[x] \subseteq dirs[x]
           /\ \/ toRemove' = toRemove
              \/ /\ ~Exists(Step(Head(toRemove)))
                 /\ dirs' = dirs
                 /\ toRemove' = Tail(toRemove)
                 /\ Range(toRemove) = Range(toRemove') \cup {Head(toRemove)}
           /\ SavesKept
           /\ pc = "removing"
           /\ UNCHANGED <<saves, pc, target, finalized, crashes>>
<1> DEFINE n == Step(Head(toRemove))
<1>1. /\ pc = "removing" /\ toRemove # <<>>
      /\ IF Exists(n) THEN RmTree(n) /\ UNCHANGED toRemove
                      ELSE toRemove' = Tail(toRemove) /\ UNCHANGED dirs
      /\ UNCHANGED <<saves, pc, target, finalized, crashes>>
  BY DEF RemoveOne
<1>2. /\ Head(toRemove) \in Range(toRemove)
      /\ Tail(toRemove) \in Seq(Steps)
      /\ Range(toRemove) = Range(Tail(toRemove)) \cup {Head(toRemove)}
  <2>1. Len(toRemove) \in Nat /\ Len(toRemove) >= 1 /\ DOMAIN toRemove = 1 .. Len(toRemove)
    BY <1>1
  <2>2. /\ Tail(toRemove) \in Seq(Steps)
        /\ DOMAIN Tail(toRemove) = 1 .. Len(toRemove) - 1
        /\ \A i \in 1 .. Len(toRemove) - 1 : Tail(toRemove)[i] = toRemove[i + 1]
        /\ Head(toRemove) = toRemove[1]
    BY <1>1
  <2>3. \A x : x \in Range(toRemove) <=> \E i \in 1 .. Len(toRemove) : x = toRemove[i]
    BY <2>1 DEF Range
  <2>4. \A x : x \in Range(Tail(toRemove)) <=>
               \E i \in 1 .. Len(toRemove) - 1 : x = toRemove[i + 1]
    BY <2>2 DEF Range
  <2>5. \A i \in 1 .. Len(toRemove) : i = 1 \/ (i - 1 \in 1 .. Len(toRemove) - 1 /\ (i - 1) + 1 = i)
    BY <2>1
  <2>6. \A i \in 1 .. Len(toRemove) - 1 : i + 1 \in 1 .. Len(toRemove)
    BY <2>1
  <2>7. \A x : x \in Range(toRemove) <=> x \in Range(Tail(toRemove)) \/ x = Head(toRemove)
    <3>1. ASSUME NEW x, x \in Range(toRemove)
          PROVE  x \in Range(Tail(toRemove)) \/ x = Head(toRemove)
      <4>1. PICK i \in 1 .. Len(toRemove) : x = toRemove[i]
        BY <2>3, <3>1
      <4>2. CASE i = 1
        BY <2>2, <4>1, <4>2
      <4>3. CASE i # 1
        <5>1. i - 1 \in 1 .. Len(toRemove) - 1 /\ (i - 1) + 1 = i
          BY <2>5, <4>3
        <5>2. \E j \in 1 .. Len(toRemove) - 1 : x = toRemove[j + 1]
          BY <4>1, <5>1
        <5> QED
          BY <2>4, <5>2
      <4> QED
        BY <4>2, <4>3
    <3>2. ASSUME NEW x, x \in Range(Tail(toRemove)) \/ x = Head(toRemove)
          PROVE  x \in Range(toRemove)
      BY <2>1, <2>2, <2>3, <2>4, <2>6, <3>2
    <3> QED
      BY <3>1, <3>2
  <2> QED
    BY <2>2, <2>7
<1>3. SavesKept
  BY <1>1 DEF SavesKept, ThisSave, Sound, Typed
<1>4. CASE Exists(n)
  <2>1. /\ \A x : x # n => Same(x)
        /\ \A x : Exists(x)' => Exists(x) /\ dirs'[x] \subseteq dirs[x]
    BY <1>1, <1>4, RmTreeEffect
  <2> QED
    BY <1>1, <1>2, <1>3, <1>4, <2>1, NamesDiffer
<1>5. CASE ~Exists(n)
  <2>1. \A x : Same(x)
    BY <1>1, <1>5 DEF Same, Exists
  <2> QED
    BY <1>1, <1>2, <1>3, <1>5, <2>1 DEF Same
<1> QED
  BY <1>4, <1>5

-------------------------------------------------------------------------------
(* Retention never deletes the latest checkpoint.                            *)

IsLatest(m) == m \in StepDirs /\ \A s \in StepDirs : s <= m

\* What remove_old_checkpoints has still to delete lies behind the latest.
Removal ==
    pc = "removing" =>
        /\ toRemove \in Seq(Steps)
        /\ \E m \in Steps : IsLatest(m) /\ \A s \in Range(toRemove) : s < m

\* The latest checkpoint is the last of the step directories.
LEMMA LatestIs ==
    /\ StepDirs # {} => IsLatest(Latest)
    /\ \A m \in Steps : IsLatest(m) => Latest = m
<1>1. StepDirs \in SUBSET Steps
  BY DEF StepDirs
<1>2. StepDirs # {} => IsLatest(Latest)
  BY <1>1, MaxOf DEF Latest, IsLatest
<1>3. ASSUME NEW m \in Steps, IsLatest(m) PROVE Latest = m
  <2>1. IsLatest(Latest) /\ m \in Nat
    BY <1>2, <1>3, CheckpointAssumption DEF IsLatest
  <2>2. Latest \in Nat /\ Latest <= m /\ m <= Latest
    BY <1>1, <1>3, <2>1, CheckpointAssumption DEF IsLatest
  <2> QED
    BY <2>1, <2>2
<1> QED
  BY <1>2, <1>3

\* The victims of retention are all behind the latest checkpoint.
LEMMA VictimsBehind ==
    ASSUME Sound, RemoveOldCheckpoints
    PROVE  /\ toRemove' \in Seq(Victims)
           /\ \A t \in Victims : t \in Range(toRemove')
           /\ Victims \subseteq History /\ History \subseteq Steps
           /\ \E m \in Steps : IsLatest(m) /\ \A t \in Victims : t < m
           /\ pc = "retention" /\ pc' = "removing"
           /\ UNCHANGED <<dirs, saves, finalized, crashes, target>>
<1>1. /\ pc = "retention" /\ pc' = "removing" /\ toRemove' = BestFirst(Victims)
      /\ UNCHANGED <<dirs, saves, finalized, crashes, target>>
  BY DEF RemoveOldCheckpoints
<1>2. Victims \subseteq History /\ History \subseteq StepDirs /\ StepDirs \subseteq Steps
  BY DEF Victims, OutsideTopK, History, StepDirs
<1>3. /\ toRemove' \in Seq(Victims)
      /\ \A t \in Victims : \E i \in 1 .. Len(toRemove') : toRemove'[i] = t
  <2>1. /\ BestFirst(Victims) \in Seq(Victims)
        /\ \A t \in Victims : \E i \in 1 .. Len(BestFirst(Victims)) :
                                  BestFirst(Victims)[i] = t
    BY <1>2, BestFirstLists DEF Sound
  <2> QED
    BY <1>1, <2>1
<1>4. \A t \in Victims : t \in Range(toRemove')
  BY <1>3 DEF Range
<1>5. target \in StepDirs /\ StepDirs # {}
  BY <1>1 DEF Sound, SaveSound, StepDirs
<1>6. IsLatest(Latest) /\ Latest \in Steps
  BY <1>2, <1>5, LatestIs DEF IsLatest
<1>7. ASSUME NEW t \in Victims PROVE t < Latest
  <2>1. t \in History /\ t # Max(History)
    BY <1>7 DEF Victims, OutsideTopK
  <2>2. Max(History) \in History /\ t <= Max(History)
    BY <1>2, <2>1, MaxOf
  <2>3. Max(History) <= Latest
    BY <1>2, <1>6, <2>2 DEF IsLatest
  <2>4. t \in Nat /\ Max(History) \in Nat /\ Latest \in Nat
    BY <1>2, <1>6, <2>1, <2>2, CheckpointAssumption
  <2> QED
    BY <2>1, <2>2, <2>3, <2>4
<1> QED
  BY <1>1, <1>2, <1>3, <1>4, <1>6, <1>7

\* Deleting one of the victims leaves the latest checkpoint where it is.
LEMMA RemoveOneBehind ==
    ASSUME Sound, Removal, RemoveOne, NEW m \in Steps, IsLatest(m)
    PROVE  m # Head(toRemove) /\ Same(Step(m)) /\ IsLatest(m)'
<1>1. toRemove \in Seq(Steps) /\ pc = "removing"
  BY DEF Removal, RemoveOne
<1>2. PICK l \in Steps : IsLatest(l) /\ \A s \in Range(toRemove) : s < l
  BY <1>1 DEF Removal
<1>3. l = m
  BY <1>2, LatestIs
<1>4. Head(toRemove) \in Steps /\ Head(toRemove) < m
  BY <1>1, <1>2, <1>3, RemoveOneEffect
<1>5. m # Head(toRemove) /\ Same(Step(m))
  BY <1>1, <1>4, RemoveOneEffect, CheckpointAssumption
<1>6. IsLatest(m)'
  BY <1>1, <1>5, RemoveOneEffect DEF IsLatest, StepDirs, Same
<1> QED
  BY <1>5, <1>6

\* What retention has still to delete stays behind the latest checkpoint.
LEMMA RemovalStep == Sound /\ Removal /\ [Next]_vars => Removal'
<1> SUFFICES ASSUME Sound, Removal, [Next]_vars, pc' = "removing" PROVE Removal'
  BY DEF Removal
<1>1. CASE RemoveOldCheckpoints
  <2>1. PICK m \in Steps : IsLatest(m) /\ \A t \in Victims : t < m
    BY <1>1, VictimsBehind
  <2>2. IsLatest(m)'
    BY <1>1, <2>1, VictimsBehind DEF IsLatest, StepDirs, Exists
  <2>3. toRemove' \in Seq(Steps) /\ \A s \in Range(toRemove') : s \in Victims
    BY <1>1, VictimsBehind DEF Range
  <2> QED
    BY <2>1, <2>2, <2>3 DEF Removal
<1>2. CASE RemoveOne
  <2>1. toRemove \in Seq(Steps)
    BY <1>2 DEF Removal, RemoveOne
  <2>2. PICK m \in Steps : IsLatest(m) /\ \A s \in Range(toRemove) : s < m
    BY <1>2 DEF Removal, RemoveOne
  <2>3. IsLatest(m)'
    BY <1>2, <2>2, RemoveOneBehind
  <2>4. toRemove' \in Seq(Steps) /\ Range(toRemove') \subseteq Range(toRemove)
    BY <1>2, <2>1, RemoveOneEffect
  <2> QED
    BY <2>2, <2>3, <2>4 DEF Removal
<1>3. CASE UNCHANGED vars
  BY <1>3 DEF vars, Removal, IsLatest, StepDirs, Exists
<1>4. CASE Next /\ ~RemoveOldCheckpoints /\ ~RemoveOne
  BY <1>4 DEF Next, BeginSave, ClearTmp, MakeTmp, WriteFile, Promote, MoveAside,
              MoveAsideFails, Replace, DeleteOld, SaveDone, CrashAndResume
<1> QED
  BY <1>1, <1>2, <1>3, <1>4

\* The latest checkpoint disappears only when it is moved aside.
LEMMA LatestStays ==
    ASSUME Sound, Removal, [Next]_vars, ~MoveAside, NEW m \in Steps, IsLatest(m)
    PROVE  Same(Step(m))
<1>1. CASE Quiet
  BY <1>1, QuietEffect
<1>2. CASE Promote \/ Replace
  BY <1>2, Finalized, NamesDiffer DEF IsLatest, StepDirs
<1>3. CASE DeleteOld
  BY <1>3, DeleteOldEffect
<1>4. CASE RemoveOne
  BY <1>4, RemoveOneBehind
<1> QED
  BY <1>1, <1>2, <1>3, <1>4, NextSplits

-------------------------------------------------------------------------------
\* The contents of the directories and the plan of retention, in every state.
THEOREM DirectoriesSound == Spec => [](Sound /\ Removal)
<1>1. Init => Sound /\ Removal
  BY SoundInit DEF Init, Removal
<1>2. (Sound /\ Removal) /\ [Next]_vars => (Sound /\ Removal)'
  BY SoundStep, RemovalStep
<1> QED
  BY <1>1, <1>2, PTL DEF Spec

\* Only moving a checkpoint aside to overwrite it ever takes the latest one
\* away: retention, a crash or its restart never sends a run back.
THEOREM LatestNeverRetreats == Spec => LatestAdvances
<1>1. ASSUME Sound, Removal, [Next]_vars, Latest' < Latest
      PROVE  pc' = "moved_aside"
  <2>1. CASE MoveAside
    BY <2>1 DEF MoveAside
  <2>2. CASE ~MoveAside
    <3>1. CASE StepDirs = {}
      <4>1. Latest = 0
        BY <3>1 DEF Latest
      <4>2. Latest' \in Nat
        <5>1. CASE StepDirs' = {}
          BY <5>1 DEF Latest
        <5>2. CASE StepDirs' # {}
          <6>1. Latest' = Max(StepDirs')
            BY <5>2 DEF Latest
          <6>2. StepDirs' \in SUBSET Steps
            BY DEF StepDirs
          <6> QED
            BY <5>2, <6>1, <6>2, MaxOf, CheckpointAssumption
        <5> QED
          BY <5>1, <5>2
      <4> QED
        BY <1>1, <4>1, <4>2
    <3>2. CASE StepDirs # {}
      <4>1. PICK m \in Steps : IsLatest(m) /\ Latest = m
        BY <3>2, LatestIs DEF IsLatest, StepDirs
      <4>2. Same(Step(m))
        BY <1>1, <2>2, <4>1, LatestStays
      <4>3. m \in StepDirs'
        BY <4>1, <4>2 DEF IsLatest, StepDirs, Same
      <4>4. StepDirs' \in SUBSET Steps
        BY DEF StepDirs
      <4>5. Latest' = Max(StepDirs')
        BY <4>3 DEF Latest
      <4>6. Max(StepDirs') \in Steps /\ m <= Max(StepDirs')
        BY <4>3, <4>4, MaxOf
      <4>7. m \in Nat /\ Max(StepDirs') \in Nat
        BY <4>6, CheckpointAssumption
      <4>8. Latest \in Nat /\ Latest' \in Nat /\ Latest <= Latest'
        BY <4>1, <4>5, <4>6, <4>7
      <4> QED
        BY <1>1, <4>8
    <3> QED
      BY <3>1, <3>2
  <2> QED
    BY <2>1, <2>2
<1>2. Sound /\ Removal /\ [Next]_vars => [Latest' < Latest => pc' = "moved_aside"]_vars
  BY <1>1
<1> QED
  BY <1>2, DirectoriesSound, PTL DEF Spec, LatestAdvances

-------------------------------------------------------------------------------
(* There is always a checkpoint to go back to.                               *)

Whole(n) == Exists(n) /\ Complete(dirs[n])

\* While nothing is overwritten, the latest checkpoint is complete.
LatestWhole ==
    NoOverwrite /\ StepDirs # {} => \E m \in Steps : IsLatest(m) /\ Whole(Step(m))

\* A complete copy is the last one of all, moved aside or not: what retention
\* deletes is behind it, and what finalize_checkpoint deletes has been replaced.
CopyWhole ==
    finalized # {} =>
        \E m \in Steps :
            /\ Whole(Step(m)) \/ Whole(Old(m))
            /\ \A s \in Steps : Exists(Step(s)) \/ Exists(Old(s)) => s <= m

\* A directory that is left alone stays whole.
LEMMA WholeKept ==
    ASSUME Typed, SavesKept, NEW n, Same(n), Whole(n)
    PROVE  Whole(n)'
<1>1. PICK i \in finalized : dirs[n] = {<<f, i>> : f \in saves[i].files}
  BY DEF Whole, Complete
<1>2. i \in finalized' /\ saves'[i] = saves[i]
  BY DEF Typed, SavesKept
<1>3. Exists(n)' /\ dirs'[n] = dirs[n]
  BY DEF Same, Whole
<1> QED
  BY <1>1, <1>2, <1>3 DEF Whole, Complete

\* The checkpoint that finalize_checkpoint puts in place is whole.
LEMMA FinalizedWhole ==
    ASSUME Sound, Promote \/ Replace, NEW m \in Steps, m = target
    PROVE  Whole(Step(m))'
<1>1. /\ Exists(Step(target))' /\ dirs'[Step(target)] = FilesOf(ThisSave)
      /\ finalized' = finalized \cup {ThisSave}
      /\ UNCHANGED <<saves, target>>
  BY Finalized
<1>2. Exists(Step(m))' /\ dirs'[Step(m)] = {<<f, ThisSave>> : f \in saves'[ThisSave].files}
  BY <1>1 DEF FilesOf
<1>3. ThisSave \in finalized'
  BY <1>1
<1> QED
  BY <1>2, <1>3 DEF Whole, Complete

\* Saves are only added, so what has been overwritten stays overwritten.
LEMMA OverwriteStays ==
    ASSUME Typed, SavesKept, ThisSave' \in Nat, NoOverwrite'
    PROVE  NoOverwrite
<1> SUFFICES ASSUME NEW i \in finalized, NEW j \in i + 1 .. ThisSave
             PROVE  saves[j].step # saves[i].step
  BY DEF NoOverwrite
<1>1. i \in 1 .. ThisSave /\ ThisSave \in Nat /\ j \in 1 .. ThisSave
  BY DEF Typed, ThisSave
<1>2. i \in finalized' /\ j \in i + 1 .. ThisSave'
  BY <1>1 DEF SavesKept
<1>3. saves'[j].step # saves'[i].step
  BY <1>2 DEF NoOverwrite
<1> QED
  BY <1>1, <1>3 DEF SavesKept

\* A checkpoint that is moved aside is overwritten.
LEMMA MoveAsideOverwrites ==
    ASSUME Sound, MoveAside
    PROVE  ~NoOverwrite
<1>1. PICK i \in finalized : saves[i].step = target
  BY MovedAside DEF Sound, Owned, OwnedBy
<1>2. /\ ThisSave \notin finalized /\ saves[ThisSave].step = target
      /\ i \in 1 .. ThisSave /\ ThisSave \in Nat
  BY MovedAside DEF Sound, SaveSound, Typed, ThisSave
<1>3. ThisSave \in i + 1 .. ThisSave
  BY <1>2
<1> QED
  BY <1>1, <1>2, <1>3 DEF NoOverwrite

\* What every step does to the history of the saves.
LEMMA HistoryKept ==
    ASSUME Sound, Removal, [Next]_vars
    PROVE  SavesKept /\ ThisSave' \in Nat
<1>1. SavesKept
  <2>1. CASE Quiet
    BY <2>1, QuietEffect
  <2>2. CASE Promote \/ Replace
    BY <2>2, Finalized
  <2>3. CASE MoveAside
    BY <2>3, MovedAside DEF SavesKept, ThisSave, Sound, Typed
  <2>4. CASE DeleteOld
    BY <2>4, DeleteOldEffect
  <2>5. CASE RemoveOne
    <3>1. toRemove \in Seq(Steps)
      BY <2>5 DEF RemoveOne, Removal
    <3> QED
      BY <2>5, <3>1, RemoveOneEffect
  <2> QED
    BY <2>1, <2>2, <2>3, <2>4, <2>5, NextSplits
<1>2. ThisSave' \in Nat
  <2>1. Sound'
    BY SoundStep
  <2> QED
    BY <2>1 DEF Sound, Typed, ThisSave
<1> QED
  BY <1>1, <1>2

\* The latest stays whole.
LEMMA LatestWholeStep ==
    ASSUME Sound, Removal, LatestWhole, [Next]_vars
    PROVE  LatestWhole'
<1> SUFFICES ASSUME NoOverwrite', StepDirs' # {}
             PROVE  \E m \in Steps : IsLatest(m)' /\ Whole(Step(m))'
  BY DEF LatestWhole
<1>1. NoOverwrite /\ SavesKept /\ Typed
  BY OverwriteStays, HistoryKept DEF Sound
<1>2. ~MoveAside
  BY <1>1, MoveAsideOverwrites
<1>3. CASE Promote \/ Replace
  <2>1. PICK t \in Steps : t = target
    BY <1>3, Finalized
  <2>2. Whole(Step(t))'
    BY <1>3, <2>1, FinalizedWhole
  <2>3. \A s \in Steps : s # t => Same(Step(s))
    BY <1>3, <2>1, Finalized, NamesDiffer
  <2>4. StepDirs' = StepDirs \cup {t}
    BY <2>2, <2>3 DEF StepDirs, Same, Whole
  <2>5. CASE StepDirs = {}
    <3>1. IsLatest(t)'
      BY <2>4, <2>5, CheckpointAssumption DEF IsLatest
    <3> QED
      BY <2>2, <3>1
  <2>6. CASE StepDirs # {}
    <3>1. PICK m \in Steps : IsLatest(m) /\ Whole(Step(m))
      BY <1>1, <2>6 DEF LatestWhole
    <3>2. m # t
      BY <1>3, <2>1, <3>1, Finalized DEF Whole
    <3>3. Whole(Step(m))'
      BY <1>1, <2>3, <3>1, <3>2, WholeKept
    <3>4. \A s \in StepDirs : s \in Nat
      BY CheckpointAssumption DEF StepDirs
    <3>5. m \in Nat /\ t \in Nat
      BY CheckpointAssumption
    <3>6. CASE t < m
      <4>1. IsLatest(m)'
        BY <2>4, <3>1, <3>5, <3>6 DEF IsLatest
      <4> QED
        BY <3>3, <4>1
    <3>7. CASE m < t
      <4>1. \A s \in StepDirs' : s <= t
        BY <2>4, <3>1, <3>4, <3>5, <3>7 DEF IsLatest
      <4>2. IsLatest(t)'
        BY <2>4, <4>1 DEF IsLatest
      <4> QED
        BY <2>2, <4>2
    <3> QED
      BY <3>2, <3>5, <3>6, <3>7
  <2> QED
    BY <2>5, <2>6
<1>4. CASE Quiet \/ DeleteOld \/ RemoveOne
  <2>1. \A s \in Steps : Exists(Step(s))' => Exists(Step(s))
    <3>1. CASE Quiet
      BY <3>1, QuietEffect DEF Same
    <3>2. CASE DeleteOld
      BY <3>2, DeleteOldEffect DEF Same
    <3>3. CASE RemoveOne
      <4>1. toRemove \in Seq(Steps)
        BY <3>3 DEF RemoveOne, Removal
      <4> QED
        BY <3>3, <4>1, RemoveOneEffect
    <3> QED
      BY <1>4, <3>1, <3>2, <3>3
  <2>2. StepDirs' \subseteq StepDirs
    BY <2>1 DEF StepDirs
  <2>3. PICK m \in Steps : IsLatest(m) /\ Whole(Step(m))
    BY <1>1, <2>2 DEF LatestWhole
  <2>4. Same(Step(m))
    BY <1>2, <2>3, LatestStays
  <2>5. Whole(Step(m))'
    BY <1>1, <2>3, <2>4, WholeKept
  <2>6. IsLatest(m)'
    BY <2>2, <2>3, <2>5 DEF IsLatest, Whole, StepDirs
  <2> QED
    BY <2>5, <2>6
<1> QED
  BY <1>2, <1>3, <1>4, NextSplits

\* Some copy stays whole.
LEMMA CopyWholeStep ==
    ASSUME Sound, Removal, CopyWhole, [Next]_vars
    PROVE  CopyWhole'
<1> DEFINE Last(m) == \A s \in Steps : Exists(Step(s)) \/ Exists(Old(s)) => s <= m
<1>0. Typed /\ SavesKept
  BY HistoryKept DEF Sound
<1>1. CASE Promote \/ Replace
  <2>1. PICK t \in Steps : t = target
    BY <1>1, Finalized
  <2>2. Whole(Step(t))'
    BY <1>1, <2>1, FinalizedWhole
  <2>3. \A s \in Steps : (s # t => Same(Step(s))) /\ Same(Old(s))
    BY <1>1, <2>1, Finalized, NamesDiffer
  <2>4. CASE \A s \in Steps : Exists(Step(s)) \/ Exists(Old(s)) => s <= t
    <3>1. Last(t)'
      BY <2>3, <2>4, CheckpointAssumption DEF Same
    <3> QED
      BY <2>2, <3>1 DEF CopyWhole
  <2>5. CASE ~\A s \in Steps : Exists(Step(s)) \/ Exists(Old(s)) => s <= t
    <3>1. PICK s \in Steps : (Exists(Step(s)) \/ Exists(Old(s))) /\ ~(s <= t)
      BY <2>5
    <3>2. finalized # {}
      BY <3>1 DEF Sound, Owned, OwnedBy
    <3>3. PICK m \in Steps : (Whole(Step(m)) \/ Whole(Old(m))) /\ Last(m)
      BY <3>2 DEF CopyWhole
    <3>4. t < m
      BY <3>1, <3>3, CheckpointAssumption
    <3>5. Whole(Step(m))' \/ Whole(Old(m))'
      BY <1>0, <2>3, <3>3, <3>4, CheckpointAssumption, WholeKept
    <3>6. Last(m)'
      BY <2>3, <3>3, <3>4, CheckpointAssumption DEF Same
    <3> QED
      BY <3>5, <3>6 DEF CopyWhole
  <2> QED
    BY <2>4, <2>5
<1>2. CASE Quiet \/ MoveAside \/ DeleteOld \/ RemoveOne
  <2>1. finalized' = finalized
    BY <1>2, QuietEffect, MovedAside, DeleteOldEffect DEF RemoveOne
  <2>2. CASE finalized = {}
    BY <2>1, <2>2 DEF CopyWhole
  <2>3. CASE finalized # {}
    <3>1. PICK m \in Steps : (Whole(Step(m)) \/ Whole(Old(m))) /\ Last(m)
      BY <2>3 DEF CopyWhole
    <3>2. CASE Quiet
      <4>1. (Whole(Step(m)) \/ Whole(Old(m)))'
        BY <1>0, <3>1, <3>2, QuietEffect, WholeKept
      <4>2. Last(m)'
        BY <3>1, <3>2, QuietEffect DEF Same
      <4> QED
        BY <4>1, <4>2 DEF CopyWhole
    <3>3. CASE MoveAside
      <4>1. PICK t \in Steps : t = target
        BY <3>3, MovedAside
      <4>2. \A s \in Steps : s # t => Same(Step(s)) /\ Same(Old(s))
        BY <3>3, <4>1, MovedAside, NamesDiffer
      <4>3. /\ Exists(Step(t)) /\ ~Exists(Step(t))'
            /\ Exists(Old(t))' /\ dirs'[Old(t)] = dirs[Step(t)]
            /\ UNCHANGED <<saves, finalized>>
        BY <3>3, <4>1, MovedAside
      <4>4. ~Whole(Old(t))
        <5>1. Exists(Old(t)) => dirs[Old(t)] = {}
          BY <3>3, <4>1 DEF MoveAside, OldInTheWay
        <5>2. ASSUME Whole(Old(t)) PROVE FALSE
          <6>1. PICK i \in finalized : dirs[Old(t)] = {<<f, i>> : f \in saves[i].files}
            BY <5>2 DEF Whole, Complete
          <6>2. saves[i] \in SaveRecords
            BY DEF Sound, Typed, ThisSave
          <6>3. "policy" \in saves[i].files
            BY <6>2 DEF SaveRecords, Layouts, Always
          <6> QED
            BY <5>1, <5>2, <6>1, <6>3 DEF Whole
        <5> QED
          BY <5>2
      <4>5. Whole(Step(m))' \/ Whole(Old(m))'
        <5>1. CASE m = t
          <6>1. Whole(Step(t))
            BY <3>1, <4>4, <5>1
          <6> QED
            BY <4>3, <5>1, <6>1 DEF Whole, Complete
        <5>2. CASE m # t
          BY <1>0, <3>1, <4>2, <5>2, WholeKept
        <5> QED
          BY <5>1, <5>2
      <4>6. Last(m)'
        BY <3>1, <4>2, <4>3 DEF Same
      <4> QED
        BY <4>5, <4>6 DEF CopyWhole
    <3>4. CASE DeleteOld
      <4>1. PICK t \in Steps : t = target
        BY <3>4, DeleteOldEffect
      <4>2. /\ \A s \in Steps : Same(Step(s)) /\ (s # t => Same(Old(s)))
            /\ \A s \in Steps : Exists(Old(s))' => Exists(Old(s))
        BY <3>4, <4>1, DeleteOldEffect
      <4>3. Whole(Step(t))
        BY <3>4, <4>1, DeleteOldEffect DEF Whole, Complete, FilesOf
      <4>4. Whole(Step(m))' \/ Whole(Old(m))'
        BY <1>0, <3>1, <4>2, <4>3, WholeKept
      <4>5. Last(m)'
        BY <3>1, <4>2 DEF Same
      <4> QED
        BY <4>4, <4>5 DEF CopyWhole
    <3>5. CASE RemoveOne
      <4>1. toRemove \in Seq(Steps) /\ pc = "removing"
        BY <3>5 DEF RemoveOne, Removal
      <4>2. PICK l \in Steps : IsLatest(l) /\ \A s \in Range(toRemove) : s < l
        BY <4>1 DEF Removal
      <4>3. l <= m
        BY <3>1, <4>2 DEF IsLatest, StepDirs
      <4>4. m # Head(toRemove)
        BY <3>5, <4>1, <4>2, <4>3, RemoveOneEffect, CheckpointAssumption
      <4>5. Same(Step(m)) /\ Same(Old(m))
        BY <3>5, <4>1, <4>4, RemoveOneEffect
      <4>6. Whole(Step(m))' \/ Whole(Old(m))'
        BY <1>0, <3>1, <4>5, WholeKept
      <4>7. Last(m)'
        BY <3>1, <3>5, <4>1, RemoveOneEffect
      <4> QED
        BY <4>6, <4>7 DEF CopyWhole
    <3> QED
      BY <1>2, <3>2, <3>3, <3>4, <3>5
  <2> QED
    BY <2>2, <2>3
<1> QED
  BY <1>1, <1>2, NextSplits

\* Whatever a crash interrupts, a save or a deletion by retention: there is a
\* complete checkpoint under its own name or moved aside, and while nothing is
\* overwritten the one that get_latest_checkpoint_path names is complete.
THEOREM AlwaysRecoverable == Spec => []Recoverable
<1>1. Init => LatestWhole /\ CopyWhole
  <2> SUFFICES ASSUME Init PROVE LatestWhole /\ CopyWhole
    OBVIOUS
  <2>1. StepDirs = {} /\ finalized = {}
    BY DEF Init, StepDirs, Exists
  <2> QED
    BY <2>1 DEF LatestWhole, CopyWhole
<1>2. (Sound /\ Removal) /\ (LatestWhole /\ CopyWhole) /\ [Next]_vars
          => (LatestWhole /\ CopyWhole)'
  BY LatestWholeStep, CopyWholeStep
<1>3. LatestWhole /\ CopyWhole => Recoverable
  <2> SUFFICES ASSUME LatestWhole, CopyWhole PROVE Recoverable
    OBVIOUS
  <2>1. LatestComplete
    <3> SUFFICES ASSUME NoOverwrite, Latest # 0 PROVE Complete(dirs[Step(Latest)])
      BY DEF LatestComplete
    <3>1. StepDirs # {}
      BY DEF Latest
    <3>2. PICK m \in Steps : IsLatest(m) /\ Whole(Step(m))
      BY <3>1 DEF LatestWhole
    <3>3. Latest = m
      BY <3>2, LatestIs
    <3> QED
      BY <3>2, <3>3 DEF Whole
  <2>2. SomeCopySurvives
    BY DEF SomeCopySurvives, CopyWhole, Whole
  <2> QED
    BY <2>1, <2>2 DEF Recoverable
<1> QED
  BY <1>1, <1>2, <1>3, DirectoriesSound, PTL DEF Spec

-------------------------------------------------------------------------------
(* The best checkpoint is kept.                                              *)

Measured == {i \in finalized : saves[i].metric # NoMetric}

\* Better, of two checkpoints whose metrics are given.
Ranked(ms, s, mt, t) ==
    IF ~RankByMetric \/ ms = mt THEN s > t
    ELSE \/ mt = NoMetric
         \/ /\ ms # NoMetric
            /\ IF HigherIsBetter THEN ms > mt ELSE ms < mt

\* The order by metric and step is transitive.
LEMMA RankedTransitive ==
    ASSUME NEW a \in Nat, NEW b \in Nat, NEW c \in Nat,
           NEW ma \in Nat \cup {NoMetric}, NEW mb \in Nat \cup {NoMetric},
           NEW mc \in Nat \cup {NoMetric},
           Ranked(ma, a, mb, b), Ranked(mb, b, mc, c)
    PROVE  Ranked(ma, a, mc, c)
<1>1. HigherIsBetter \in BOOLEAN /\ RankByMetric \in BOOLEAN
  BY CheckpointAssumption
<1> QED
  BY <1>1 DEF Ranked, NoMetric

\* It is total.
LEMMA RankedTotal ==
    ASSUME NEW a \in Nat, NEW b \in Nat,
           NEW ma \in Nat \cup {NoMetric}, NEW mb \in Nat \cup {NoMetric}
    PROVE  /\ ~(Ranked(ma, a, mb, b) /\ Ranked(mb, b, ma, a))
           /\ a # b => Ranked(ma, a, mb, b) \/ Ranked(mb, b, ma, a)
<1>1. HigherIsBetter \in BOOLEAN /\ RankByMetric \in BOOLEAN
  BY CheckpointAssumption
<1> QED
  BY <1>1 DEF Ranked, NoMetric

\* Who comes before a checkpoint with a metric has one, and it is no worse.
LEMMA RankedNoWorse ==
    ASSUME RankByMetric, NEW a \in Nat, NEW b \in Nat,
           NEW ma \in Nat \cup {NoMetric}, NEW mb \in Nat \cup {NoMetric},
           Ranked(ma, a, mb, b), mb # NoMetric
    PROVE  ma # NoMetric /\ NoWorse(ma, mb)
<1>1. HigherIsBetter \in BOOLEAN
  BY CheckpointAssumption
<1> QED
  BY <1>1 DEF Ranked, NoWorse, NoMetric

\* So is being no worse a metric.
LEMMA NoWorseTransitive ==
    ASSUME NEW ma \in Nat \cup {NoMetric}, NEW mb \in Nat \cup {NoMetric},
           NEW mc \in Nat \cup {NoMetric}
    PROVE  /\ NoWorse(ma, ma)
           /\ NoWorse(ma, mb) /\ NoWorse(mb, mc) => NoWorse(ma, mc)
BY DEF NoWorse, NoMetric

\* It is the order retention sorts by.
LEMMA BetterIsRanked ==
    \A s, t : Better(s, t) <=> Ranked(MetricOf(s), s, MetricOf(t), t)
BY DEF Better, Ranked

\* The checkpoint b comes first of those with a metric, and none ever finalized
\* had a better one.
BestAt(b) ==
    /\ b \in History /\ MetricOf(b) # NoMetric /\ Whole(Step(b))
    /\ \A s \in History : s # b /\ MetricOf(s) # NoMetric => Better(b, s)
    /\ \A i \in Measured : NoWorse(MetricOf(b), saves[i].metric)

\* The best checkpoint is there, and retention does not have it on its list.
BestSafe ==
    NoOverwrite /\ Measured # {} =>
        \E b \in Steps : BestAt(b) /\ (pc = "removing" => b \notin Range(toRemove))

\* A checkpoint that is neither new nor gone has the metric that it had.
LEMMA MetricKept ==
    ASSUME Sound, SavesKept, NEW s \in Steps, s \in History',
           Exists(Step(s)), dirs'[Step(s)] \subseteq dirs[Step(s)]
    PROVE  s \in History /\ MetricOf(s)' = MetricOf(s)
<1>1. PICK i \in finalized : dirs[Step(s)] \subseteq FilesOf(i)
  BY DEF Sound, Owned, OwnedBy
<1>2. PICK x \in dirs'[Step(s)] : x[1] = "training_info"
  BY DEF History
<1>3. s \in History
  BY <1>2 DEF History, StepDirs
<1>4. \A y \in dirs'[Step(s)] : y[2] = i
  BY <1>1 DEF FilesOf
<1>5. (CHOOSE y \in dirs'[Step(s)] : y[1] = "training_info")[2] = i
  BY <1>2, <1>4
<1>6. MetricOf(s)' = saves'[i].metric
  BY <1>5 DEF MetricOf
<1>7. saves'[i] = saves[i]
  BY DEF SavesKept, Sound, Typed
<1> QED
  BY <1>1, <1>3, <1>6, <1>7, MetricKnown DEF Sound

\* The best checkpoint stays the best as long as others are only deleted.
LEMMA BestStays ==
    ASSUME Sound, SavesKept, finalized' = finalized,
           NEW b \in Steps, BestAt(b), Same(Step(b)),
           \A s \in Steps : Exists(Step(s))' =>
               Exists(Step(s)) /\ dirs'[Step(s)] \subseteq dirs[Step(s)]
    PROVE  BestAt(b)'
<1>1. \A s \in History' : s \in Steps /\ s \in History /\ MetricOf(s)' = MetricOf(s)
  BY MetricKept DEF History, StepDirs
<1>2. b \in History'
  BY DEF BestAt, History, StepDirs, Same
<1>3. Whole(Step(b))'
  BY WholeKept DEF BestAt, Sound
<1>4. \A s \in History' : Better(b, s)' <=> Better(b, s)
  BY <1>1, <1>2 DEF Better
<1>5. \A i \in Measured' : i \in Measured /\ saves'[i] = saves[i]
  BY DEF Measured, SavesKept, Sound, Typed
<1> QED
  BY <1>1, <1>2, <1>3, <1>4, <1>5 DEF BestAt

\* A checkpoint with a metric is one that was finalized with it.
LEMMA MeasuredOwner ==
    ASSUME Sound, NEW s \in History, MetricOf(s) # NoMetric
    PROVE  Measured # {}
<1>1. s \in Steps /\ Exists(Step(s))
  BY DEF History, StepDirs
<1>2. PICK i \in finalized : dirs[Step(s)] \subseteq FilesOf(i)
  BY <1>1 DEF Sound, Owned, OwnedBy
<1>3. MetricOf(s) = saves[i].metric
  BY <1>2, MetricKnown DEF Sound
<1> QED
  BY <1>3 DEF Measured

\* A new checkpoint is the best, or the best remains it.
LEMMA BestFinalized ==
    ASSUME RankByMetric, Sound, Measured # {} => \E b \in Steps : BestAt(b),
           Promote \/ Replace, Measured' # {}
    PROVE  \E b \in Steps : BestAt(b)'
<1> DEFINE k == ThisSave
           mk == saves[k].metric
<1>1. PICK t \in Steps : t = target
  BY Finalized
<1>2. /\ k \in 1 .. Len(saves) /\ saves[k] \in SaveRecords /\ k \notin finalized
      /\ finalized' = finalized \cup {k} /\ SavesKept /\ saves' = saves
      /\ ~Exists(Step(t)) /\ Exists(Step(t))' /\ dirs'[Step(t)] = FilesOf(k)
      /\ \A s \in Steps : s # t => Same(Step(s))
      /\ Whole(Step(t))'
  BY <1>1, Finalized, FinalizedWhole, NamesDiffer DEF Sound, Typed
<1>3. mk \in Nat \cup {NoMetric}
  BY <1>2, CheckpointAssumption DEF SaveRecords
<1>4. t \in History' /\ MetricOf(t)' = mk
  <2>1. "training_info" \in saves[k].files
    BY <1>2 DEF SaveRecords, Layouts, Always
  <2>2. <<"training_info", k>> \in dirs'[Step(t)] /\ \A y \in dirs'[Step(t)] : y[2] = k
    BY <1>2, <2>1 DEF FilesOf
  <2>3. (CHOOSE y \in dirs'[Step(t)] : y[1] = "training_info")[2] = k
    BY <2>2
  <2> QED
    BY <1>2, <2>2, <2>3 DEF History, StepDirs, MetricOf
<1>5. \A s \in History' : s # t => s \in History /\ MetricOf(s)' = MetricOf(s)
  BY <1>2, MetricKept DEF History, StepDirs, Same
<1>6. \A s \in History' : MetricOf(s)' \in Nat \cup {NoMetric} /\ s \in Nat
  <2> SUFFICES ASSUME NEW s \in History'
               PROVE  MetricOf(s)' \in Nat \cup {NoMetric} /\ s \in Nat
    OBVIOUS
  <2>1. CASE s = t
    BY <1>3, <1>4, <2>1, CheckpointAssumption
  <2>2. CASE s # t
    BY <1>5, <2>2, MetricTyped DEF Sound
  <2> QED
    BY <2>1, <2>2
<1>7. \A s, r : Better(s, r)' <=> Ranked(MetricOf(s)', s, MetricOf(r)', r)
  BY DEF Better, Ranked
<1>8. \A i \in Measured' : (i = k /\ mk # NoMetric) \/ i \in Measured
  BY <1>2 DEF Measured
<1>9. \A i \in Measured' : saves'[i] = saves[i] /\ saves[i].metric \in Nat \cup {NoMetric}
  <2>1. \A i \in Measured' : saves[i] \in SaveRecords
    BY <1>2 DEF Measured, Sound, Typed, ThisSave
  <2> QED
    BY <1>2, <2>1, CheckpointAssumption DEF SaveRecords
<1>10. CASE Measured = {}
  <2>1. mk # NoMetric
    BY <1>8, <1>10
  <2>2. \A s \in History' : s # t => MetricOf(s)' = NoMetric
    BY <1>5, <1>10, MeasuredOwner
  <2>3. \A i \in Measured' : NoWorse(mk, saves'[i].metric)
    BY <1>3, <1>8, <1>9, <1>10, NoWorseTransitive
  <2>4. BestAt(t)'
    BY <1>2, <1>4, <2>1, <2>2, <2>3 DEF BestAt
  <2> QED
    BY <2>4
<1>11. CASE Measured # {}
  <2>1. PICK b \in Steps : BestAt(b)
    BY <1>11
  <2>2. b # t /\ Same(Step(b)) /\ Whole(Step(b))'
    BY <1>2, <2>1, WholeKept DEF BestAt, Whole, Sound
  <2>3. b \in History' /\ MetricOf(b)' = MetricOf(b) /\ MetricOf(b) # NoMetric
    <3>1. b \in History'
      BY <2>1, <2>2 DEF BestAt, History, StepDirs, Same
    <3> QED
      BY <1>5, <2>1, <2>2, <3>1 DEF BestAt
  <2>4. \A s \in History' : s # b /\ s # t /\ MetricOf(s)' # NoMetric => Better(b, s)'
    BY <1>5, <1>7, <2>1, <2>3, BetterIsRanked DEF BestAt
  <2>5. \A i \in Measured : i \in Measured' /\ NoWorse(MetricOf(b), saves[i].metric)
    BY <1>2, <2>1 DEF BestAt, Measured
  <2>6. /\ MetricOf(b)' \in Nat \cup {NoMetric} /\ b \in Nat
        /\ MetricOf(t)' \in Nat \cup {NoMetric} /\ t \in Nat
    BY <1>4, <1>6, <2>3
  <2>7. CASE mk = NoMetric \/ Better(b, t)'
    <3>1. \A s \in History' : s # b /\ MetricOf(s)' # NoMetric => Better(b, s)'
      BY <1>4, <2>4, <2>7
    <3>2. mk # NoMetric => NoWorse(MetricOf(b)', mk)
      BY <1>4, <1>7, <2>6, <2>7, RankedNoWorse
    <3>3. \A i \in Measured' : NoWorse(MetricOf(b)', saves'[i].metric)
      BY <1>8, <1>9, <2>3, <2>5, <3>2
    <3>4. BestAt(b)'
      BY <2>2, <2>3, <3>1, <3>3 DEF BestAt
    <3> QED
      BY <3>4
  <2>8. CASE mk # NoMetric /\ ~Better(b, t)'
    <3>1. Ranked(MetricOf(t)', t, MetricOf(b)', b)
      BY <1>7, <2>2, <2>6, <2>8, RankedTotal
    <3>2. ASSUME NEW s \in History', s # t, MetricOf(s)' # NoMetric
          PROVE  Better(t, s)'
      <4>1. CASE s = b
        BY <1>7, <3>1, <4>1
      <4>2. CASE s # b
        <5>1. Ranked(MetricOf(b)', b, MetricOf(s)', s)
          BY <1>7, <2>4, <3>2, <4>2
        <5>2. MetricOf(s)' \in Nat \cup {NoMetric} /\ s \in Nat
          BY <1>6
        <5>3. Ranked(MetricOf(t)', t, MetricOf(s)', s)
          BY <2>6, <3>1, <5>1, <5>2, RankedTransitive
        <5> QED
          BY <1>7, <5>3
      <4> QED
        BY <4>1, <4>2
    <3>3. NoWorse(mk, MetricOf(b))
      BY <1>4, <2>3, <2>6, <3>1, RankedNoWorse
    <3>4. ASSUME NEW i \in Measured' PROVE NoWorse(mk, saves'[i].metric)
      <4>1. saves[i].metric \in Nat \cup {NoMetric} /\ saves'[i] = saves[i]
        BY <1>9
      <4>2. CASE i = k
        BY <1>3, <4>1, <4>2, NoWorseTransitive
      <4>3. CASE i # k
        <5>1. NoWorse(MetricOf(b), saves[i].metric)
          BY <1>8, <2>5, <4>3
        <5>2. MetricOf(b) \in Nat \cup {NoMetric}
          BY <2>3, <2>6
        <5> QED
          BY <1>3, <3>3, <4>1, <5>1, <5>2, NoWorseTransitive, ZenonT(60)
      <4> QED
        BY <4>2, <4>3
    <3>5. BestAt(t)'
      BY <1>2, <1>4, <2>8, <3>2, <3>4 DEF BestAt
    <3> QED
      BY <3>5
  <2> QED
    BY <2>7, <2>8
<1> QED
  BY <1>10, <1>11

\* Retention never chooses the best checkpoint.
LEMMA BestNotVictim ==
    ASSUME RankByMetric, Sound, NEW b \in Steps, BestAt(b)
    PROVE  b \notin Victims
<1>1. b \in History /\ MetricOf(b) # NoMetric
  BY DEF BestAt
<1>2. ASSUME NEW s \in History, Better(s, b) PROVE FALSE
  <2>1. /\ MetricOf(b) \in Nat \cup {NoMetric} /\ b \in Nat
        /\ MetricOf(s) \in Nat \cup {NoMetric} /\ s \in Nat
    BY <1>1, MetricTyped DEF Sound
  <2>2. Ranked(MetricOf(s), s, MetricOf(b), b)
    BY <1>2, BetterIsRanked
  <2>3. s # b
    BY <2>1, <2>2 DEF Ranked
  <2>4. MetricOf(s) # NoMetric
    BY <1>1, <2>1, <2>2, RankedNoWorse
  <2>5. Ranked(MetricOf(b), b, MetricOf(s), s)
    BY <2>3, <2>4, BetterIsRanked DEF BestAt
  <2> QED
    BY <2>1, <2>2, <2>5, RankedTotal
<1>3. {s \in History : Better(s, b)} = {}
  BY <1>2
<1>4. Cardinality({s \in History : Better(s, b)}) = 0
  BY <1>3, FS_EmptySet
<1>5. b \notin OutsideTopK
  BY <1>4, CheckpointAssumption DEF OutsideTopK
<1> QED
  BY <1>5 DEF Victims

\* The best is not on retention's list.
LEMMA BestSafeStep ==
    ASSUME RankByMetric, Sound, Removal, BestSafe, [Next]_vars
    PROVE  BestSafe'
<1> SUFFICES ASSUME NoOverwrite', Measured' # {}
             PROVE  \E b \in Steps : BestAt(b)' /\ (pc' = "removing" => b \notin Range(toRemove'))
  BY DEF BestSafe
<1>1. NoOverwrite /\ SavesKept /\ Typed
  BY OverwriteStays, HistoryKept DEF Sound
<1>2. ~MoveAside
  BY <1>1, MoveAsideOverwrites
<1>3. CASE Promote \/ Replace
  <2>1. Measured # {} => \E b \in Steps : BestAt(b)
    BY <1>1 DEF BestSafe
  <2>2. \E b \in Steps : BestAt(b)'
    BY <1>3, <2>1, BestFinalized
  <2>3. pc' # "removing"
    BY <1>3, Finalized
  <2> QED
    BY <2>2, <2>3
<1>4. CASE Quiet \/ DeleteOld \/ RemoveOne
  <2>1. /\ finalized' = finalized
        /\ \A s \in Steps : Exists(Step(s))' =>
               Exists(Step(s)) /\ dirs'[Step(s)] \subseteq dirs[Step(s)]
    <3>1. CASE Quiet
      BY <3>1, QuietEffect DEF Same
    <3>2. CASE DeleteOld
      BY <3>2, DeleteOldEffect DEF Same
    <3>3. CASE RemoveOne
      <4>1. toRemove \in Seq(Steps)
        BY <3>3 DEF RemoveOne, Removal
      <4> QED
        BY <3>3, <4>1, RemoveOneEffect
    <3> QED
      BY <1>4, <3>1, <3>2, <3>3
  <2>2. Measured # {}
    BY <1>1, <2>1 DEF Measured, SavesKept, Typed
  <2>3. PICK b \in Steps : BestAt(b) /\ (pc = "removing" => b \notin Range(toRemove))
    BY <1>1, <2>2 DEF BestSafe
  <2>4. Same(Step(b)) /\ (pc' = "removing" => b \notin Range(toRemove'))
    <3>1. CASE RemoveOldCheckpoints
      <4>1. Quiet
        BY <3>1 DEF Quiet
      <4>2. b \notin Victims
        BY <2>3, BestNotVictim
      <4>3. \A s \in Range(toRemove') : s \in Victims
        BY <3>1, VictimsBehind DEF Range
      <4> QED
        BY <4>1, <4>2, <4>3, QuietEffect
    <3>2. CASE Quiet /\ ~RemoveOldCheckpoints
      <4>1. pc' = "removing" => pc = "removing" /\ toRemove' = toRemove
        BY <3>2 DEF Quiet, BeginSave, ClearTmp, MakeTmp, WriteFile, MoveAsideFails,
                    SaveDone, CrashAndResume, vars
      <4> QED
        BY <2>3, <3>2, <4>1, QuietEffect
    <3>3. CASE DeleteOld
      BY <3>3, DeleteOldEffect
    <3>4. CASE RemoveOne
      <4>1. toRemove \in Seq(Steps) /\ pc = "removing"
        BY <3>4 DEF RemoveOne, Removal
      <4> QED
        BY <2>3, <3>4, <4>1, RemoveOneEffect
    <3> QED
      BY <1>4, <3>1, <3>2, <3>3, <3>4
  <2>5. BestAt(b)'
    BY <1>1, <2>1, <2>3, <2>4, BestStays
  <2> QED
    BY <2>4, <2>5
<1> QED
  BY <1>2, <1>3, <1>4, NextSplits

\* Retention and selection agree, through crashes in the middle of a deletion:
\* while no checkpoint is overwritten, get_best_checkpoint_path names a complete
\* checkpoint at least as good as every one ever finalized.  The manager ranks
\* by a metric; without one it keeps and names the latest.
THEOREM BestIsKept ==
    ASSUME RankByMetric
    PROVE  Spec => []BestKept
<1>1. Init => BestSafe
  BY DEF Init, BestSafe, Measured
<1>2. (Sound /\ Removal) /\ BestSafe /\ [Next]_vars => BestSafe'
  BY BestSafeStep
<1>3. (Sound /\ Removal) /\ BestSafe => BestKept
  <2> SUFFICES ASSUME Sound, BestSafe, NoOverwrite, Measured # {}
               PROVE  /\ Complete(dirs[Step(GetBest)])
                      /\ \A i \in Measured : NoWorse(MetricOf(GetBest), saves[i].metric)
    BY DEF BestKept, Measured
  <2> DEFINE valid == {s \in History : MetricOf(s) # NoMetric}
             Wins(s) == \A t \in valid \ {s} : Better(s, t)
  <2>1. PICK b \in Steps : BestAt(b)
    BY DEF BestSafe
  <2>2. b \in valid /\ Wins(b)
    BY <2>1 DEF BestAt
  <2>3. ASSUME NEW s \in valid, Wins(s) PROVE s = b
    <3>1. /\ MetricOf(b) \in Nat \cup {NoMetric} /\ b \in Nat
          /\ MetricOf(s) \in Nat \cup {NoMetric} /\ s \in Nat
      BY <2>2, MetricTyped DEF Sound
    <3>2. s # b => Better(s, b) /\ Better(b, s)
      BY <2>2, <2>3
    <3> QED
      BY <3>1, <3>2, BetterIsRanked, RankedTotal
  <2>4. GetBest = CHOOSE s \in valid : Wins(s)
    BY <2>2 DEF GetBest
  <2>5. GetBest = b
    <3> HIDE DEF valid, Wins
    <3> QED
      BY <2>2, <2>3, <2>4
  <2> QED
    BY <2>1, <2>5 DEF BestAt, Whole
<1> QED
  BY <1>1, <1>2, <1>3, DirectoriesSound, PTL DEF Spec

-------------------------------------------------------------------------------
(* Retention bounds what is on the disk.                                     *)

\* The checkpoints that have lost their training_info.json.
Zombies == StepDirs \ History

\* Those that no deletion in progress will take away any more.
Forgotten ==
    IF pc = "removing" /\ toRemove # <<>> THEN Zombies \ {Head(toRemove)} ELSE Zombies

\* Each of them is left from a crash; and what will not be deleted is the top k
\* and the latest.
Retained ==
    /\ Cardinality(Forgotten) <= crashes
    /\ pc = "removing" =>
           \E K \in SUBSET Steps : /\ Cardinality(K) <= KeepTopK + 1
                                   /\ History \subseteq K \cup Range(toRemove)
    /\ RetentionBounded

\* A checkpoint that is left alone keeps its training_info.json or stays without.
LEMMA SameHistory ==
    ASSUME NEW s \in Steps, Same(Step(s))
    PROVE  /\ s \in History' => s \in History
           /\ s \in Zombies' => s \in Zombies
BY DEF Same, History, Zombies, StepDirs

\* A part of a finite set is no larger.
LEMMA SmallerSet ==
    ASSUME NEW S \in SUBSET Steps, NEW T \in SUBSET S
    PROVE  Cardinality(T) <= Cardinality(S) /\ Cardinality(T) \in Nat /\ Cardinality(S) \in Nat
<1>1. IsFiniteSet(S) /\ IsFiniteSet(T)
  BY CheckpointAssumption, FS_Subset
<1> QED
  BY <1>1, FS_Subset, FS_CardinalityType

\* Only a crash leaves a checkpoint half deleted.
LEMMA ForgottenShrinks ==
    ASSUME Sound, Removal, [Next]_vars, ~CrashAndResume
    PROVE  Forgotten' \subseteq Forgotten
<1>1. CASE Quiet
  <2>1. Zombies' \subseteq Zombies
    BY <1>1, QuietEffect, SameHistory DEF Zombies, StepDirs
  <2>2. \/ pc # "removing" \/ toRemove = <<>>
        \/ pc' = pc /\ toRemove' = toRemove
    BY <1>1 DEF Quiet, BeginSave, ClearTmp, MakeTmp, WriteFile, MoveAsideFails,
                RemoveOldCheckpoints, SaveDone, vars
  <2>3. CASE pc # "removing" \/ toRemove = <<>>
    BY <2>1, <2>3 DEF Forgotten
  <2>4. CASE pc' = pc /\ toRemove' = toRemove
    BY <2>1, <2>4 DEF Forgotten
  <2> QED
    BY <2>2, <2>3, <2>4
<1>2. CASE Promote \/ Replace
  <2>1. PICK t \in Steps : t = target
    BY <1>2, Finalized
  <2>2. \A s \in Steps : s # t => Same(Step(s))
    BY <1>2, <2>1, Finalized, NamesDiffer
  <2>3. t \in History'
    <3>1. ThisSave \in 1 .. Len(saves) /\ saves[ThisSave] \in SaveRecords
      BY <1>2, Finalized DEF Sound, Typed
    <3>2. "training_info" \in saves[ThisSave].files
      BY <3>1 DEF SaveRecords, Layouts, Always
    <3>3. /\ <<"training_info", ThisSave>> \in dirs'[Step(t)]
          /\ Exists(Step(t))'
      BY <1>2, <2>1, <3>2, Finalized DEF FilesOf
    <3> QED
      BY <3>3 DEF History, StepDirs
  <2>4. Zombies' \subseteq Zombies
    BY <2>2, <2>3, SameHistory DEF Zombies, StepDirs
  <2>5. pc # "removing" /\ pc' # "removing"
    BY <1>2, Finalized
  <2> QED
    BY <2>4, <2>5 DEF Forgotten
<1>3. CASE MoveAside
  <2>1. PICK t \in Steps : t = target
    BY <1>3, MovedAside
  <2>2. \A s \in Steps : s # t => Same(Step(s))
    BY <1>3, <2>1, MovedAside, NamesDiffer
  <2>3. t \notin StepDirs'
    BY <1>3, <2>1, MovedAside DEF StepDirs
  <2>4. Zombies' \subseteq Zombies
    BY <2>2, <2>3, SameHistory DEF Zombies, StepDirs
  <2>5. pc # "removing" /\ pc' # "removing"
    BY <1>3, MovedAside
  <2> QED
    BY <2>4, <2>5 DEF Forgotten
<1>4. CASE DeleteOld
  <2>1. Zombies' \subseteq Zombies
    BY <1>4, DeleteOldEffect, SameHistory DEF Zombies, StepDirs
  <2>2. pc # "removing" /\ pc' # "removing"
    BY <1>4, DeleteOldEffect DEF DeleteOld
  <2> QED
    BY <2>1, <2>2 DEF Forgotten
<1>5. CASE RemoveOne
  <2>1. toRemove \in Seq(Steps) /\ pc = "removing" /\ toRemove # <<>> /\ pc' = "removing"
    BY <1>5 DEF RemoveOne, Removal
  <2>2. \A s \in Steps : s # Head(toRemove) => Same(Step(s))
    BY <1>5, <2>1, RemoveOneEffect
  <2>3. Zombies' \ {Head(toRemove)} \subseteq Zombies \ {Head(toRemove)}
    BY <2>2, SameHistory DEF Zombies, StepDirs
  <2>4. Forgotten = Zombies \ {Head(toRemove)}
    BY <2>1 DEF Forgotten
  <2>5. CASE toRemove' = toRemove
    BY <2>1, <2>3, <2>4, <2>5 DEF Forgotten
  <2>6. CASE ~Exists(Step(Head(toRemove))) /\ dirs' = dirs
    <3>1. Head(toRemove) \notin Zombies'
      BY <2>6 DEF Zombies, StepDirs, Exists
    <3> QED
      BY <2>3, <2>4, <3>1 DEF Forgotten
  <2> QED
    BY <1>5, <2>1, <2>5, <2>6, RemoveOneEffect
<1> QED
  BY <1>1, <1>2, <1>3, <1>4, <1>5, NextSplits

\* What retention leaves: the top k and the latest.
LEMMA KeptFew ==
    ASSUME Sound
    PROVE  \E K \in SUBSET Steps : /\ Cardinality(K) <= KeepTopK + 1
                                   /\ History \subseteq K \cup Victims
<1> DEFINE R == Preference(History)
           Top == {t \in History : Cardinality(Before(R, History, t)) < KeepTopK}
           K == (Top \cup {Max(History)}) \cap Steps
<1>1. /\ Orders(R, History) /\ IsFiniteSet(History)
      /\ \A s, t \in History : <<s, t>> \in R <=> Better(s, t)
  BY BetterOrders DEF Sound
<1>2. KeepTopK \in Nat
  BY CheckpointAssumption
<1>3. Cardinality(Top) <= KeepTopK
  <2> HIDE DEF R
  <2> QED
    BY <1>1, <1>2, FirstFew
<1>4. IsFiniteSet(Top) /\ Cardinality(Top) \in Nat
  <2>1. Top \in SUBSET History
    OBVIOUS
  <2> HIDE DEF Top
  <2> QED
    BY <1>1, <2>1, FS_Subset, FS_CardinalityType
<1>5. /\ IsFiniteSet(Top \cup {Max(History)})
      /\ Cardinality(Top \cup {Max(History)}) <= KeepTopK + 1
  <2> DEFINE x == Max(History)
  <2> HIDE DEF Top, x
  <2>1. /\ IsFiniteSet(Top \cup {x})
        /\ Cardinality(Top \cup {x}) =
               IF x \in Top THEN Cardinality(Top) ELSE Cardinality(Top) + 1
    BY <1>4, FS_AddElement, Zenon
  <2>2. Cardinality(Top \cup {x}) <= KeepTopK + 1
    BY <1>2, <1>3, <1>4, <2>1
  <2> QED
    BY <2>1, <2>2 DEF x
<1>6. Cardinality(K) <= KeepTopK + 1
  <2> DEFINE U == Top \cup {Max(History)}
  <2>1. IsFiniteSet(U) /\ Cardinality(U) <= KeepTopK + 1 /\ K \in SUBSET U
    BY <1>5
  <2> HIDE DEF U, K
  <2>2. Cardinality(K) <= Cardinality(U) /\ Cardinality(K) \in Nat /\ Cardinality(U) \in Nat
    BY <2>1, FS_Subset, FS_CardinalityType
  <2> QED
    BY <1>2, <2>1, <2>2
<1>7. ASSUME NEW t \in History PROVE t \in K \cup Victims
  <2>1. {s \in History : Better(s, t)} = Before(R, History, t)
    BY <1>1, <1>7 DEF Before
  <2>2. Cardinality(Before(R, History, t)) \in Nat
    <3> HIDE DEF R
    <3> QED
      BY <1>1, <1>7, RankGrows
  <2>3. t \in OutsideTopK \/ t \in Top
    <3> HIDE DEF R
    <3> QED
      BY <1>2, <1>7, <2>1, <2>2 DEF OutsideTopK
  <2>4. t \in Steps
    BY <1>7 DEF History, StepDirs
  <2> QED
    BY <2>3, <2>4 DEF Victims
<1> QED
  BY <1>6, <1>7

\* The number of directories that stay is bounded.
LEMMA RetainedStep ==
    ASSUME Sound, Removal, Retained, [Next]_vars
    PROVE  Retained'
<1>0. crashes \in Nat /\ Forgotten \in SUBSET Steps /\ Zombies \in SUBSET Steps
  BY DEF Sound, Typed, Forgotten, Zombies, StepDirs
<1>1. Cardinality(Forgotten') <= crashes'
  <2>1. CASE CrashAndResume
    <3>1. pc' = "training" /\ dirs' = dirs /\ crashes' = crashes + 1
      BY <2>1 DEF CrashAndResume
    <3>2. Forgotten' = Zombies
      BY <3>1 DEF Forgotten, Zombies, History, StepDirs, Exists
    <3>3. \E x : Zombies \subseteq Forgotten \cup {x}
      BY DEF Forgotten
    <3>4. PICK x : Zombies \subseteq Forgotten \cup {x}
      BY <3>3
    <3>5. IsFiniteSet(Forgotten) /\ Cardinality(Forgotten) \in Nat
      BY <1>0, CheckpointAssumption, FS_Subset, FS_CardinalityType
    <3>6. /\ IsFiniteSet(Forgotten \cup {x})
          /\ Cardinality(Forgotten \cup {x}) =
                 IF x \in Forgotten THEN Cardinality(Forgotten) ELSE Cardinality(Forgotten) + 1
      BY <3>5, FS_AddElement, Zenon
    <3>7. Cardinality(Zombies) <= Cardinality(Forgotten \cup {x})
      BY <3>4, <3>6, FS_Subset
    <3>8. Cardinality(Zombies) \in Nat
      BY <1>0, SmallerSet
    <3>9. Cardinality(Zombies) <= crashes + 1
      BY <1>0, <3>5, <3>6, <3>7, <3>8 DEF Retained
    <3> QED
      BY <3>1, <3>2, <3>9
  <2>2. CASE ~CrashAndResume
    <3>1. Forgotten' \subseteq Forgotten
      BY <2>2, ForgottenShrinks
    <3>2. crashes' = crashes
      BY <2>2 DEF Next, BeginSave, ClearTmp, MakeTmp, WriteFile, Promote, MoveAside,
                  MoveAsideFails, Replace, DeleteOld, RemoveOldCheckpoints, RemoveOne,
                  SaveDone, vars
    <3>3. /\ Cardinality(Forgotten') <= Cardinality(Forgotten)
          /\ Cardinality(Forgotten') \in Nat /\ Cardinality(Forgotten) \in Nat
      BY <1>0, <3>1, SmallerSet
    <3> QED
      BY <1>0, <3>2, <3>3 DEF Retained
  <2> QED
    BY <2>1, <2>2
<1>2. ASSUME pc' = "removing"
      PROVE  \E K \in SUBSET Steps : /\ Cardinality(K) <= KeepTopK + 1
                                     /\ History' \subseteq K \cup Range(toRemove')
  <2>1. CASE RemoveOldCheckpoints
    <3>1. PICK K \in SUBSET Steps : /\ Cardinality(K) <= KeepTopK + 1
                                    /\ History \subseteq K \cup Victims
      BY KeptFew
    <3>2. History' = History
      BY <2>1, VictimsBehind DEF History, StepDirs, Exists
    <3>3. Victims \subseteq Range(toRemove')
      BY <2>1, VictimsBehind
    <3> QED
      BY <3>1, <3>2, <3>3
  <2>2. CASE RemoveOne
    <3>1. toRemove \in Seq(Steps) /\ pc = "removing"
      BY <2>2 DEF RemoveOne, Removal
    <3>2. PICK K \in SUBSET Steps : /\ Cardinality(K) <= KeepTopK + 1
                                    /\ History \subseteq K \cup Range(toRemove)
      BY <3>1 DEF Retained
    <3>3. History' \subseteq History
      BY <2>2, <3>1, RemoveOneEffect DEF History, StepDirs
    <3>4. CASE toRemove' = toRemove
      BY <3>2, <3>3, <3>4
    <3>5. CASE /\ ~Exists(Step(Head(toRemove))) /\ dirs' = dirs
               /\ Range(toRemove) = Range(toRemove') \cup {Head(toRemove)}
      <4>1. Head(toRemove) \notin History
        BY <3>5 DEF History, StepDirs
      <4> QED
        BY <3>2, <3>3, <3>5, <4>1
    <3> QED
      BY <2>2, <3>1, <3>4, <3>5, RemoveOneEffect
  <2>3. CASE UNCHANGED vars
    BY <1>2, <2>3 DEF vars, Retained, History, StepDirs, Exists
  <2>4. CASE Next /\ ~RemoveOldCheckpoints /\ ~RemoveOne
    BY <1>2, <2>4 DEF Next, BeginSave, ClearTmp, MakeTmp, WriteFile, Promote, MoveAside,
              MoveAsideFails, Replace, DeleteOld, SaveDone, CrashAndResume
  <2> QED
    BY <2>1, <2>2, <2>3, <2>4
<1>3. ASSUME pc' = "training", target' # 0
      PROVE  Cardinality(History') <= KeepTopK + 1
  <2>1. CASE SaveDone
    <3>1. pc = "removing" /\ toRemove = <<>> /\ dirs' = dirs
      BY <2>1 DEF SaveDone
    <3>2. Range(toRemove) = {}
      BY <3>1 DEF Range
    <3>3. PICK K \in SUBSET Steps : Cardinality(K) <= KeepTopK + 1 /\ History \subseteq K
      BY <3>1, <3>2 DEF Retained
    <3>4. /\ Cardinality(History) <= Cardinality(K)
          /\ Cardinality(History) \in Nat /\ Cardinality(K) \in Nat
      BY <3>3, SmallerSet
    <3>5. History' = History
      BY <3>1 DEF History, StepDirs, Exists
    <3>6. KeepTopK \in Nat
      BY CheckpointAssumption
    <3> QED
      BY <3>3, <3>4, <3>5, <3>6
  <2>2. CASE UNCHANGED vars
    BY <1>3, <2>2 DEF vars, Retained, RetentionBounded, History, StepDirs, Exists
  <2>3. CASE Next /\ ~SaveDone
    <3>1. pc' # "training" \/ target' = 0
      BY <2>3 DEF Next, BeginSave, ClearTmp, MakeTmp, WriteFile, Promote, MoveAside,
                  MoveAsideFails, Replace, DeleteOld, RemoveOldCheckpoints, RemoveOne,
                  CrashAndResume
    <3> QED
      BY <1>3, <3>1
  <2> QED
    BY <2>1, <2>2, <2>3
<1>4. pc' = "training" => Forgotten' = StepDirs' \ History'
  BY DEF Forgotten, Zombies
<1>5. RetentionBounded'
  BY <1>1, <1>3, <1>4 DEF RetentionBounded
<1> QED
  BY <1>1, <1>2, <1>5 DEF Retained

\* A save leaves the top k and the latest of the checkpoints it ranks, and there
\* is at most one interrupted deletion for every crash.
THEOREM DiskIsBounded == Spec => []RetentionBounded
<1>1. Init => Retained
  <2> SUFFICES ASSUME Init PROVE Retained
    OBVIOUS
  <2>1. Forgotten = {} /\ crashes = 0 /\ pc = "training" /\ target = 0
    BY DEF Init, Forgotten, Zombies, StepDirs, Exists
  <2>2. Cardinality(Forgotten) = 0
    BY <2>1, FS_EmptySet
  <2>3. Forgotten = StepDirs \ History
    BY <2>1 DEF Forgotten, Zombies
  <2> QED
    BY <2>1, <2>2, <2>3 DEF Retained, RetentionBounded
<1>2. (Sound /\ Removal) /\ Retained /\ [Next]_vars => Retained'
  BY RetainedStep
<1>3. Retained => RetentionBounded
  BY DEF Retained
<1> QED
  BY <1>1, <1>2, <1>3, DirectoriesSound, PTL DEF Spec

===============================================================================
