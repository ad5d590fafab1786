------------------------- MODULE ReleaseChoiceProofs -------------------------
(***************************************************************************)
(* What slskd's worker takes, for any answers of any peers, any album and  *)
(* any settings: the song that was asked for, as long as no ceiling on the *)
(* bitrate is set in album mode; a release of a sensible size whenever one *)
(* was offered; and, of single files, the first in the order of preference *)
(* that no peer refuses.                                                   *)
(***************************************************************************)
EXTENDS ReleaseChoice, FiniteSetTheorems, WellFoundedInduction, TLAPS

-----------------------------------------------------------------------------
(* The operators of the choice *)

LEMMA FirstIsLeast ==
    ASSUME NEW S \in SUBSET Nat, S # {}
    PROVE  First(S) \in S /\ \A j \in S : First(S) <= j
  <1> DEFINE R == {p \in Nat \X Nat : p[1] < p[2]}
  <1>1. IsWellFoundedOn(R, Nat)
    BY NatLessThanWellFounded DEF OpToRel
  <1>2. \E x \in S : \A y \in S : ~ (<<y, x>> \in R)
    <2> HIDE DEF R
    <2> QED
      BY <1>1, WFMin
  <1>3. \E x \in S : \A y \in S : x <= y
    <2>1. \A x, y \in Nat : ~ (<<y, x>> \in R) => x <= y
      OBVIOUS
    <2> QED
      BY <1>2, <2>1
  <1> QED
    BY <1>3 DEF First

LEMMA DirsType ==
    ASSUME results \in Answers
    PROVE  /\ Len(results) \in Nat /\ Dirs = 1..Len(results)
           /\ \A d \in Dirs : results[d].files \in Seq(File)
  <1>1. results \in Seq(Directory)
    BY ChoiceAssumption
  <1>2. \A d \in 1..Len(results) : results[d] \in Directory
    BY <1>1
  <1>3. Len(results) \in Nat /\ Dirs = 1..Len(results)
    BY <1>1 DEF Dirs
  <1>4. \A d \in 1..Len(results) : results[d].files \in Seq(File)
    BY <1>2 DEF Directory
  <1> QED
    BY <1>3, <1>4

LEMMA PrimaryType ==
    ASSUME results \in Answers, NEW d \in Dirs, Candidate(d)
    PROVE  /\ findPrimary(d) \in Files(d)
           /\ file(d, findPrimary(d)).title
  <1>1. DOMAIN results[d].files \subseteq Nat
    BY DirsType
  <1>2. Primaries(d) \in SUBSET Nat /\ Primaries(d) # {}
    BY <1>1 DEF Primaries, Files, Candidate
  <1>3. findPrimary(d) \in Primaries(d)
    BY <1>2, FirstIsLeast DEF findPrimary
  <1> QED
    BY <1>3 DEF Primaries

\* Trimming keeps to the directory's files and keeps the primary.
LEMMA TrimmedFiles ==
    ASSUME results \in Answers, NEW d \in Dirs, Candidate(d)
    PROVE  trimToOriginal(d) \subseteq Files(d) /\ findPrimary(d) \in trimToOriginal(d)
  <1>1. trimBonusTracks(d, trimExtraDiscs(d)) \subseteq Files(d)
    BY DEF trimBonusTracks, trimExtraDiscs
  <1> QED
    BY <1>1, PrimaryType DEF trimToOriginal

\* So does the quality filter, unless the primary is over the ceiling.
LEMMA FilteredFiles ==
    ASSUME results \in Answers, NEW d \in Dirs, Candidate(d)
    PROVE  /\ qualityFiltered(d) \subseteq Files(d)
           /\ ~ OverCeiling(file(d, findPrimary(d))) => findPrimary(d) \in qualityFiltered(d)
  BY TrimmedFiles, PrimaryType DEF qualityFiltered

LEMMA FilesFinite ==
    ASSUME results \in Answers, NEW d \in Dirs, NEW S \in SUBSET Files(d)
    PROVE  IsFiniteSet(S) /\ S \subseteq Nat
  <1>1. Files(d) \subseteq 1..Len(results[d].files) /\ Len(results[d].files) \in Nat
    BY DirsType DEF Files
  <1>2. IsFiniteSet(1..Len(results[d].files))
    BY <1>1, FS_Interval
  <1> QED
    BY <1>1, <1>2, FS_Subset

\* The lengths MusicBrainz knows are numbers.
LEMMA ExpectedType == song \in Songs => expectedTrackCount \in Nat
  BY ChoiceAssumption DEF expectedTrackCount, expectedAlbumLength, Song

LEMMA RightSizedFacts ==
    ASSUME song \in Songs, NEW S, IsFiniteSet(S), RightSized(S)
    PROVE  /\ S # {} /\ Cardinality(S) > 1
           /\ expectedTrackCount > 0 => Cardinality(S) <= 2 * expectedTrackCount
  <1>1. Cardinality(S) \in Nat
    BY FS_CardinalityType
  <1> QED
    BY <1>1, ExpectedType, FS_EmptySet DEF RightSized, oversizedDir

-----------------------------------------------------------------------------
(* The loop over the directories *)

TypeInput == cfg \in Settings /\ song \in Songs /\ results \in Answers

\* The two modes part where the search ends, and a file is tried only then.
Modes == /\ pc \in {"search", "poll", "consider", "collect", "attempt", "queued", "failed"}
         /\ pc = "consider" => cfg.albumMode
         /\ pc \in {"collect", "attempt"} => ~ cfg.albumMode
         /\ tried # {} => pc \in {"attempt", "queued", "failed"}

\* A directory without the track, or with a keyword, leaves nothing.
Kept(d) == IF Candidate(d) THEN qualityFiltered(d) ELSE {}

\* best is a directory that left something, bestFull one that left a release of
\* a sensible size, and there is a bestFull as soon as there is such a release.
Loop == /\ kept \in Seq(SUBSET Nat) /\ Len(kept) <= Len(results)
        /\ \A d \in 1..Len(kept) : kept[d] = Kept(d)
        /\ best \in 0..Len(kept) /\ (best # 0 => kept[best] # {})
        /\ bestFull \in 0..Len(kept) /\ (bestFull # 0 => RightSized(kept[bestFull]))
        /\ \A d \in 1..Len(kept) : RightSized(kept[d]) => bestFull # 0

\* What is queued of a release is what the chosen directory left, with the
\* primary in front if it is still there.
AlbumQueued ==
    InAlbumMode => /\ Len(kept) = Len(results) /\ Chosen # 0
                   /\ primary[1] = Chosen /\ primary[2] \in kept[Chosen]
                   /\ findPrimary(Chosen) \in kept[Chosen] => primary[2] = findPrimary(Chosen)
                   /\ siblings = kept[Chosen] \ {primary[2]}

\* What is tried as a single file is one of those found.
SingleQueued == /\ shortlist \subseteq filterFiles /\ tried \subseteq shortlist
                /\ Queued /\ ~ cfg.albumMode => primary \in filterFiles

Inv == TypeInput /\ Modes /\ Loop /\ AlbumQueued /\ SingleQueued

LEMMA KeptType ==
    ASSUME TypeInput, NEW d \in Dirs
    PROVE  /\ Kept(d) \in SUBSET Nat /\ Kept(d) \subseteq Files(d) /\ IsFiniteSet(Kept(d))
  <1>1. Kept(d) \subseteq Files(d)
    BY FilteredFiles DEF Kept, TypeInput
  <1> QED
    BY <1>1, FilesFinite DEF TypeInput

\* What the directories are worth does not change while they are compared.
LEMMA SameFiles ==
    ASSUME UNCHANGED input, NEW d
    PROVE  /\ Files(d)' = Files(d) /\ Primaries(d)' = Primaries(d)
           /\ findPrimary(d)' = findPrimary(d) /\ Candidate(d)' = Candidate(d)
  BY DEF input, Files, Primaries, findPrimary, Candidate, Allowed, file

LEMMA SameTrim == ASSUME UNCHANGED input, NEW d PROVE trimToOriginal(d)' = trimToOriginal(d)
  <1>1. /\ Files(d)' = Files(d) /\ findPrimary(d)' = findPrimary(d)
        /\ cfg' = cfg /\ song' = song /\ results' = results
    BY SameFiles DEF input
  <1>2. Numbered(d)' = Numbered(d)
    BY <1>1 DEF Numbered, file
  <1>3. Discs(d)' = Discs(d)
    BY <1>1, <1>2 DEF Discs, file
  <1>4. WantedDiscs(d)' = WantedDiscs(d)
    BY <1>1, <1>3 DEF WantedDiscs, allowedDiscs
  <1>5. trimExtraDiscs(d)' = trimExtraDiscs(d)
    BY <1>1, <1>4 DEF trimExtraDiscs, file
  <1>6. trimBonusTracks(d, trimExtraDiscs(d))' = trimBonusTracks(d, trimExtraDiscs(d))
    BY <1>1, <1>4, <1>5 DEF trimBonusTracks, expectedAlbumLength, Precedes, file
  <1>7. duplicatePosition(d)' = duplicatePosition(d)
    BY <1>1, <1>2 DEF duplicatePosition, file
  <1> QED
    BY <1>1, <1>2, <1>6, <1>7 DEF trimToOriginal

LEMMA SameKept ==
    ASSUME UNCHANGED input, NEW d
    PROVE  Kept(d)' = Kept(d)
  <1>1. /\ trimToOriginal(d)' = trimToOriginal(d) /\ Files(d)' = Files(d)
        /\ findPrimary(d)' = findPrimary(d) /\ Candidate(d)' = Candidate(d)
        /\ cfg' = cfg /\ results' = results
    BY SameFiles, SameTrim DEF input
  <1>2. qualityFiltered(d)' = qualityFiltered(d)
    BY <1>1 DEF qualityFiltered, OverCeiling, withinQualityRange, file
  <1> QED
    BY <1>1, <1>2 DEF Kept

LEMMA SameSize == ASSUME UNCHANGED input PROVE \A S : RightSized(S)' = RightSized(S)
  BY DEF input, RightSized, oversizedDir, expectedTrackCount, expectedAlbumLength

LEMMA InvInit == Init => Inv
  <1> SUFFICES ASSUME Init PROVE Inv
    OBVIOUS
  <1>1. TypeInput /\ Modes
    BY DEF Init, TypeInput, Modes
  <1>2. Len(results) \in Nat
    BY <1>1, DirsType DEF TypeInput
  <1>3. Loop
    BY <1>2 DEF Init, Loop
  <1>4. AlbumQueued /\ SingleQueued
    BY DEF Init, AlbumQueued, SingleQueued, InAlbumMode, Queued
  <1> QED
    BY <1>1, <1>3, <1>4 DEF Inv

\* One more directory.
LEMMA ConsiderLoop == ASSUME Inv, Consider PROVE Loop'
  <1> DEFINE d == Len(kept) + 1
             score == Score(d, Kept(d))
  <1>1. /\ kept' = Append(kept, Kept(d)) /\ Len(kept) < Len(results)
        /\ best' \in {d, best} /\ (best' = d => Kept(d) # {} \/ best = d)
        /\ bestFull' = IF RightSized(Kept(d)) /\ Better(score, bestFull) THEN d ELSE bestFull
    BY DEF Consider, Kept
  <1>2. /\ kept \in Seq(SUBSET Nat) /\ Len(kept) \in Nat /\ d \in Dirs
        /\ \A i \in 1..Len(kept) : kept[i] = Kept(i)
        /\ best \in 0..Len(kept) /\ bestFull \in 0..Len(kept)
    BY <1>1, DirsType DEF Inv, Loop, TypeInput
  <1>3. Kept(d) \in SUBSET Nat
    BY <1>2, KeptType DEF Inv
  <1>4. UNCHANGED input
    BY DEF Consider
  <1>5. /\ Len(kept') = d /\ d = Len(kept) + 1 /\ kept' \in Seq(SUBSET Nat) /\ kept'[d] = Kept(d)
        /\ \A i \in 1..Len(kept) : kept'[i] = kept[i]
    BY <1>1, <1>2, <1>3
  <1>6. /\ best # 0 => kept[best] # {}
        /\ bestFull # 0 => RightSized(kept[bestFull])
        /\ \A i \in 1..Len(kept) : RightSized(kept[i]) => bestFull # 0
    BY DEF Inv, Loop
  <1>7. /\ bestFull' \in {d, bestFull} /\ (bestFull' = d => RightSized(Kept(d)) \/ bestFull = d)
        /\ bestFull = 0 /\ RightSized(Kept(d)) => bestFull' = d
    BY <1>1 DEF Better
  <1> HIDE DEF d, score
  <1>8. /\ Len(kept') <= Len(results')
        /\ best' \in 0..Len(kept') /\ (best' # 0 => kept'[best'] # {})
        /\ bestFull' \in 0..Len(kept')
    <2>1. Len(results') = Len(results) /\ Len(results) \in Nat
      BY <1>4, DirsType DEF input, Inv, TypeInput
    <2>2. Len(kept') <= Len(results')
      BY <1>1, <1>2, <1>5, <2>1
    <2>3. best' \in 0..Len(kept') /\ bestFull' \in 0..Len(kept')
      BY <1>1, <1>2, <1>5, <1>7
    <2>4. best' # 0 => kept'[best'] # {}
      BY <1>1, <1>2, <1>5, <1>6
    <2> QED
      BY <2>2, <2>3, <2>4
  <1>9. \A i \in 1..Len(kept') : kept'[i] = Kept(i)'
    <2>1. \A i \in 1..Len(kept') : kept'[i] = Kept(i)
      BY <1>2, <1>5
    <2>2. \A i : Kept(i)' = Kept(i)
      BY <1>4, SameKept
    <2> QED
      BY <2>1, <2>2
  <1>10. bestFull' # 0 => RightSized(kept'[bestFull'])
    BY <1>2, <1>5, <1>6, <1>7
  <1>11. \A i \in 1..Len(kept') : RightSized(kept'[i]) => bestFull' # 0
    BY <1>2, <1>5, <1>6, <1>7
  <1>12. \A S : RightSized(S)' = RightSized(S)
    BY <1>4, SameSize
  <1> QED
    BY <1>5, <1>8, <1>9, <1>10, <1>11, <1>12 DEF Loop

\* The other steps leave it alone.
LEMMA LoopStays == ASSUME Inv, UNCHANGED <<input, loop>> PROVE Loop'
  <1>1. UNCHANGED input /\ kept' = kept /\ best' = best /\ bestFull' = bestFull /\ results' = results
    BY DEF loop, input
  <1>2. \A d : Kept(d)' = Kept(d)
    BY <1>1, SameKept
  <1>3. \A S : RightSized(S)' = RightSized(S)
    BY <1>1, SameSize
  <1> QED
    BY <1>1, <1>2, <1>3 DEF Inv, Loop

-----------------------------------------------------------------------------
(* The single files *)

LEMMA SameFilter == ASSUME UNCHANGED input PROVE filterFiles' = filterFiles
  <1>1. \A d : Files(d)' = Files(d)
    BY SameFiles
  <1>2. CollectFiles' = CollectFiles
    BY <1>1 DEF CollectFiles, Dirs, input, file
  <1> QED
    BY <1>2 DEF filterFiles, Found, file, withinQualityRange, OverCeiling, input

LEMMA SingleStays ==
    ASSUME Inv, UNCHANGED <<input, single>>, ~ Queued' \/ cfg.albumMode
    PROVE  SingleQueued'
  <1>1. filterFiles' = filterFiles /\ cfg' = cfg
    BY SameFilter DEF input
  <1> QED
    BY <1>1 DEF Inv, SingleQueued, single

LEMMA NotQueued == pc' # "queued" => AlbumQueued' /\ ~ Queued'
  BY DEF AlbumQueued, InAlbumMode, Queued

-----------------------------------------------------------------------------
(* The invariant, action by action *)

\* A step that queues nothing and tries no file needs only be looked at for
\* where it goes and for the directories it compares.
LEMMA Elsewhere ==
    ASSUME Inv, UNCHANGED <<input, single>>, Modes', Loop', pc' # "queued"
    PROVE  Inv'
  <1>1. TypeInput'
    BY DEF Inv, TypeInput, input
  <1>2. AlbumQueued' /\ SingleQueued'
    BY NotQueued, SingleStays
  <1> QED
    BY <1>1, <1>2 DEF Inv

LEMMA SearchSteps ==
    Inv /\ (search \/ SearchPending \/ SearchEmpty \/ SearchCompleted \/ SearchFails) => Inv'
  <1> SUFFICES ASSUME Inv, search \/ SearchPending \/ SearchEmpty \/ SearchCompleted \/ SearchFails
               PROVE  Inv'
    OBVIOUS
  <1>1. UNCHANGED <<input, loop, single>>
    BY DEF search, SearchPending, SearchEmpty, SearchCompleted, SearchFails
  <1>2. Modes' /\ pc' # "queued"
    <2>1. cfg' = cfg /\ tried' = tried
      BY <1>1 DEF input, single
    <2> QED
      BY <2>1 DEF search, SearchPending, SearchEmpty, SearchCompleted, SearchFails, Goto, Inv, Modes
  <1>3. Loop'
    BY <1>1, LoopStays
  <1> QED
    BY <1>1, <1>2, <1>3, Elsewhere

LEMMA AlbumSteps == Inv /\ (Consider \/ NothingFound \/ QueueFails) => Inv'
  <1> SUFFICES ASSUME Inv, Consider \/ NothingFound \/ QueueFails
               PROVE  Inv'
    OBVIOUS
  <1>1. UNCHANGED <<input, single>> /\ cfg' = cfg /\ tried' = tried
    BY DEF Consider, NothingFound, QueueFails, input, single
  <1>2. Modes' /\ pc' # "queued"
    BY <1>1 DEF Consider, NothingFound, QueueFails, Goto, Inv, Modes
  <1>3. Loop'
    <2>1. Consider => Loop'
      BY ConsiderLoop
    <2>2. NothingFound \/ QueueFails => UNCHANGED <<input, loop>>
      BY DEF NothingFound, QueueFails
    <2> QED
      BY <2>1, <2>2, LoopStays
  <1> QED
    BY <1>1, <1>2, <1>3, Elsewhere

\* The chosen directory left something, so there is a first file.
LEMMA ChosenLeft ==
    ASSUME Inv, Chosen # 0
    PROVE  /\ Chosen \in 1..Len(kept) /\ Chosen \in Dirs
           /\ kept[Chosen] \in SUBSET Nat /\ kept[Chosen] # {}
           /\ First(kept[Chosen]) \in kept[Chosen]
  <1>1. /\ kept \in Seq(SUBSET Nat) /\ Len(kept) \in Nat /\ Len(kept) <= Len(results)
        /\ Chosen \in 1..Len(kept)
    BY DEF Inv, Loop, Chosen
  <1>2. Chosen \in Dirs /\ kept[Chosen] = Kept(Chosen)
    BY <1>1, DirsType DEF Inv, Loop, TypeInput
  <1>3. kept[Chosen] \in SUBSET Nat /\ IsFiniteSet(kept[Chosen])
    BY <1>2, KeptType DEF Inv
  <1>4. bestFull # 0 => kept[bestFull] # {}
    BY <1>3, RightSizedFacts DEF Inv, Loop, Chosen, TypeInput
  <1>5. kept[Chosen] # {}
    BY <1>4 DEF Inv, Loop, Chosen
  <1> QED
    BY <1>1, <1>2, <1>3, <1>5, FirstIsLeast

LEMMA QueueStep == Inv /\ queueAlbumDownload => Inv'
  <1> SUFFICES ASSUME Inv, queueAlbumDownload
               PROVE  Inv'
    OBVIOUS
  <1> DEFINE head == IF findPrimary(Chosen) \in kept[Chosen] THEN findPrimary(Chosen)
                     ELSE First(kept[Chosen])
  <1>1. /\ UNCHANGED <<input, loop, single>> /\ pc = "consider" /\ pc' = "queued"
        /\ Len(kept) = Len(results) /\ Chosen # 0
        /\ primary' = <<Chosen, head>> /\ siblings' = kept[Chosen] \ {head}
    BY DEF queueAlbumDownload, Goto
  <1>2. head \in kept[Chosen]
    BY <1>1, ChosenLeft
  <1>3. /\ cfg' = cfg /\ results' = results /\ kept' = kept /\ cfg.albumMode
        /\ Chosen' = Chosen /\ tried' = tried
    BY <1>1 DEF input, loop, single, Inv, Modes, Chosen
  <1>4. \A d : findPrimary(d)' = findPrimary(d)
    BY <1>1, SameFiles
  <1> HIDE DEF head
  <1>5. AlbumQueued'
    <2>1. findPrimary(Chosen)' = findPrimary(Chosen)
      BY <1>3, <1>4
    <2>2. findPrimary(Chosen) \in kept[Chosen] => head = findPrimary(Chosen)
      BY DEF head
    <2> QED
      BY <1>1, <1>2, <1>3, <2>1, <2>2 DEF AlbumQueued
  <1>6. TypeInput' /\ Modes'
    BY <1>1, <1>3 DEF Inv, TypeInput, Modes, input
  <1>7. Loop'
    BY <1>1, LoopStays
  <1>8. SingleQueued'
    BY <1>1, <1>3, SingleStays
  <1> QED
    BY <1>5, <1>6, <1>7, <1>8 DEF Inv

LEMMA SingleSteps ==
    Inv /\ (getSingle \/ OutOfAttempts \/ \E o \in shortlist : Accepted(o) \/ Refused(o)) => Inv'
  <1> SUFFICES ASSUME Inv, getSingle \/ OutOfAttempts \/ \E o \in shortlist : Accepted(o) \/ Refused(o)
               PROVE  Inv'
    OBVIOUS
  <1>1. UNCHANGED <<input, loop>> /\ cfg' = cfg /\ filterFiles' = filterFiles
    <2>1. UNCHANGED <<input, loop>>
      BY DEF getSingle, OutOfAttempts, Accepted, Refused
    <2> QED
      BY <2>1, SameFilter DEF input
  <1>2. pc \in {"collect", "attempt"} /\ ~ cfg.albumMode
    BY DEF getSingle, OutOfAttempts, Accepted, Refused, NextAttempt, Inv, Modes
  <1>3. Modes'
    BY <1>1, <1>2 DEF getSingle, OutOfAttempts, Accepted, Refused, NextAttempt, Goto, Modes
  <1>4. SingleQueued'
    <2>1. CASE getSingle
      BY <1>1, <2>1 DEF getSingle, Goto, FirstAttempts, SingleQueued, Inv, Modes, Queued
    <2>2. CASE OutOfAttempts
      BY <1>1, <2>2 DEF OutOfAttempts, Goto, SingleQueued, Inv, Queued, single
    <2>3. ASSUME NEW o \in shortlist, Accepted(o)
          PROVE  SingleQueued'
      BY <1>1, <2>3 DEF Accepted, SingleQueued, Inv, single
    <2>4. ASSUME NEW o \in shortlist, Refused(o)
          PROVE  SingleQueued'
      BY <1>1, <2>4 DEF Refused, NextAttempt, SingleQueued, Inv, Queued
    <2> QED
      BY <2>1, <2>2, <2>3, <2>4
  <1>5. TypeInput'
    BY <1>1 DEF Inv, TypeInput, input
  <1>6. Loop'
    BY <1>1, LoopStays
  <1>7. AlbumQueued'
    BY <1>1, <1>2 DEF AlbumQueued, InAlbumMode
  <1> QED
    BY <1>3, <1>4, <1>5, <1>6, <1>7 DEF Inv

LEMMA InvStutter == Inv /\ UNCHANGED vars => Inv'
  <1> SUFFICES ASSUME Inv, UNCHANGED vars
               PROVE  Inv'
    OBVIOUS
  <1>1. /\ UNCHANGED <<input, loop>> /\ cfg' = cfg /\ pc' = pc /\ Chosen' = Chosen
        /\ tried' = tried
    BY DEF vars, input, loop, single, Chosen
  <1>2. TypeInput' /\ Modes'
    BY <1>1 DEF Inv, TypeInput, Modes, input
  <1>3. Loop'
    BY <1>1, LoopStays
  <1>4. AlbumQueued'
    <2>1. findPrimary(Chosen)' = findPrimary(Chosen)
      BY <1>1, SameFiles
    <2> QED
      BY <1>1, <2>1 DEF Inv, AlbumQueued, InAlbumMode, Queued, vars, loop, track, input
  <1>5. SingleQueued'
    BY <1>1, SameFilter DEF Inv, SingleQueued, Queued, vars, single, track, input
  <1> QED
    BY <1>2, <1>3, <1>4, <1>5 DEF Inv

LEMMA InvNext == Inv /\ [Next]_vars => Inv'
  BY SearchSteps, AlbumSteps, QueueStep, SingleSteps, InvStutter DEF Next

LEMMA InvAlways == Spec => []Inv
  BY InvInit, InvNext, PTL DEF Spec

-----------------------------------------------------------------------------
(* The theorems *)

LEMMA ReleaseIsKept == ASSUME Inv, InAlbumMode PROVE Release = kept[Chosen] /\ Chosen # 0
  BY DEF Inv, AlbumQueued, Release

\* RightSizeWins: if any directory left a release of more than one file and at
\* most twice the album's length, a release of such a size is queued,
\* whatever the scores are.
THEOREM RightSizedChosen == Spec => []RightSizeWins
  <1>1. Inv => RightSizeWins
    <2> SUFFICES ASSUME Inv, InAlbumMode, NEW d \in Dirs, RightSized(kept[d])
                 PROVE  /\ Cardinality(Release) > 1
                        /\ expectedTrackCount > 0 => Cardinality(Release) <= 2 * expectedTrackCount
      BY DEF RightSizeWins
    <2>1. d \in 1..Len(kept)
      BY DirsType DEF Inv, AlbumQueued, TypeInput
    <2>2. bestFull # 0 /\ RightSized(kept[bestFull])
      BY <2>1 DEF Inv, Loop
    <2>3. Chosen = bestFull /\ Release = kept[bestFull]
      BY <2>2, ReleaseIsKept DEF Chosen
    <2>4. Chosen \in Dirs /\ kept[Chosen] = Kept(Chosen)
      BY <2>2, <2>3, ChosenLeft DEF Inv, Loop
    <2>5. IsFiniteSet(Release)
      BY <2>3, <2>4, KeptType DEF Inv
    <2> QED
      BY <2>2, <2>3, <2>5, RightSizedFacts DEF Inv, TypeInput
  <1> QED
    BY <1>1, InvAlways, PTL

\* In album mode no bitrate is too high.
NoCeiling == \A c \in Settings : c.albumMode => c.ceiling = 0

LEMMA PrimaryStays ==
    ASSUME NoCeiling, Inv, cfg.albumMode, NEW d \in Dirs, Kept(d) # {}
    PROVE  findPrimary(d) \in Kept(d) /\ file(d, findPrimary(d)).title
  <1>1. cfg.ceiling = 0
    BY DEF NoCeiling, Inv, TypeInput
  <1>2. Candidate(d) /\ Kept(d) = qualityFiltered(d)
    BY DEF Kept
  <1>3. ~ OverCeiling(file(d, findPrimary(d)))
    BY <1>1 DEF OverCeiling
  <1> QED
    BY <1>2, <1>3, FilteredFiles, PrimaryType DEF Inv, TypeInput

\* SongIsQueued: without a ceiling in album mode, the file the playlist gets
\* has the title of the recommended track.
THEOREM SongQueued == NoCeiling /\ Spec => []SongIsQueued
  <1>1. NoCeiling /\ Inv => SongIsQueued
    <2> SUFFICES ASSUME NoCeiling, Inv, Queued
                 PROVE  Found(primary).title
      BY DEF SongIsQueued
    <2>1. CASE cfg.albumMode
      <3>1. Chosen # 0 /\ primary[1] = Chosen
        BY <2>1 DEF Inv, AlbumQueued, InAlbumMode
      <3>2. Chosen \in Dirs /\ kept[Chosen] = Kept(Chosen) /\ kept[Chosen] # {}
        BY <3>1, ChosenLeft DEF Inv, Loop
      <3>3. findPrimary(Chosen) \in kept[Chosen] /\ file(Chosen, findPrimary(Chosen)).title
        BY <2>1, <3>2, PrimaryStays
      <3>4. primary[2] = findPrimary(Chosen)
        BY <2>1, <3>3 DEF Inv, AlbumQueued, InAlbumMode
      <3> QED
        BY <3>1, <3>3, <3>4 DEF Found
    <2>2. CASE ~ cfg.albumMode
      BY <2>2 DEF Inv, SingleQueued, filterFiles, CollectFiles, Found
    <2> QED
      BY <2>1, <2>2
  <1>2. ASSUME NoCeiling PROVE Spec => []SongIsQueued
    <2>1. Inv => SongIsQueued
      BY <1>1, <1>2
    <2> QED
      BY <2>1, InvAlways, PTL
  <1> QED
    BY <1>2

-----------------------------------------------------------------------------
(* The order single files are tried in *)

\* What is found is a place among the answers and a file of an extension that
\* is allowed.
LEMMA FoundType ==
    ASSUME TypeInput, NEW o \in filterFiles
    PROVE  /\ o = <<o[1], o[2]>> /\ o[1] \in Nat /\ o[2] \in Nat
           /\ Found(o) \in File /\ extensionRank(Found(o)) \in Nat
           /\ effectiveBitRate(Found(o)) \in Nat /\ bandRank(Found(o)) \in {0, 1}
  <1>1. o \in CollectFiles
    BY DEF filterFiles
  <1>2. PICK d \in Dirs, i \in UNION {DOMAIN results[d].files : d \in Dirs} : o = <<d, i>>
    BY <1>1 DEF CollectFiles
  <1>3. /\ o = <<d, i>> /\ o[1] = d /\ o[2] = i /\ d \in Nat
        /\ i \in Files(d) /\ results[d].files \in Seq(File)
    <2>1. o[1] = d /\ o[2] = i
      BY <1>2
    <2> QED
      BY <1>1, <1>2, <2>1, DirsType DEF CollectFiles, TypeInput
  <1>4. i \in Nat /\ file(d, i) \in File /\ Allowed(file(d, i))
    BY <1>3 DEF Files, file
  <1>5. extensionRank(Found(o)) \in Nat
    <2>1. cfg.extensions \in Seq(LosslessExtensions \cup Lossy)
      BY ChoiceAssumption DEF TypeInput, Setting
    <2> DEFINE S == {k \in DOMAIN cfg.extensions : cfg.extensions[k] = Found(o).ext}
    <2>2. S \in SUBSET Nat /\ S # {}
      BY <1>3, <1>4, <2>1 DEF Found, Allowed
    <2>3. First(S) \in S
      BY <2>2, FirstIsLeast
    <2> QED
      BY <2>2, <2>3 DEF extensionRank
  <1>6. effectiveBitRate(Found(o)) \in Nat
    BY <1>3, <1>4 DEF Found, effectiveBitRate, File
  <1> QED
    BY <1>3, <1>4, <1>5, <1>6 DEF Found, bandRank

\* The comparison of two files is that of two numbers, or of two pairs, and the
\* place decides between equals: so the order is total and transitive.
LEMMA AheadIsOrder ==
    ASSUME TypeInput, NEW o \in filterFiles, NEW p \in filterFiles, NEW q \in filterFiles
    PROVE  /\ o # p => Ahead(o, p) \/ Ahead(p, o)
           /\ Ahead(o, p) /\ Ahead(p, q) => Ahead(o, q)
           /\ ~ Ahead(o, o)
  <1> DEFINE e(x) == extensionRank(Found(x))
             r(x) == effectiveBitRate(Found(x))
             b(x) == bandRank(Found(x))
  <1>1. \A x \in {o, p, q} : /\ x = <<x[1], x[2]>> /\ x[1] \in Nat /\ x[2] \in Nat
                             /\ e(x) \in Nat /\ r(x) \in Nat /\ b(x) \in {0, 1}
    BY FoundType
  <1>2. \A x, y : compareFiles(Found(x), Found(y)) =
                    IF cfg.size = "none" THEN e(x) < e(y)
                    ELSE b(x) < b(y) \/ (b(x) = b(y) /\ r(x) > r(y))
    BY DEF compareFiles
  <1> DEFINE c(x, y) == compareFiles(Found(x), Found(y))
  <1>3. \A x, y : Ahead(x, y) <=> c(x, y) \/ (~ c(y, x) /\ Earlier(x, y))
    BY DEF Ahead
  <1> HIDE DEF e, r, b
  <1>4. CASE cfg.size = "none"
    <2>1. \A x, y \in {o, p, q} :
             Ahead(x, y) <=> e(x) < e(y) \/ (e(x) = e(y) /\ Earlier(x, y))
      <3>1. \A x, y : c(x, y) <=> e(x) < e(y)
        BY <1>2, <1>4
      <3> HIDE DEF c
      <3> QED
        BY <1>1, <1>3, <3>1
    <2> QED
      BY <1>1, <2>1 DEF Earlier
  <1>5. CASE cfg.size # "none"
    <2>1. \A x, y \in {o, p, q} :
             Ahead(x, y) <=> \/ b(x) < b(y)
                             \/ b(x) = b(y) /\ r(x) > r(y)
                             \/ b(x) = b(y) /\ r(x) = r(y) /\ Earlier(x, y)
      <3>1. \A x, y : c(x, y) <=> b(x) < b(y) \/ (b(x) = b(y) /\ r(x) > r(y))
        BY <1>2, <1>5
      <3> HIDE DEF c
      <3> QED
        BY <1>1, <1>3, <3>1
    <2> QED
      BY <1>1, <2>1 DEF Earlier
  <1> QED
    BY <1>4, <1>5

LEMMA FilterFinite == ASSUME TypeInput PROVE IsFiniteSet(filterFiles)
  <1>1. Dirs = 1..Len(results) /\ Len(results) \in Nat /\ IsFiniteSet(Dirs)
    BY DirsType, FS_Interval DEF TypeInput
  <1> DEFINE D == {DOMAIN results[d].files : d \in Dirs}
  <1>2. IsFiniteSet(D)
    <2> DEFINE g == [d \in Dirs |-> DOMAIN results[d].files]
    <2>1. g \in Surjection(Dirs, D)
      BY DEF Surjection
    <2> HIDE DEF g, D
    <2> QED
      BY <1>1, <2>1, FS_Surjection
  <1>3. \A S \in D : IsFiniteSet(S)
    <2> SUFFICES ASSUME NEW d \in Dirs PROVE IsFiniteSet(DOMAIN results[d].files)
      OBVIOUS
    <2>1. results[d].files \in Seq(File)
      BY DirsType DEF TypeInput
    <2>2. DOMAIN results[d].files = 1..Len(results[d].files) /\ Len(results[d].files) \in Nat
      BY <2>1
    <2> QED
      BY <2>2, FS_Interval
  <1>4. IsFiniteSet(UNION D)
    BY <1>2, <1>3, FS_UNION
  <1>5. IsFiniteSet(Dirs \X UNION D)
    BY <1>1, <1>4, FS_Product
  <1>6. filterFiles \subseteq Dirs \X UNION D
    BY DEF filterFiles, CollectFiles
  <1> QED
    BY <1>5, <1>6, FS_Subset

\* The attempts go to the files nothing left out is ahead of.
LEMMA AttemptsLead ==
    ASSUME TypeInput, NEW p \in FirstAttempts, NEW o \in filterFiles \ FirstAttempts
    PROVE  Ahead(p, o)
  <1> DEFINE before(x) == {q \in filterFiles : Ahead(q, x)}
  <1>1. p \in filterFiles /\ o # p /\ cfg.attempts \in Nat
    BY ChoiceAssumption DEF FirstAttempts, TypeInput, Setting
  <1>2. IsFiniteSet(before(o)) /\ IsFiniteSet(before(p))
    BY FilterFinite, FS_Subset
  <1>3. Cardinality(before(o)) \in Nat /\ Cardinality(before(p)) \in Nat
    BY <1>2, FS_CardinalityType
  <1>4. Cardinality(before(p)) < cfg.attempts /\ ~ (Cardinality(before(o)) < cfg.attempts)
    BY DEF FirstAttempts
  <1>5. ASSUME Ahead(o, p) PROVE before(o) \subseteq before(p)
    <2>1. \A q \in filterFiles : Ahead(q, o) => Ahead(q, p)
      BY <1>1, <1>5, AheadIsOrder
    <2> QED
      BY <2>1
  <1>6. ~ Ahead(o, p)
    <2> SUFFICES ASSUME Ahead(o, p) PROVE FALSE
      OBVIOUS
    <2>1. Cardinality(before(o)) <= Cardinality(before(p))
      BY <1>2, <1>5, FS_Subset
    <2> HIDE DEF before
    <2> QED
      BY <1>1, <1>3, <1>4, <2>1
  <1> QED
    BY <1>1, <1>6, AheadIsOrder

\* What is queued is the first of the files that have not been refused.
FirstUnrefused ==
    /\ pc = "attempt" \/ (Queued /\ ~ cfg.albumMode) => shortlist = FirstAttempts
    /\ Queued /\ ~ cfg.albumMode =>
         /\ primary \in shortlist \ tried
         /\ \A p \in shortlist \ tried : p = primary \/ Ahead(primary, p)

LEMMA SameOrder ==
    ASSUME UNCHANGED input
    PROVE  FirstAttempts' = FirstAttempts /\ \A o, p : Ahead(o, p)' = Ahead(o, p)
  <1>1. \A o, p : Ahead(o, p)' = Ahead(o, p)
    BY DEF input, Ahead, Earlier, compareFiles, extensionRank, bandRank, Found, file
  <1>2. filterFiles' = filterFiles /\ cfg' = cfg
    BY SameFilter DEF input
  <1> QED
    BY <1>1, <1>2 DEF FirstAttempts

LEMMA FirstUnrefusedNext == Inv /\ FirstUnrefused /\ [Next]_vars => FirstUnrefused'
  <1> SUFFICES ASSUME Inv, FirstUnrefused, [Next]_vars
               PROVE  FirstUnrefused'
    OBVIOUS
  <1>1. /\ cfg' = cfg /\ FirstAttempts' = FirstAttempts
        /\ \A o, p : Ahead(o, p)' = Ahead(o, p)
    <2>1. UNCHANGED input
      BY DEF Next, search, SearchPending, SearchEmpty, SearchCompleted, SearchFails, Consider,
             NothingFound, queueAlbumDownload, QueueFails, getSingle, OutOfAttempts,
             Accepted, Refused, vars
    <2> QED
      BY <2>1, SameOrder DEF input
  <1>2. CASE \/ search \/ SearchPending \/ SearchEmpty \/ SearchCompleted \/ SearchFails
             \/ Consider \/ NothingFound \/ QueueFails \/ OutOfAttempts
    <2>1. pc' \notin {"attempt", "queued"}
      BY <1>2 DEF search, SearchPending, SearchEmpty, SearchCompleted, SearchFails, Consider,
                  NothingFound, QueueFails, OutOfAttempts, Goto
    <2> QED
      BY <2>1 DEF FirstUnrefused, Queued
  <1>3. CASE queueAlbumDownload
    <2>1. pc' = "queued" /\ cfg.albumMode
      BY <1>3 DEF queueAlbumDownload, Goto, Inv, Modes
    <2> QED
      BY <1>1, <2>1 DEF FirstUnrefused, Queued
  <1>4. CASE getSingle
    BY <1>1, <1>4 DEF getSingle, Goto, FirstUnrefused, Queued
  <1>5. ASSUME NEW o \in shortlist, Accepted(o)
        PROVE  FirstUnrefused'
    BY <1>1, <1>5 DEF Accepted, NextAttempt, Goto, single, FirstUnrefused, Queued
  <1>6. ASSUME NEW o \in shortlist, Refused(o)
        PROVE  FirstUnrefused'
    BY <1>1, <1>6 DEF Refused, NextAttempt, FirstUnrefused, Queued
  <1>7. CASE UNCHANGED vars
    BY <1>1, <1>7 DEF vars, single, track, FirstUnrefused, Queued
  <1> QED
    BY <1>2, <1>3, <1>4, <1>5, <1>6, <1>7 DEF Next

\* PreferredFirst: the single file that is queued is the best of those found,
\* but for the ones peers have refused: of the preferred kind if there is one,
\* and of the highest bitrate among its kind, or of the first extension.
THEOREM PreferredIsFirst == Spec => []PreferredFirst
  <1>1. Init => FirstUnrefused
    BY DEF Init, FirstUnrefused, Queued
  <1>2. Inv /\ FirstUnrefused => PreferredFirst
    <2> SUFFICES ASSUME Inv, FirstUnrefused, Queued, ~ cfg.albumMode, NEW o \in filterFiles \ tried
                 PROVE  LET f == Found(o)
                            g == Found(primary)
                        IN IF cfg.size = "none" THEN extensionRank(g) <= extensionRank(f)
                           ELSE /\ cfg.size = "smaller" /\ isLossless(g) => isLossless(f)
                                /\ cfg.size = "larger" /\ isLossless(f) => isLossless(g)
                                /\ isLossless(f) = isLossless(g)
                                      => effectiveBitRate(f) <= effectiveBitRate(g)
      BY DEF PreferredFirst
    <2> DEFINE f == Found(o)
               g == Found(primary)
    <2>1. primary \in filterFiles /\ TypeInput
      BY DEF Inv, SingleQueued
    <2>2. o = primary \/ Ahead(primary, o)
      BY <2>1, AttemptsLead DEF FirstUnrefused
    <2>3. /\ extensionRank(f) \in Nat /\ extensionRank(g) \in Nat
          /\ effectiveBitRate(f) \in Nat /\ effectiveBitRate(g) \in Nat
          /\ bandRank(f) \in {0, 1} /\ bandRank(g) \in {0, 1}
      BY <2>1, FoundType
    <2>4. ~ compareFiles(f, g)
      <3>1. \A x \in {f, g} : ~ compareFiles(x, x)
        BY <2>3 DEF compareFiles
      <3>2. ~ (compareFiles(f, g) /\ compareFiles(g, f))
        BY <2>3 DEF compareFiles
      <3> QED
        BY <2>2, <3>1, <3>2 DEF Ahead
    <2> HIDE DEF f, g
    <2>5. CASE cfg.size = "none"
      BY <2>3, <2>4, <2>5 DEF compareFiles, f, g
    <2>6. CASE cfg.size # "none"
      <3>1. /\ bandRank(g) <= bandRank(f)
            /\ bandRank(g) = bandRank(f) => effectiveBitRate(f) <= effectiveBitRate(g)
        BY <2>3, <2>4, <2>6 DEF compareFiles
      <3>2. /\ cfg.size = "smaller" /\ isLossless(g) => isLossless(f)
            /\ cfg.size = "larger" /\ isLossless(f) => isLossless(g)
            /\ isLossless(f) = isLossless(g) => bandRank(g) = bandRank(f)
        BY <3>1 DEF bandRank, isLossless
      <3> QED
        BY <2>6, <3>1, <3>2 DEF f, g
    <2> QED
      BY <2>5, <2>6
  <1> QED
    BY <1>1, <1>2, FirstUnrefusedNext, InvAlways, PTL DEF Spec

-----------------------------------------------------------------------------
(* The scores *)

\* A directory that names album and artist scores at least 142, and one that
\* does not name the album at most 110, whatever quality and size add.
LEMMA ScoreBounds ==
    ASSUME TypeInput, NEW d \in Dirs, NEW S, IsFiniteSet(S)
    PROVE  /\ Score(d, S) \in Int
           /\ results[d].album /\ results[d].artist => Score(d, S) >= 142
           /\ ~ results[d].album => Score(d, S) <= 110
  <1> DEFINE size == releaseSizeScore(S)
             preference == scorePreference(d, S)
             named == scoreDir(d)
             penalty == If(cfg.original /\ results[d].later, originalYearPenalty)
  <1>1. Cardinality(S) \in Nat /\ expectedTrackCount \in Nat
    BY FS_CardinalityType, ExpectedType DEF TypeInput
  <1>2. size \in 0..40
    <2>1. ASSUME NEW n \in Nat, NEW e \in Nat
          PROVE  /\ Least(n, 40) \in 0..40 /\ Distance(n, e) \in Nat
                 /\ 4 * Distance(n, e) \in Nat
      BY DEF Least, Distance
    <2>2. ASSUME NEW m \in Nat PROVE If(m < 40, 40 - m) \in 0..40
      BY DEF If
    <2> QED
      BY <1>1, <2>1, <2>2 DEF releaseSizeScore, maxReleaseSizeScore
  <1>3. preference \in 0..20
    BY DEF scorePreference, If, preferenceScore
  <1>4. penalty \in 0..8
    BY DEF If, originalYearPenalty
  <1>5. /\ named \in 0..150
        /\ results[d].album /\ results[d].artist => named = 150
        /\ ~ results[d].album => named <= 50
    BY DEF scoreDir, If
  <1>6. Score(d, S) = named + preference + size - penalty
    BY DEF Score
  <1> HIDE DEF size, preference, named, penalty
  <1> QED
    BY <1>2, <1>3, <1>4, <1>5, <1>6

\* bestFull has the highest score of the releases of a sensible size.
BestScored ==
    /\ scores \in Seq(Int) /\ Len(scores) = Len(kept)
    /\ \A d \in 1..Len(kept) : scores[d] = Score(d, kept[d])
    /\ \A d \in 1..Len(kept) : RightSized(kept[d]) => scores[d] <= scores[bestFull]

LEMMA SameScore == ASSUME UNCHANGED input PROVE \A d, S : Score(d, S)' = Score(d, S)
  <1>1. cfg' = cfg /\ song' = song /\ results' = results
    BY DEF input
  <1>2. expectedTrackCount' = expectedTrackCount
    BY <1>1 DEF expectedTrackCount, expectedAlbumLength
  <1>3. \A S : releaseSizeScore(S)' = releaseSizeScore(S)
    BY <1>1, <1>2 DEF releaseSizeScore
  <1>4. \A d, S : scorePreference(d, S)' = scorePreference(d, S) /\ scoreDir(d)' = scoreDir(d)
    BY <1>1 DEF scorePreference, scoreDir, file
  <1> QED
    BY <1>1, <1>3, <1>4 DEF Score

LEMMA BestScoredNext == Inv /\ BestScored /\ [Next]_vars => BestScored'
  <1> SUFFICES ASSUME Inv, BestScored, [Next]_vars
               PROVE  BestScored'
    OBVIOUS
  <1>1. UNCHANGED input
    BY DEF Next, search, SearchPending, SearchEmpty, SearchCompleted, SearchFails, Consider,
           NothingFound, queueAlbumDownload, QueueFails, getSingle, OutOfAttempts,
           Accepted, Refused, vars
  <1>2. /\ \A d, S : Score(d, S)' = Score(d, S)
        /\ \A S : RightSized(S)' = RightSized(S)
    BY <1>1, SameScore, SameSize
  <1>3. CASE UNCHANGED loop
    <2>1. kept' = kept /\ scores' = scores /\ bestFull' = bestFull
      BY <1>3 DEF loop
    <2> QED
      BY <1>2, <2>1 DEF BestScored
  <1>4. CASE Consider
    <2> DEFINE e == Len(kept) + 1
               score == Score(e, Kept(e))
    <2>1. /\ kept' = Append(kept, Kept(e)) /\ scores' = Append(scores, score)
          /\ Len(kept) < Len(results)
          /\ bestFull' = IF RightSized(Kept(e)) /\ (bestFull = 0 \/ score > scores[bestFull])
                         THEN e ELSE bestFull
      BY <1>4 DEF Consider, Kept, Better
    <2>2. /\ kept \in Seq(SUBSET Nat) /\ Len(kept) \in Nat /\ e \in Dirs /\ bestFull \in 0..Len(kept)
          /\ scores \in Seq(Int) /\ Len(scores) = Len(kept)
      BY <2>1, DirsType DEF Inv, Loop, TypeInput, BestScored
    <2>3. Kept(e) \in SUBSET Nat /\ score \in Int
      BY <2>2, KeptType, ScoreBounds DEF Inv
    <2>4. /\ Len(kept') = e /\ kept'[e] = Kept(e) /\ \A d \in 1..Len(kept) : kept'[d] = kept[d]
      BY <2>1, <2>2, <2>3
    <2>5. /\ scores' \in Seq(Int) /\ Len(scores') = e /\ scores'[e] = score
          /\ \A d \in 1..Len(kept) : scores'[d] = scores[d]
      BY <2>1, <2>2, <2>3
    <2>6. \A d \in 1..Len(kept) : scores[d] \in Int
      BY <2>2
    <2>7. \A d \in 1..e : d = e \/ d \in 1..Len(kept)
      BY <2>2
    <2>8. \A d \in 1..e : scores'[d] = Score(d, kept'[d])
      BY <2>4, <2>5, <2>7 DEF BestScored
    <2>9. \A d \in 1..e : RightSized(kept'[d]) => scores'[d] <= scores'[bestFull']
      <3>1. \A d \in 1..Len(kept) : RightSized(kept[d]) => bestFull # 0 /\ scores[d] <= scores[bestFull]
        BY DEF Inv, Loop, BestScored
      <3> HIDE DEF e, score
      <3>2. CASE RightSized(Kept(e)) /\ (bestFull = 0 \/ score > scores[bestFull])
        <4>1. bestFull' = e /\ scores'[bestFull'] = score
          BY <2>1, <2>5, <3>2
        <4>2. \A d \in 1..Len(kept) : RightSized(kept[d]) => scores[d] <= score
          BY <2>2, <2>3, <2>6, <3>1, <3>2
        <4> QED
          BY <2>3, <2>4, <2>5, <2>7, <4>1, <4>2
      <3>3. CASE ~ (RightSized(Kept(e)) /\ (bestFull = 0 \/ score > scores[bestFull]))
        <4>1. bestFull' = bestFull
          BY <2>1, <3>3
        <4>2. RightSized(Kept(e)) => bestFull \in 1..Len(kept) /\ score <= scores[bestFull]
          BY <2>2, <2>3, <2>6, <3>3
        <4>3. bestFull # 0 => scores'[bestFull] = scores[bestFull]
          BY <2>2, <2>5
        <4> QED
          BY <2>4, <2>5, <2>7, <3>1, <4>1, <4>2, <4>3
      <3> QED
        BY <3>2, <3>3
    <2> HIDE DEF e, score
    <2> QED
      BY <1>2, <2>4, <2>5, <2>8, <2>9 DEF BestScored
  <1> QED
    <2>1. Next => Consider \/ UNCHANGED loop
      BY DEF Next, search, SearchPending, SearchEmpty, SearchCompleted, SearchFails,
             NothingFound, queueAlbumDownload, QueueFails, getSingle, OutOfAttempts,
             Accepted, Refused
    <2> QED
      BY <1>3, <1>4, <2>1 DEF vars

\* FullNameWins: as soon as a release of a sensible size whose directory
\* names the album and the artist was offered, what is queued is of the album,
\* whatever size and quality add to the scores.
THEOREM FullNamesWin == Spec => []FullNameWins
  <1>1. Init => BestScored
    BY DEF Init, BestScored
  <1>2. Inv /\ BestScored => FullNameWins
    <2> SUFFICES ASSUME Inv, BestScored, InAlbumMode, NEW d \in Dirs,
                        RightSized(kept[d]), results[d].album, results[d].artist
                 PROVE  results[primary[1]].album
      BY DEF FullNameWins
    <2>1. d \in 1..Len(kept) /\ TypeInput
      BY DirsType DEF Inv, AlbumQueued, TypeInput
    <2>2. /\ bestFull # 0 /\ bestFull \in 1..Len(kept) /\ bestFull \in Dirs
          /\ primary[1] = bestFull
      BY <2>1, ChosenLeft DEF Inv, Loop, AlbumQueued, Chosen
    <2>3. \A e \in 1..Len(kept) : e \in Dirs /\ IsFiniteSet(kept[e])
      <3> SUFFICES ASSUME NEW e \in 1..Len(kept) PROVE e \in Dirs /\ IsFiniteSet(kept[e])
        OBVIOUS
      <3>1. e \in Dirs /\ kept[e] = Kept(e)
        BY <2>1, DirsType DEF Inv, Loop, AlbumQueued, TypeInput
      <3> QED
        BY <2>1, <3>1, KeptType
    <2>4. scores[d] >= 142 /\ scores[d] \in Int
      BY <2>1, <2>3, ScoreBounds DEF BestScored
    <2>5. scores[d] <= scores[bestFull]
      BY <2>1 DEF BestScored
    <2>6. scores[bestFull] \in Int /\ (~ results[bestFull].album => scores[bestFull] <= 110)
      BY <2>1, <2>2, <2>3, ScoreBounds DEF BestScored
    <2> QED
      BY <2>2, <2>4, <2>5, <2>6
  <1> QED
    BY <1>1, <1>2, BestScoredNext, InvAlways, PTL DEF Spec

-----------------------------------------------------------------------------
(* What the trim keeps *)

LEMMA NumberedFacts ==
    ASSUME TypeInput, NEW d \in Dirs
    PROVE  /\ Numbered(d) \subseteq Files(d) /\ Numbered(d) \subseteq Nat /\ IsFiniteSet(Numbered(d))
           /\ \A i \in Numbered(d) : /\ Readable(file(d, i)) /\ file(d, i).no \in Nat \ {0}
                                     /\ DiscOf(file(d, i)) \in Nat
  <1>1. Numbered(d) \subseteq Files(d)
    BY DEF Numbered
  <1>2. IsFiniteSet(Numbered(d)) /\ Numbered(d) \subseteq Nat
    BY <1>1, FilesFinite DEF TypeInput
  <1>3. \A i \in Files(d) : file(d, i) \in File
    BY DirsType DEF Files, file, TypeInput
  <1>4. \A f \in File : f.no \in Nat \ {0} /\ DiscOf(f) \in Nat
    BY DEF File, DiscOf
  <1> QED
    BY <1>1, <1>2, <1>3, <1>4 DEF Numbered

LEMMA DiscsFinite == ASSUME TypeInput, NEW d \in Dirs PROVE IsFiniteSet(WantedDiscs(d))
  <1> DEFINE all == {DiscOf(file(d, i)) : i \in Numbered(d)}
             g == [i \in Numbered(d) |-> DiscOf(file(d, i))]
  <1>1. g \in Surjection(Numbered(d), all)
    BY DEF Surjection
  <1>2. IsFiniteSet(all)
    <2> HIDE DEF g, all
    <2> QED
      BY <1>1, NumberedFacts, FS_Surjection
  <1>3. WantedDiscs(d) \subseteq all
    BY DEF WantedDiscs, Lowest, Discs
  <1> QED
    BY <1>2, <1>3, FS_Subset

\* The first discs include the first one.
LEMMA FirstDiscWanted ==
    ASSUME TypeInput, NEW d \in Dirs, NEW i \in Numbered(d),
           \A j \in Numbered(d) : DiscOf(file(d, i)) <= DiscOf(file(d, j))
    PROVE  i \in trimExtraDiscs(d)
  <1> DEFINE disc(j) == DiscOf(file(d, j))
  <1>1. disc(i) \in Nat /\ i \in Files(d) /\ Readable(file(d, i))
    BY NumberedFacts
  <1>2. ASSUME disc(i) # 0 PROVE disc(i) \in WantedDiscs(d)
    <2>1. disc(i) \in Discs(d)
      BY <1>2 DEF Discs
    <2>2. \A y \in Discs(d) : y \in Nat /\ ~ (y < disc(i))
      <3> SUFFICES ASSUME NEW j \in Numbered(d) PROVE disc(j) \in Nat /\ ~ (disc(j) < disc(i))
        BY DEF Discs
      <3> QED
        BY <1>1, NumberedFacts
    <2>3. Cardinality({y \in Discs(d) : y < disc(i)}) = 0
      <3>1. {y \in Discs(d) : y < disc(i)} = {}
        BY <2>2
      <3> QED
        BY <3>1, FS_EmptySet
    <2>4. allowedDiscs \in Nat /\ allowedDiscs > 0
      <3>1. song.canonicalDiscs \in Nat /\ song.discs \in Nat
        BY ChoiceAssumption DEF TypeInput, Song
      <3> QED
        BY <3>1 DEF allowedDiscs
    <2>5. disc(i) \in Lowest(Discs(d), allowedDiscs)
      BY <2>1, <2>3, <2>4 DEF Lowest
    <2> QED
      BY <2>1, <2>5 DEF WantedDiscs
  <1>3. disc(i) \in WantedDiscs(d) \cup {0}
    BY <1>2
  <1> QED
    BY <1>1, <1>3 DEF trimExtraDiscs

\* On one disc no more files precede one than its number allows, if no two have
\* the same number.
LEMMA FewPrecede ==
    ASSUME TypeInput, NEW d \in Dirs, NEW i \in Numbered(d), NEW rest \in SUBSET Files(d),
           \A j \in rest \cap Numbered(d), k \in rest \cap Numbered(d) :
               file(d, j).no = file(d, k).no => j = k,
           i \in rest
    PROVE  /\ Cardinality({j \in rest : Precedes(d, j, i)}) \in Nat
           /\ Cardinality({j \in rest : Precedes(d, j, i)}) < file(d, i).no
  <1> DEFINE P == {j \in rest : Precedes(d, j, i)}
             no(j) == file(d, j).no
  <1>1. no(i) \in Nat \ {0} /\ i \in Nat /\ Readable(file(d, i))
    BY NumberedFacts
  <1>2. ASSUME NEW j \in P PROVE j \in Numbered(d) /\ no(j) \in 1..(no(i) - 1)
    <2>1. Readable(file(d, j)) /\ j \in rest /\ Precedes(d, j, i)
      BY <1>1 DEF Precedes
    <2>2. j \in Numbered(d)
      BY <2>1 DEF Numbered
    <2>3. no(j) \in Nat \ {0} /\ j \in Nat
      BY <2>2, NumberedFacts
    <2>4. no(j) # no(i)
      <3> SUFFICES ASSUME no(j) = no(i) PROVE FALSE
        OBVIOUS
      <3>1. j = i
        BY <2>1, <2>2
      <3> QED
        BY <1>1, <2>1, <3>1 DEF Precedes
    <2>5. no(j) < no(i)
      BY <1>1, <2>1, <2>4 DEF Precedes
    <2> HIDE DEF no
    <2> QED
      BY <1>1, <2>2, <2>3, <2>5
  <1> DEFINE g == [j \in P |-> no(j)]
             n == no(i)
  <1>3. g \in Injection(P, 1..(n - 1))
    <2>1. \A j, k \in P : no(j) = no(k) => j = k
      BY <1>2
    <2>2. \A j \in P : no(j) \in 1..(n - 1)
      BY <1>2
    <2> HIDE DEF no, n, P
    <2> QED
      BY <2>1, <2>2 DEF Injection, IsInjective
  <1>4. n \in Nat /\ n >= 1
    BY <1>1
  <1> HIDE DEF g, n, P
  <1>5. IsFiniteSet(1..(n - 1)) /\ Cardinality(1..(n - 1)) = n - 1
    BY <1>4, FS_Interval
  <1>6. IsFiniteSet(P) /\ Cardinality(P) <= n - 1
    BY <1>3, <1>5, FS_Injection
  <1>7. Cardinality(P) \in Nat
    BY <1>6, FS_CardinalityType
  <1> QED
    BY <1>4, <1>6, <1>7 DEF P, n

\* The trim takes nothing of the first disc up to the album's length, if the
\* files name their discs or none does.
LEMMA WholeAlbum ==
    ASSUME TypeInput, NEW d \in Dirs, Candidate(d), NEW i \in Numbered(d),
           \A j, k \in Numbered(d) : DiscOf(file(d, j)) = 0 => DiscOf(file(d, k)) = 0,
           withinQualityRange(file(d, i)),
           \A j \in Numbered(d) : DiscOf(file(d, i)) <= DiscOf(file(d, j)),
           expectedAlbumLength = 0 \/ file(d, i).no <= expectedAlbumLength
    PROVE  i \in qualityFiltered(d)
  <1> DEFINE rest == trimExtraDiscs(d)
             disc(j) == DiscOf(file(d, j))
             no(j) == file(d, j).no
  <1>1. i \in rest /\ rest \in SUBSET Files(d) /\ i \in Files(d)
    BY FirstDiscWanted, NumberedFacts DEF trimExtraDiscs
  <1>2. ASSUME ~ duplicatePosition(d)
        PROVE  i \in trimBonusTracks(d, rest)
    <2>1. CASE expectedAlbumLength = 0 \/ Cardinality(WantedDiscs(d)) > 1
      BY <1>1, <2>1 DEF trimBonusTracks
    <2>2. CASE expectedAlbumLength # 0 /\ ~ (Cardinality(WantedDiscs(d)) > 1)
      <3>1. \A x, y \in WantedDiscs(d) : x = y
        <4> SUFFICES ASSUME NEW x \in WantedDiscs(d), NEW y \in WantedDiscs(d), x # y PROVE FALSE
          OBVIOUS
        <4>1. IsFiniteSet({x}) /\ Cardinality({x}) = 1
          BY FS_Singleton
        <4>2. IsFiniteSet({x} \cup {y}) /\ Cardinality({x} \cup {y}) = 2
          BY <4>1, FS_AddElement
        <4>3. Cardinality({x} \cup {y}) <= Cardinality(WantedDiscs(d))
          BY DiscsFinite, FS_Subset
        <4>4. Cardinality(WantedDiscs(d)) \in Nat
          BY DiscsFinite, FS_CardinalityType
        <4> QED
          BY <2>2, <4>2, <4>3, <4>4
      <3>2. \A j, k \in rest \cap Numbered(d) : disc(j) = disc(k)
        <4> SUFFICES ASSUME NEW j \in rest \cap Numbered(d), NEW k \in rest \cap Numbered(d)
                     PROVE  disc(j) = disc(k)
          OBVIOUS
        <4>1. disc(j) \in WantedDiscs(d) \cup {0} /\ disc(k) \in WantedDiscs(d) \cup {0}
          BY NumberedFacts DEF trimExtraDiscs
        <4>2. disc(j) = 0 <=> disc(k) = 0
          OBVIOUS
        <4> HIDE DEF disc, rest
        <4> QED
          BY <3>1, <4>1, <4>2
      <3>3. \A j \in rest \cap Numbered(d), k \in rest \cap Numbered(d) : no(j) = no(k) => j = k
        BY <1>2, <3>2 DEF duplicatePosition
      <3> HIDE DEF rest, disc
      <3>4. /\ Cardinality({j \in rest : Precedes(d, j, i)}) \in Nat
            /\ Cardinality({j \in rest : Precedes(d, j, i)}) < no(i)
        BY <1>1, <3>3, FewPrecede
      <3>5. no(i) \in Nat /\ expectedAlbumLength \in Nat /\ no(i) <= expectedAlbumLength
        <4>1. expectedAlbumLength \in Nat
          BY ChoiceAssumption DEF TypeInput, Song, expectedAlbumLength
        <4> QED
          BY <2>2, <4>1, NumberedFacts
      <3>6. Cardinality({j \in rest : Precedes(d, j, i)}) < expectedAlbumLength
        <4> HIDE DEF no
        <4> QED
          BY <3>4, <3>5
      <3> QED
        BY <1>1, <2>2, <3>6 DEF trimBonusTracks
    <2> QED
      BY <2>1, <2>2
  <1>3. i \in trimToOriginal(d)
    BY <1>1, <1>2 DEF trimToOriginal
  <1>4. ~ OverCeiling(file(d, i))
    BY DEF withinQualityRange
  <1> QED
    BY <1>1, <1>3, <1>4 DEF qualityFiltered

\* AlbumComesWhole: of a directory that names the disc of all its files or of
\* none, the files of the lowest disc up to the album's length are queued with
\* the song, those of too low a quality excepted: the trim cuts only what is
\* not of the album.
THEOREM AlbumIsWhole == Spec => []AlbumComesWhole
  <1>1. Inv => AlbumComesWhole
    <2> DEFINE d == primary[1]
               disc(i) == DiscOf(file(d, i))
    <2> SUFFICES ASSUME Inv, InAlbumMode,
                        \A i, j \in Numbered(d) : disc(i) = 0 => disc(j) = 0,
                        NEW i \in Numbered(d), withinQualityRange(file(d, i)),
                        \A j \in Numbered(d) : disc(i) <= disc(j),
                        expectedAlbumLength = 0 \/ file(d, i).no <= expectedAlbumLength
                 PROVE  i \in Release
      BY DEF AlbumComesWhole
    <2>1. Release = kept[Chosen] /\ Chosen # 0 /\ d = Chosen
      BY ReleaseIsKept DEF Inv, AlbumQueued
    <2>2. d \in Dirs /\ kept[d] = Kept(d) /\ kept[d] # {}
      BY <2>1, ChosenLeft DEF Inv, Loop
    <2>3. Candidate(d) /\ Kept(d) = qualityFiltered(d)
      BY <2>2 DEF Kept
    <2> HIDE DEF d
    <2>4. i \in qualityFiltered(d)
      BY <2>2, <2>3, WholeAlbum DEF Inv
    <2> QED
      BY <2>1, <2>2, <2>3, <2>4
  <1> QED
    BY <1>1, InvAlways, PTL

-----------------------------------------------------------------------------
(* Type correctness *)

\* A place among the answers is a directory and a number in it.
LEMMA FilterType == TypeInput => filterFiles \subseteq Dirs \X Nat
  <1> SUFFICES ASSUME TypeInput, NEW o \in filterFiles PROVE o \in Dirs \X Nat
    OBVIOUS
  <1>1. o = <<o[1], o[2]>> /\ o[2] \in Nat
    BY FoundType
  <1>2. o[1] \in Dirs
    <2>1. o \in CollectFiles
      BY DEF filterFiles
    <2>2. PICK d \in Dirs, i \in UNION {DOMAIN results[d].files : d \in Dirs} : o = <<d, i>>
      BY <2>1 DEF CollectFiles
    <2> QED
      BY <2>2
  <1> QED
    BY <1>1, <1>2

LEMMA TypeInit == Init => TypeOK
  <1> SUFFICES ASSUME Init PROVE TypeOK
    OBVIOUS
  <1>1. Retry \in Nat
    BY ChoiceAssumption
  <1>2. results \in Answers /\ Len(results) \in Nat
    BY DirsType DEF Init
  <1>3. /\ kept \in Seq(SUBSET Nat) /\ scores \in Seq(Int)
        /\ Len(kept) = 0 /\ Len(scores) = 0
    BY DEF Init
  <1>4. polls \in 0..Retry /\ primary \in (Dirs \cup {0}) \X Nat
    BY <1>1 DEF Init, NoFile
  <1>5. /\ cfg \in Settings /\ song \in Songs
        /\ pc = "search" /\ wildcard \in BOOLEAN
        /\ shortlist = {} /\ tried = {} /\ siblings = {}
    BY DEF Init
  <1>6. best \in 0..Len(kept) /\ bestFull \in 0..Len(kept)
    BY <1>3 DEF Init
  <1>7. Len(kept) <= Len(results) /\ Len(scores) = Len(kept)
    BY <1>2, <1>3
  <1> QED
    BY <1>2, <1>3, <1>4, <1>5, <1>6, <1>7 DEF TypeOK

LEMMA TypeNext == Inv /\ TypeOK /\ [Next]_vars => TypeOK'
  <1> SUFFICES ASSUME Inv, TypeOK, [Next]_vars
               PROVE  TypeOK'
    OBVIOUS
  <1> USE DEF Goto
  <1>0. 0 \in 0..Retry
    BY ChoiceAssumption
  <1>1. CASE search
    BY <1>0, <1>1 DEF search, TypeOK, input, loop, single, track, Dirs
  <1>2. CASE SearchPending
    BY <1>2, ChoiceAssumption DEF SearchPending, TypeOK, input, loop, single, track, Dirs
  <1>3. CASE SearchEmpty
    BY <1>3 DEF SearchEmpty, TypeOK, input, loop, single, track, Dirs
  <1>4. CASE SearchCompleted
    BY <1>0, <1>4 DEF SearchCompleted, TypeOK, input, loop, single, track, Dirs
  <1>5. CASE SearchFails
    BY <1>5 DEF SearchFails, TypeOK, input, searching, loop, single, track, Dirs
  <1>6. CASE Consider
    <2> DEFINE d == Len(kept) + 1
               score == Score(d, Kept(d))
    <2>1. /\ kept' = Append(kept, Kept(d)) /\ scores' = Append(scores, score)
          /\ Len(kept) < Len(results)
          /\ best' \in {d, best} /\ bestFull' \in {d, bestFull}
          /\ UNCHANGED <<input, pc, searching, single, track>>
      BY <1>6 DEF Consider, Kept
    <2>2. Len(kept) \in Nat /\ Len(results) \in Nat /\ d \in Dirs
      BY <2>1, DirsType DEF TypeOK
    <2>3. Kept(d) \in SUBSET Nat /\ score \in Int
      BY <2>2, KeptType, ScoreBounds DEF Inv
    <2> HIDE DEF score
    <2>4. /\ kept' \in Seq(SUBSET Nat) /\ Len(kept') = d
          /\ scores' \in Seq(Int) /\ Len(scores') = d
      BY <2>1, <2>2, <2>3 DEF TypeOK
    <2>5. d <= Len(results) /\ best' \in 0..d /\ bestFull' \in 0..d
      BY <2>1, <2>2 DEF TypeOK
    <2> HIDE DEF d
    <2> QED
      BY <2>1, <2>4, <2>5 DEF TypeOK, input, searching, single, track, Dirs
  <1>7. CASE NothingFound
    BY <1>7 DEF NothingFound, TypeOK, input, searching, loop, single, track, Dirs
  <1>8. CASE queueAlbumDownload
    <2> DEFINE head == IF findPrimary(Chosen) \in kept[Chosen] THEN findPrimary(Chosen)
                       ELSE First(kept[Chosen])
    <2>1. /\ UNCHANGED <<input, searching, loop, single>> /\ pc' = "queued" /\ Chosen # 0
          /\ primary' = <<Chosen, head>> /\ siblings' = kept[Chosen] \ {head}
      BY <1>8 DEF queueAlbumDownload
    <2>2. Chosen \in Dirs /\ kept[Chosen] \in SUBSET Nat /\ head \in kept[Chosen]
      BY <2>1, ChosenLeft
    <2> HIDE DEF head
    <2>3. primary' \in (Dirs \cup {0}) \X Nat /\ siblings' \subseteq Nat
      BY <2>1, <2>2
    <2> QED
      BY <2>1, <2>3 DEF TypeOK, input, searching, loop, single, Dirs
  <1>9. CASE QueueFails
    BY <1>9 DEF QueueFails, TypeOK, input, searching, loop, single, track, Dirs
  <1>10. CASE getSingle
    <2>1. shortlist' \subseteq Dirs \X Nat /\ tried' = {}
      BY <1>10, FilterType DEF getSingle, FirstAttempts, Inv, Modes
    <2>2. /\ pc' \in {"failed", "attempt"} /\ UNCHANGED <<input, searching, loop, track>>
      BY <1>10 DEF getSingle
    <2> QED
      BY <2>1, <2>2 DEF TypeOK, input, searching, loop, track, Dirs
  <1>11. CASE OutOfAttempts
    BY <1>11 DEF OutOfAttempts, TypeOK, input, searching, loop, single, track, Dirs
  <1>12. ASSUME NEW o \in shortlist, Accepted(o)
         PROVE  TypeOK'
    BY <1>12 DEF Accepted, TypeOK, input, searching, loop, single, Dirs
  <1>13. ASSUME NEW o \in shortlist, Refused(o)
         PROVE  TypeOK'
    BY <1>13 DEF Refused, NextAttempt, TypeOK, input, searching, loop, track, Dirs
  <1>14. CASE UNCHANGED vars
    BY <1>14 DEF vars, TypeOK, input, searching, loop, single, track, Dirs
  <1> QED
    BY <1>1, <1>2, <1>3, <1>4, <1>5, <1>6, <1>7, <1>8, <1>9, <1>10, <1>11, <1>12, <1>13, <1>14
       DEF Next

\* TypeOK: what the worker knows and has chosen stays of its type; a directory
\* is compared once, and what is tried or queued is among the answers.
THEOREM TypeCorrect == Spec => []TypeOK
  BY TypeInit, TypeNext, InvAlways, PTL DEF Spec
=============================================================================
