--------------------------- MODULE ReleaseChoice ---------------------------
(* What slskd's worker takes for one track: the search with its retries, then *)
(* either a whole release (CollectAlbumFiles: group the answers by directory, *)
(* trim each to the original album, drop files of the wrong quality, score,   *)
(* and keep the best) or a single file (CollectFiles, filterFiles), and the   *)
(* requests that queue it.                                                    *)
(*                                                                            *)
(* A directory of one peer holds numbered files; the parts of a release are   *)
(* sets of those numbers.  What names, paths and lengths are compared for is  *)
(* a field of the file or of the directory.                                   *)
EXTENDS Integers, Sequences, FiniteSets

CONSTANTS Answers,  \* what a search may find: sequences of directories
          Songs,    \* what MusicBrainz knows of the track's album
          Settings, \* the filters and preferences configured
          Retry     \* bound of searchStatus

LosslessExtensions == {"flac", "wav", "aiff", "aif", "alac", "ape", "wv"}
Lossy == {"mp3", "ogg"}

\* "rate" is the bitrate a peer reports and "derived" the one its size and
\* length give, 0 if it tells neither.
File == [ext : LosslessExtensions \cup Lossy,
         style : {"packed", "dashed", "leading", "underscore", "other"},
         disc : Nat, no : Nat \ {0},
         title : BOOLEAN,                  \* its name has the track's title
         length : {"same", "other", "unknown"},
         rate : Nat, derived : Nat, shallow : BOOLEAN]

Directory == [free : BOOLEAN, album : BOOLEAN, artist : BOOLEAN,
              keyword : BOOLEAN, later : BOOLEAN, files : Seq(File)]

Song == [canonicalTracks : Nat, canonicalDiscs : Nat, tracks : Nat, discs : Nat]

Setting == [albumMode : BOOLEAN, extensions : Seq(LosslessExtensions \cup Lossy),
            size : {"none", "smaller", "larger"}, release : {"fuller", "smaller"},
            original : BOOLEAN, floor : Nat, ceiling : Nat, attempts : Nat]

ASSUME ChoiceAssumption ==
    /\ Answers \subseteq Seq(Directory) /\ Songs \subseteq Song
    /\ Settings \subseteq Setting /\ Retry \in Nat

VARIABLES cfg, song, results, \* fixed while the track is handled
          pc,
          wildcard, polls, \* locals of the search, gone when it returns
          kept,     \* the files of each directory CollectAlbumFiles has seen
          scores,   \* their scores
          best, bestFull,
          shortlist, \* the files filterFiles has left for queueDownload
          tried,    \* those it was refused
          primary,  \* track.File, as a directory and a file in it
          siblings  \* track.AlbumFiles

input == <<cfg, song, results>>
searching == <<wildcard, polls>>
loop == <<kept, scores, best, bestFull>>
track == <<primary, siblings>>
single == <<shortlist, tried>>
vars == <<input, pc, searching, loop, single, track>>

NoFile == <<0, 0>>

Init == /\ cfg \in Settings /\ song \in Songs /\ results \in Answers
        /\ pc = "search" /\ wildcard = FALSE /\ polls = 0
        /\ kept = <<>> /\ scores = <<>> /\ best = 0 /\ bestFull = 0
        /\ shortlist = {} /\ tried = {}
        /\ primary = NoFile /\ siblings = {}

Dirs == DOMAIN results
file(d, i) == results[d].files[i]
First(S) == CHOOSE i \in S : \A j \in S : i <= j

-----------------------------------------------------------------------------
(* Quality *)

isLossless(f) == f.ext \in LosslessExtensions
effectiveBitRate(f) == IF f.rate > 0 THEN f.rate ELSE f.derived
Allowed(f) == \E k \in DOMAIN cfg.extensions : cfg.extensions[k] = f.ext
OverCeiling(f) == cfg.ceiling > 0 /\ effectiveBitRate(f) > cfg.ceiling

\* A file of unknown bitrate passes.
withinQualityRange(f) ==
    /\ ~ f.shallow
    /\ effectiveBitRate(f) # 0 => effectiveBitRate(f) >= cfg.floor
    /\ ~ OverCeiling(f)

bandRank(f) == IF isLossless(f) = (cfg.size = "larger") THEN 0 ELSE 1
extensionRank(f) == First({k \in DOMAIN cfg.extensions : cfg.extensions[k] = f.ext})

\* Broken variant: the smaller file is the better one.
compareFiles_Smallest(a, b) ==
    IF cfg.size = "none" THEN extensionRank(a) < extensionRank(b)
    ELSE \/ bandRank(a) < bandRank(b)
         \/ bandRank(a) = bandRank(b) /\ effectiveBitRate(a) < effectiveBitRate(b)

\* a is to be tried before b, whichever came first.
compareFiles(a, b) ==
    IF cfg.size = "none" THEN extensionRank(a) < extensionRank(b)
    ELSE \/ bandRank(a) < bandRank(b)
         \/ bandRank(a) = bandRank(b) /\ effectiveBitRate(a) > effectiveBitRate(b)

-----------------------------------------------------------------------------
(* One directory as a release: groupByDirectory, findPrimary, trimToOriginal *)

Files(d) == {i \in DOMAIN results[d].files : results[d].free /\ Allowed(file(d, i))}

Primaries(d) == {i \in Files(d) : file(d, i).title /\ file(d, i).length # "other"}
findPrimary(d) == First(Primaries(d))

\* parseNumbering: only two of the styles name the disc.
Readable(f) == f.style # "other"
Numbered(d) == {i \in Files(d) : Readable(file(d, i))}
DiscOf(f) == IF f.style \in {"packed", "dashed"} THEN f.disc ELSE 0

duplicatePosition(d) ==
    \E i, j \in Numbered(d) : /\ i # j /\ file(d, i).no = file(d, j).no
                              /\ DiscOf(file(d, i)) = DiscOf(file(d, j))

allowedDiscs == IF song.canonicalDiscs > 0 THEN song.canonicalDiscs
                ELSE IF song.discs > 1 THEN song.discs ELSE 1
expectedAlbumLength == IF song.canonicalTracks > 0 THEN song.canonicalTracks ELSE song.tracks

Lowest(S, n) == {x \in S : Cardinality({y \in S : y < x}) < n}

\* trimExtraDiscs: the lowest discs are the album.
Discs(d) == {DiscOf(file(d, i)) : i \in Numbered(d)} \ {0}
WantedDiscs(d) == IF Cardinality(Discs(d)) <= 1 THEN Discs(d) ELSE Lowest(Discs(d), allowedDiscs)
trimExtraDiscs(d) ==
    LET wanted == WantedDiscs(d) \cup {0}
    IN {i \in Files(d) : Readable(file(d, i)) => DiscOf(file(d, i)) \in wanted}

\* trimBonusTracks: so are the lowest numbers, and the unnumbered go first.
Precedes(d, i, j) ==
    LET f == file(d, i)
        g == file(d, j)
    IN IF Readable(f) # Readable(g) THEN Readable(f)
       ELSE IF Readable(f) /\ f.no # g.no THEN f.no < g.no
       ELSE i < j

\* Broken variant: discs are not told apart, so that a second one is cut off.
trimBonusTracks_AnyDiscs(d, rest) ==
    IF expectedAlbumLength = 0 THEN rest
    ELSE {i \in rest : Cardinality({j \in Files(d) : Precedes(d, j, i)}) < expectedAlbumLength}

trimBonusTracks(d, rest) ==
    IF expectedAlbumLength = 0 \/ Cardinality(WantedDiscs(d)) > 1 THEN rest
    ELSE {i \in rest : Cardinality({j \in rest : Precedes(d, j, i)}) < expectedAlbumLength}

\* The numbers must be readable and not repeat themselves; the primary stays.
trimToOriginal(d) ==
    IF \/ Cardinality(Files(d)) < 2 \/ duplicatePosition(d)
       \/ 3 * Cardinality(Numbered(d)) < 2 * Cardinality(Files(d))
    THEN Files(d)
    ELSE trimBonusTracks(d, trimExtraDiscs(d)) \cup {findPrimary(d)}

\* Broken variant: the floors do not spare the primary.
qualityFiltered_All(d) ==
    LET trimmed == IF cfg.original THEN trimToOriginal(d) ELSE Files(d)
    IN {i \in trimmed : withinQualityRange(file(d, i))}

\* The floors spare the primary, the ceiling does not.
qualityFiltered(d) ==
    LET trimmed == IF cfg.original THEN trimToOriginal(d) ELSE Files(d)
    IN {i \in trimmed : /\ ~ OverCeiling(file(d, i))
                        /\ i = findPrimary(d) \/ withinQualityRange(file(d, i))}

\* A directory whose name has a keyword, or without the track, is none.
Candidate(d) == ~ results[d].keyword /\ Primaries(d) # {}

-----------------------------------------------------------------------------
(* Its score: scoreDirWithPreference *)

Least(x, y) == IF x < y THEN x ELSE y
Distance(x, y) == IF x < y THEN y - x ELSE x - y
If(condition, points) == IF condition THEN points ELSE 0

maxReleaseSizeScore == 40
preferenceScore == 20
originalYearPenalty == 8

\* The album's length, 0 if it cannot be told: one medium's tracks are counted.
expectedTrackCount ==
    IF (IF song.canonicalDiscs > 0 THEN song.canonicalDiscs ELSE song.discs) > 1 THEN 0
    ELSE expectedAlbumLength

oversizedDir(files) == expectedTrackCount > 0 /\ Cardinality(files) > 2 * expectedTrackCount

releaseSizeScore(files) ==
    LET size == Cardinality(files)
        miss == 4 * Distance(size, expectedTrackCount)
    IN IF cfg.release = "fuller" \/ expectedTrackCount = 0 THEN Least(size, maxReleaseSizeScore)
       ELSE If(miss < maxReleaseSizeScore, maxReleaseSizeScore - miss)

\* Some bitrate is known, and the release is of the preferred band.
scorePreference(d, files) ==
    LET lossless == \E i \in files : isLossless(file(d, i))
        known == \E i \in files : effectiveBitRate(file(d, i)) > 0
    IN If(cfg.size # "none" /\ known /\ lossless = (cfg.size = "larger"), preferenceScore)

\* Broken variant: whether the directory names the album does not count.
scoreDir_ArtistOnly(d) == If(results[d].artist, 50)

scoreDir(d) == If(results[d].album, 100) + If(results[d].artist, 50)

Score(d, files) ==
    scoreDir(d) + scorePreference(d, files) + releaseSizeScore(files)
    - If(cfg.original /\ results[d].later, originalYearPenalty)

\* Neither a stray file nor a dump.
RightSized(files) == Cardinality(files) > 1 /\ ~ oversizedDir(files)

-----------------------------------------------------------------------------
(* The search *)

Goto(p) == pc' = p

search == /\ pc = "search"
          /\ Goto("poll") /\ polls' = 0
          /\ UNCHANGED <<input, wildcard, loop, single, track>>

\* searchStatus: not complete yet, or no longer waited for.
SearchPending ==
    /\ pc = "poll"
    /\ IF polls < Retry THEN polls' = polls + 1 /\ UNCHANGED pc ELSE Goto("failed") /\ UNCHANGED polls
    /\ UNCHANGED <<input, wildcard, loop, single, track>>

\* No results: once more, with the artist's name as a wildcard.
SearchEmpty ==
    /\ pc = "poll"
    /\ Goto(IF wildcard THEN "failed" ELSE "search")
    /\ wildcard' = TRUE
    /\ UNCHANGED <<input, polls, loop, single, track>>

SearchCompleted ==
    /\ pc = "poll"
    /\ Goto(IF cfg.albumMode THEN "consider" ELSE "collect")
    /\ wildcard' = FALSE /\ polls' = 0
    /\ UNCHANGED <<input, loop, single, track>>

\* A request of the search, or for its results, fails.
SearchFails ==
    /\ pc \in {"search", "poll"}
    /\ Goto("failed")
    /\ UNCHANGED <<input, searching, loop, single, track>>

-----------------------------------------------------------------------------
(* CollectAlbumFiles *)

Better(score, than) == than = 0 \/ score > scores[than]

\* Broken variant: the pass over all sizes is the only one.
Consider_AnySize ==
    /\ pc = "consider" /\ Len(kept) < Len(results)
    /\ LET d == Len(kept) + 1
           files == IF Candidate(d) THEN qualityFiltered(d) ELSE {}
           score == Score(d, files)
       IN /\ kept' = Append(kept, files) /\ scores' = Append(scores, score)
          /\ best' = IF files # {} /\ Better(score, best) THEN d ELSE best
    /\ UNCHANGED <<input, pc, searching, bestFull, single, track>>

Consider ==
    /\ pc = "consider" /\ Len(kept) < Len(results)
    /\ LET d == Len(kept) + 1
           files == IF Candidate(d) THEN qualityFiltered(d) ELSE {}
           score == Score(d, files)
       IN /\ kept' = Append(kept, files) /\ scores' = Append(scores, score)
          /\ best' = IF files # {} /\ Better(score, best) THEN d ELSE best
          /\ bestFull' = IF RightSized(files) /\ Better(score, bestFull) THEN d ELSE bestFull
    /\ UNCHANGED <<input, pc, searching, single, track>>

Chosen == IF bestFull # 0 THEN bestFull ELSE best

NothingFound ==
    /\ pc = "consider" /\ Len(kept) = Len(results) /\ Chosen = 0
    /\ Goto("failed")
    /\ UNCHANGED <<input, searching, loop, single, track>>

\* queueAlbumDownload: the primary, if it is still there, is the first of the
\* files, and the first is what the playlist gets.
queueAlbumDownload ==
    /\ pc = "consider" /\ Len(kept) = Len(results) /\ Chosen # 0
    /\ LET files == kept[Chosen]
           head == IF findPrimary(Chosen) \in files THEN findPrimary(Chosen) ELSE First(files)
       IN primary' = <<Chosen, head>> /\ siblings' = files \ {head}
    /\ Goto("queued")
    /\ UNCHANGED <<input, searching, loop, single>>

QueueFails ==
    /\ pc = "consider" /\ Len(kept) = Len(results) /\ Chosen # 0
    /\ Goto("failed")
    /\ UNCHANGED <<input, searching, loop, single, track>>

-----------------------------------------------------------------------------
(* CollectFiles, filterFiles and queueDownload *)

\* A length that is not told is none, here.
CollectFiles ==
    {o \in {<<d, i>> : d \in Dirs, i \in UNION {DOMAIN results[d].files : d \in Dirs}} :
        /\ o[2] \in Files(o[1])
        /\ ~ results[o[1]].keyword
        /\ results[o[1]].artist \/ results[o[1]].album
        /\ file(o[1], o[2]).title /\ file(o[1], o[2]).length = "same"}

Found(o) == file(o[1], o[2])
filterFiles == {o \in CollectFiles : withinQualityRange(Found(o))}

\* The sort is stable.
Earlier(o, p) == o[1] < p[1] \/ (o[1] = p[1] /\ o[2] < p[2])
Ahead(o, p) == \/ compareFiles(Found(o), Found(p))
               \/ ~ compareFiles(Found(p), Found(o)) /\ Earlier(o, p)

FirstAttempts == {o \in filterFiles : Cardinality({p \in filterFiles : Ahead(p, o)}) < cfg.attempts}

getSingle == /\ pc = "collect"
             /\ shortlist' = FirstAttempts
             /\ Goto(IF shortlist' = {} THEN "failed" ELSE "attempt")
             /\ UNCHANGED <<input, searching, loop, tried, track>>

NextAttempt(o) == /\ pc = "attempt" /\ o \in shortlist \ tried
                  /\ \A p \in shortlist \ tried : p = o \/ Ahead(o, p)

Accepted(o) == /\ NextAttempt(o)
               /\ primary' = o
               /\ Goto("queued")
               /\ UNCHANGED <<input, searching, loop, single, siblings>>

Refused(o) == /\ NextAttempt(o)
              /\ tried' = tried \cup {o}
              /\ UNCHANGED <<input, pc, searching, loop, shortlist, track>>

OutOfAttempts == /\ pc = "attempt" /\ shortlist \subseteq tried
                 /\ Goto("failed")
                 /\ UNCHANGED <<input, searching, loop, single, track>>

Next == \/ search \/ SearchPending \/ SearchEmpty \/ SearchCompleted \/ SearchFails
        \/ Consider \/ NothingFound \/ queueAlbumDownload \/ QueueFails
        \/ getSingle \/ OutOfAttempts \/ \E o \in shortlist : Accepted(o) \/ Refused(o)

Spec == Init /\ [][Next]_vars

-----------------------------------------------------------------------------
(* Properties *)

Queued == pc = "queued"
InAlbumMode == Queued /\ cfg.albumMode
Release == siblings \cup {primary[2]}

\* What the worker knows and has chosen.
TypeOK ==
    /\ cfg \in Settings /\ song \in Songs /\ results \in Answers
    /\ pc \in {"search", "poll", "consider", "collect", "attempt", "queued", "failed"}
    /\ wildcard \in BOOLEAN /\ polls \in 0..Retry
    /\ kept \in Seq(SUBSET Nat) /\ Len(kept) <= Len(results)
    /\ scores \in Seq(Int) /\ Len(scores) = Len(kept)
    /\ best \in 0..Len(kept) /\ bestFull \in 0..Len(kept)
    /\ shortlist \subseteq Dirs \X Nat /\ tried \subseteq shortlist
    /\ primary \in (Dirs \cup {0}) \X Nat
    /\ siblings \subseteq Nat

\* "Primary first: queueAlbumDownload and the monitor both rely on it": what the
\* playlist gets is the recommended track.
SongIsQueued == Queued => Found(primary).title

\* "A right-sized release outranks them regardless of score": a lone file, or
\* far more files than the album has, are taken only from want of a release.
RightSizeWins ==
    InAlbumMode /\ (\E d \in Dirs : RightSized(kept[d]))
        => /\ Cardinality(Release) > 1
           /\ expectedTrackCount > 0 => Cardinality(Release) <= 2 * expectedTrackCount

\* Whatever size and quality add up to, a right-sized release that names both the
\* album and the artist loses to none of another album.
FullNameWins ==
    InAlbumMode /\ (\E d \in Dirs : RightSized(kept[d]) /\ results[d].album /\ results[d].artist)
        => results[primary[1]].album

\* The trim takes away extra discs and bonus tracks and nothing of the album: in
\* a directory that names the disc of all its files or of none, the files of the
\* lowest disc up to the album's length come with it.
AlbumComesWhole ==
    InAlbumMode =>
        LET d == primary[1]
            disc(i) == DiscOf(file(d, i))
        IN (\A i, j \in Numbered(d) : disc(i) = 0 => disc(j) = 0) =>
            \A i \in Numbered(d) :
                /\ withinQualityRange(file(d, i))
                /\ \A j \in Numbered(d) : disc(i) <= disc(j)
                /\ expectedAlbumLength = 0 \/ file(d, i).no <= expectedAlbumLength
                => i \in Release

\* SIZE_PREFERENCE: "takes the best lossy file available and only falls back to
\* lossless when there is no lossy candidate at all", or the reverse, or the
\* order of EXTENSIONS, of the files no peer has refused.
PreferredFirst ==
    Queued /\ ~ cfg.albumMode =>
        \A o \in filterFiles \ tried :
            LET f == Found(o)
                g == Found(primary)
            IN IF cfg.size = "none" THEN extensionRank(g) <= extensionRank(f)
               ELSE /\ cfg.size = "smaller" /\ isLossless(g) => isLossless(f)
                    /\ cfg.size = "larger" /\ isLossless(f) => isLossless(g)
                    /\ isLossless(f) = isLossless(g) => effectiveBitRate(f) <= effectiveBitRate(g)
=============================================================================
