-------------------------- MODULE MCReleaseChoice --------------------------
(* Small instances of ReleaseChoice for TLC: the releases of one album of     *)
(* three songs, the second of which is wanted, as peers share them.           *)
EXTENDS ReleaseChoice

CONSTANTS Ceilings, MostDirs

Rip(style, disc, no, ext, rate) ==
    [ext |-> ext, style |-> style, disc |-> disc, no |-> no, title |-> no = 2 /\ disc = 1,
     length |-> "same", rate |-> rate, derived |-> 0, shallow |-> FALSE]

Numbers(n, style, ext, rate) == [i \in 1..n |-> Rip(style, 1, i, ext, rate)]
Discs2(n, ext, rate) == [i \in 1..2 * n |-> IF i <= n THEN Rip("dashed", 1, i, ext, rate)
                                                     ELSE Rip("dashed", 2, i - n, ext, rate)]
Named(artist, album, files) ==
    [free |-> TRUE, album |-> album, artist |-> artist, keyword |-> FALSE, later |-> FALSE, files |-> files]

Shelf ==
    LET plain == Named(TRUE, TRUE, Numbers(3, "leading", "mp3", 3))
        flac == Named(FALSE, TRUE, Numbers(3, "underscore", "flac", 9))
        box == Named(TRUE, TRUE, Discs2(3, "flac", 9))
        bonus == Named(TRUE, FALSE, [Discs2(3, "mp3", 3) EXCEPT ![2].title = FALSE, ![6].title = TRUE])
        deluxe == Named(TRUE, FALSE, [Numbers(5, "packed", "mp3", 3) EXCEPT ![2].title = FALSE, ![5].title = TRUE])
        stray == Named(TRUE, TRUE, <<[Rip("other", 1, 2, "flac", 0) EXCEPT !.derived = 9]>>)
        dump == Named(TRUE, FALSE, Numbers(7, "other", "mp3", 2))
        mixed == Named(FALSE, TRUE, [Numbers(3, "leading", "flac", 9) EXCEPT ![1].rate = 1, ![3] = Rip("leading", 1, 3, "mp3", 1)])
        reissue == [plain EXCEPT !.later = TRUE, !.files[2].shallow = TRUE, !.files[2].length = "unknown",
                                  !.files = Append(@, Rip("leading", 1, 4, "mp3", 0))]
        live == [plain EXCEPT !.keyword = TRUE]
        other == [flac EXCEPT !.files[2].length = "other", !.files[3].ext = "ogg"]
    IN {plain, flac, box, bonus, deluxe, stray, dump, mixed, reissue, live, other}

Shelves == UNION {[1..n -> Shelf] : n \in 0..MostDirs}

\* A deluxe edition was matched, of an album known to be of one disc, of two, or
\* not known; or the album itself was; or nothing.
Known(canonicalTracks, canonicalDiscs, tracks, discs) ==
    [canonicalTracks |-> canonicalTracks, canonicalDiscs |-> canonicalDiscs, tracks |-> tracks, discs |-> discs]
Albums == {Known(3, 1, 5, 2), Known(3, 2, 5, 2), Known(0, 0, 5, 2), Known(0, 0, 3, 1), Known(0, 0, 0, 0)}

Choices ==
    [albumMode : {TRUE}, extensions : {<<"flac", "mp3">>}, size : {"none", "smaller", "larger"},
     release : {"fuller", "smaller"}, original : BOOLEAN, floor : {0, 2}, ceiling : Ceilings, attempts : {1}]
    \cup
    [albumMode : {FALSE}, extensions : {<<"flac", "mp3">>}, size : {"none", "smaller", "larger"},
     release : {"fuller"}, original : {TRUE}, floor : {0, 2}, ceiling : {0, 5}, attempts : {1, 2}]
=============================================================================
