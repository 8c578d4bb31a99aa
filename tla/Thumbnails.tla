----------------------------- MODULE Thumbnails -----------------------------
(***************************************************************************)
(* What makeThumbnail of dlna/backend/thumbnail.go asks ffmpeg for, and    *)
(* the progress bar pkg/ffmpeg/thumbnail.go draws.  Times are seconds; a   *)
(* bookmark is a time or NoBookmark, the NULL of the column.               *)
(***************************************************************************)
EXTENDS Integers

CONSTANT CompleteLeeway     \* the last part of a video that counts as its end: 5 s

ASSUME LeewayAssumption == CompleteLeeway \in Nat

NoBookmark == -1

\* DefaultTimeToSeekPercent: duration / 10
TimeToSeek(duration) == duration \div 10

\* Mutant: the end of the video is given no leeway
ProgressAndTimeToSeek_NoLeeway(duration, bookmark) ==
    IF bookmark >= duration
    THEN [progress |-> 100, seek |-> TimeToSeek(duration)]
    ELSE IF bookmark > 0
    THEN [progress |-> IF 100 * bookmark < duration THEN 1 ELSE (100 * bookmark) \div duration,
          seek     |-> bookmark]
    ELSE [progress |-> 0, seek |-> TimeToSeek(duration)]

\* getProgressAndTimeToSeek.  Once the first branch is not taken, bookmark is
\* below duration, so the percentage stays below 100; the clamp to 1 keeps a
\* bar visible that would round to nothing.
ProgressAndTimeToSeek(duration, bookmark) ==
    IF bookmark >= duration - CompleteLeeway
    THEN [progress |-> 100, seek |-> TimeToSeek(duration)]
    ELSE IF bookmark > 0 /\ duration > 0
    THEN [progress |-> IF 100 * bookmark < duration THEN 1 ELSE (100 * bookmark) \div duration,
          seek     |-> bookmark]
    ELSE [progress |-> 0, seek |-> TimeToSeek(duration)]

\* Mutant: 0 is taken for a position
BookmarkShown_ZeroIsStart(duration, bookmark) ==
    IF bookmark = NoBookmark THEN 0
    ELSE IF bookmark > duration THEN duration ELSE bookmark

\* makeThumbnail: 0 stands for watched to the end, as Samsung TVs send it
BookmarkShown(duration, bookmark) ==
    IF bookmark = NoBookmark THEN 0
    ELSE IF bookmark = 0 \/ bookmark > duration THEN duration ELSE bookmark

Thumbnail(duration, bookmark) ==
    ProgressAndTimeToSeek(duration, BookmarkShown(duration, bookmark))

-----------------------------------------------------------------------------
(* The logic of video thumbnails as README.md describes it *)

Watched(duration, bookmark) ==
    bookmark # NoBookmark /\ (bookmark = 0 \/ bookmark >= duration - CompleteLeeway)

\* Does the thumbnail th tell how far the video has been watched?
Tells(th, duration, bookmark) ==
    IF bookmark = NoBookmark
    THEN th.progress = 0 /\ th.seek = TimeToSeek(duration)
    ELSE IF Watched(duration, bookmark)
    THEN th.progress = 100 /\ th.seek = TimeToSeek(duration)
    ELSE /\ th.progress \in 1 .. 99
         /\ th.seek = bookmark
         /\ th.progress > 1 => /\ th.progress * duration <= 100 * bookmark
                               /\ 100 * bookmark < (th.progress + 1) * duration

=============================================================================
