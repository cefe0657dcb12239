---------------------------- MODULE MCThumbnails ----------------------------
(***************************************************************************)
(* Instances of Thumbnails for TLC, with the frames that the screens draw. *)
(***************************************************************************)
EXTENDS Thumbnails

CONSTANTS PageSize, FallbackEpoch

Frames == INSTANCE ThumbnailFrames

MCLower == [c \in {"/", "\\", ":", ".", "p", "P", "q", "r", "s"} |->
              IF c = "P" THEN "p" ELSE c]

\* The textures p to s; p is spelled in three ways, two of them one view, and
\* Outside leads out of the directory.
P1 == <<"p">>
P1Upper == <<"P">>
P1Inside == <<".", "\\", "p">>
P2 == <<"q">>
P3 == <<"r">>
P4 == <<"s">>
Outside == <<"q", "/", ".", ".", "/", "p">>

\* A page of cards with one texture twice, the slots of an area with a path
\* that cannot be used, and the preview of a card.
SharedPath == {Frames!PickerFrame("catalog", <<P1, P1Upper, P2, P3>>),
               Frames!SlotsFrame("slots", <<P1, None, Outside, P2>>, 0),
               Frames!PreviewFrame("catalog", P2)}
\* Enough paths to fill the cache, two of them one texture; the last page of the
\* slots, the actions on one, and a picker before the catalog.
ManyPaths == {Frames!PickerFrame("catalog", <<P1, P2>>),
              Frames!PickerFrame("catalog", <<P3, P4>>),
              Frames!SlotsFrame("slots", <<P1, P2, P1Inside, P4>>, 7),
              Frames!TargetFrame("slots", P1Inside),
              Frames!PickerFrame(None, <<>>)}
=============================================================================
