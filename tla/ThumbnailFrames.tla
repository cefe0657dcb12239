-------------------------- MODULE ThumbnailFrames ---------------------------
(***************************************************************************)
(* Which textures a frame asks the thumbnails for, by screen               *)
(* (OfficialMenuFrameworkAdapter).  A slot is the texture of the tattoo in *)
(* it as it is spelled, <<>> for one that has no path, or None if the slot *)
(* is empty or of another mod.  An area and a catalog are their own epoch. *)
(***************************************************************************)
EXTENDS Naturals, Sequences

CONSTANTS
  None,
  PageSize,      \* of slots and of cards
  FallbackEpoch  \* of a preview without a catalog

HasTexture(texture) == texture \notin {None, <<>>}

PageCount(n) == n \div PageSize + (IF n % PageSize # 0 THEN 1 ELSE 0)

\* calculateSlotPage, of slots of which there are some: the page asked for,
\* or the last one.
SlotPage(slots, index) ==
  LET count == PageCount(Len(slots))
      begin == PageSize * IF index < count THEN index ELSE count - 1
  IN  SubSeq(slots, begin + 1,
             IF begin + PageSize < Len(slots) THEN begin + PageSize ELSE Len(slots))

Frame(epoch, textures) == [epoch |-> epoch, paths |-> SelectSeq(textures, HasTexture)]

\* The slots of an area that were not reported yet are None.
SlotsFrame(area, slots, index) ==
  Frame(area, IF slots \in {None, <<>>} THEN <<>> ELSE SlotPage(slots, index))

\* The actions on a slot and the edit of its appearance.
TargetFrame(area, texture) == Frame(area, <<texture>>)

PickerFrame(catalog, textures) ==
  Frame(catalog, SubSeq(textures, 1, IF Len(textures) < PageSize THEN Len(textures)
                                     ELSE PageSize))

PreviewFrame(catalog, texture) ==
  Frame(IF catalog = None THEN FallbackEpoch ELSE catalog, <<texture>>)
=============================================================================
