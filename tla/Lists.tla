--------------------------------- MODULE Lists ---------------------------------
(***************************************************************************)
(* Erasing from the lists of the caches and of the frame registry, which   *)
(* are std::list and std::vector.                                          *)
(***************************************************************************)
EXTENDS Naturals, Sequences

\* remove() and erase(): the list without the elements of S.  kept[i] is what is
\* left of the first i elements.
Drop(list, S) ==
    LET kept[i \in 0 .. Len(list)] ==
            IF i = 0 THEN <<>>
            ELSE IF list[i] \in S THEN kept[i - 1] ELSE Append(kept[i - 1], list[i])
    IN  kept[Len(list)]
===============================================================================
