--------------------------- MODULE PagesInvariant ---------------------------
(* What makes the properties of Pages inductive: where the cursors of the last page      *)
(* point, and what a walk that only went forward has shown of the rows before its cursor. *)
EXTENDS Pages

(* The next page goes forward and the previous one back; a page of a list read with *)
(* Prisma goes back from its own first row.                                          *)
CursorsAreOfThePage ==
  /\ page.next # None => ~page.next.reverse
  /\ page.previous # None => page.previous.reverse
  /\ style # "managed" /\ page.previous # None =>
       page.records # <<>> /\ page.previous.id = Head(page.records)

(* A walk that went only forward is in order. It has shown all that was there all the time *)
(* before the cursor, which is at its own last row, and everything if there is none.        *)
WalkIsWhole ==
  ~strayed =>
    /\ Ascending(walked) /\ whole \subseteq Matching
    /\ IF page.next = None THEN whole \subseteq ToSet(walked)
       ELSE /\ walked # <<>> /\ page.next.id = Last(walked)
            /\ \A i \in whole : At(i) < At(page.next.id) => i \in ToSet(walked)

PagesInv == TypeOK /\ CursorsAreOfThePage /\ WalkIsWhole

=============================================================================
