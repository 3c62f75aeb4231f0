------------------------------- MODULE Saves -------------------------------
(***************************************************************************)
(* The save() of TypeORM's repositories, as Blogs, TelegramAccounts and    *)
(* Questions use it: it reads the row of an entity that was found before   *)
(* and writes the columns that differ, or inserts the entity if the row    *)
(* has gone.  It is one step there: what others change before its UPDATE   *)
(* may have come before it read the row, or after, so that it is           *)
(* overwritten by what was found, or left.  (A change that another request *)
(* has made as well may also be left out, which comes to an earlier save.) *)
(***************************************************************************)

\* The columns in which an entity differs from the row it was found as.
Differing(row, ent) == {c \in DOMAIN row : ent[c] # row[c]}

Merge(row, ent, cols) == [c \in DOMAIN row |-> IF c \in cols THEN ent[c] ELSE row[c]]

\* What a row that is there may be after the save of an entity with these columns changed.
Saved(row, ent, changed) ==
    {Merge(row, ent, cols) : cols \in {cols \in SUBSET DOMAIN row : changed \subseteq cols}}

=============================================================================
