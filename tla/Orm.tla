--------------------------------- MODULE Orm ---------------------------------
(***************************************************************************)
(* What the handlers rely on when an ORM session flushes a changed row.    *)
(*                                                                         *)
(* Every request owns one session (database.py builds the factory with     *)
(* autoflush and expire_on_commit off), so a handler reads a row once,     *)
(* assigns attributes, and commits later.  The UPDATE that the commit      *)
(* emits names only the columns whose new value differs from the value     *)
(* the session LOADED; it is applied to whatever row the database holds    *)
(* by then.  There is no version column and no SELECT ... FOR UPDATE       *)
(* anywhere in the repository, and the engine keeps PostgreSQL's default   *)
(* READ COMMITTED isolation.                                               *)
(***************************************************************************)

\* The columns the flush of `new` writes, for a row the session read as `loaded`.
Dirty(loaded, new) == {c \in DOMAIN new : new[c] # loaded[c]}

\* The row left by a flush that writes every column, as an ORM without change
\* tracking would.
Flush_WholeRow(row, loaded, new) == new

\* The row left by that flush when the database holds `row` at that moment.
Flush(row, loaded, new) ==
    [c \in DOMAIN row |-> IF c \in Dirty(loaded, new) THEN new[c] ELSE row[c]]

\* The row `row` with the columns of the partial record `set` assigned: a
\* handler's setattr loop over a PATCH body.
Assign(row, set) ==
    [c \in DOMAIN row |-> IF c \in DOMAIN set THEN set[c] ELSE row[c]]

\* The table `table` (a function from the ids of its rows to the rows) with row
\* `id` inserted or replaced, and without row `id`.
Put(table, id, row) ==
    [i \in DOMAIN table \cup {id} |-> IF i = id THEN row ELSE table[i]]

Drop(table, id) == [i \in DOMAIN table \ {id} |-> table[i]]
==============================================================================
