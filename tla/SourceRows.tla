----------------------------- MODULE SourceRows -----------------------------
(***************************************************************************)
(* The rows of the SQLite table `sources` of one collection, as far as     *)
(* membership and eligibility go (store.rs).  Each operator is one         *)
(* committed transaction.  A row is searchable only while it is eligible.  *)
(* A version is the digest of the content, so it is modelled by the        *)
(* content it is the digest of.                                            *)
(* A table is a function from paths to rows.                               *)
(***************************************************************************)

CONSTANTS Version,    \* digests of the contents that can be indexed
          NoVersion   \* the version of a source that has no row

ASSUME RowsAssumption == NoVersion \notin Version

Row == [version : Version \cup {NoVersion}, eligible : BOOLEAN]

NoRow == [version |-> NoVersion, eligible |-> FALSE]
Present(row) == row.version # NoVersion

(* replace_source: the new version is searchable at once. *)
ReplaceRow(rows, p, v) == [rows EXCEPT ![p] = [version |-> v, eligible |-> TRUE]]

(* mark_source_verified touches an existing ineligible row only. *)
VerifyRow(rows, p) ==
    IF Present(rows[p]) THEN [rows EXCEPT ![p].eligible = TRUE] ELSE rows

RemoveRow(rows, p) == [rows EXCEPT ![p] = NoRow]

InvalidateRow(rows, p) == [rows EXCEPT ![p].eligible = FALSE]

(* invalidate_collection: every row in one transaction. *)
InvalidateRows(rows) == [p \in DOMAIN rows |-> [rows[p] EXCEPT !.eligible = FALSE]]

(* Source listing: the version of each row, whatever its eligibility. *)
Versions(rows) == [p \in DOMAIN rows |-> rows[p].version]

(* The two checks an outcome must pass before it reaches the ledger. *)
ConfirmsPublication(row, v) ==
    IF v = NoVersion THEN ~row.eligible ELSE row.eligible /\ row.version = v
ConfirmsRemoval(row) == ~Present(row)

(* The rows a search can return: path by path, the version it would show. *)
Searchable(rows) ==
    [p \in DOMAIN rows |-> IF rows[p].eligible THEN rows[p].version ELSE NoVersion]
=============================================================================
