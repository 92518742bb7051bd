------------------------------ MODULE Listing ------------------------------
(***************************************************************************)
(* The lists of torrents the tracker shows: the index with its columns,    *)
(* orders, filters, pages and the links between them (tracker_index.cpp,   *)
(* sort.cpp), and the feeds (saveRSS of tracker.cpp).  allowed_dir is set. *)
(*                                                                         *)
(* A row is a record of the values of the columns, and of its key and tag; *)
(* texts are numbered in the order the comparison puts them in.  A list is *)
(* a sequence of info hashes.  qsort is the one of glibc, which leaves     *)
(* rows that compare equal in the order of the keys of m_pDFile.  Counts   *)
(* are of type int, which ends at MaxInt; a difference out of its range    *)
(* comes out as the compilers in use wrap it.                              *)
(***************************************************************************)
EXTENDS Integers, Sequences, FiniteSets, FiniteSetsExt, Functions

CONSTANTS
  Hash,        \* info hashes, numbered in the order of the keys
  AnyTag,      \* no filter
  RemoveHTML,  \* RemoveHTML[t]: the tag t with its markup escaped
  MaxInt,      \* INT_MAX
  Shown,       \* the columns that are not switched off
  Sortable,    \* bnbt_sort
  AsProgress,  \* bnbt_show_left_as_progress
  PageRange,   \* bnbt_page_range
  FeedLimit    \* bnbt_rss_limit, 0 for no limit

Column == {"name", "complete", "incomplete", "added", "size", "files",
           "comments", "avgLeft", "completed", "transferred"}

\* The columns of type int; avgLeft is a percentage.
Counted == {"complete", "incomplete", "files", "comments", "avgLeft", "completed"}

ASSUME ListingAssumption ==
  /\ Hash \subseteq Nat
  /\ {"complete", "incomplete"} \subseteq Shown /\ Shown \subseteq Column
  /\ Sortable \in BOOLEAN /\ AsProgress \in BOOLEAN
  /\ PageRange \in Nat /\ FeedLimit \in Nat /\ MaxInt \in Nat

---------------------------------------------------------------------------
(***************************************************************************)
(* Orders.  A sort is a column and a direction; anything else a request    *)
(* asks for is no sort.                                                    *)
(***************************************************************************)

Newest == <<"added", "descending">>
ByKey == <<"key", "ascending">>

Reversed(sort) ==
  <<sort[1], IF sort[2] = "ascending" THEN "descending" ELSE "ascending">>

\* What is sorted by: progress rises as what is left falls, and by a column
\* that is switched off nothing is sorted.
Effective(sort) ==
  LET asked == IF Sortable /\ sort \in Column \X {"ascending", "descending"}
               THEN sort ELSE Newest
  IN  IF asked[1] \notin Shown THEN ByKey
      ELSE IF asked[1] = "avgLeft" /\ AsProgress THEN Reversed(asked)
      ELSE asked

Wrapped(n) == ((n + MaxInt + 1) % (2 * (MaxInt + 1))) - (MaxInt + 1)

\* The comparison functions: of counts the difference, of texts and of 64 bit
\* numbers which one is less; for a descending order they turn their arguments
\* round.
Comparison(a, b, by) ==
  LET first == IF by[2] = "ascending" THEN a ELSE b
      second == IF by[2] = "ascending" THEN b ELSE a
  IN  IF by[1] \in Counted THEN Wrapped(first - second)
      ELSE IF first < second THEN -1 ELSE IF first > second THEN 1 ELSE 0

\* What qsort puts first: what compares as less, or came first already.
Earlier(a, b, by) ==
  LET result == Comparison(a.value, b.value, by)
  IN  result < 0 \/ (result = 0 /\ a.key < b.key)

\* qsort: the torrent in each place has so many others before it.
Ordered(rows, which, by) ==
  LET items == {[key |-> h, value |-> rows[h][by[1]]] : h \in which}
      Place(b) == 1 + Cardinality({a \in items : Earlier(a, b, by)})
  IN  [i \in 1..Cardinality(items) |-> (CHOOSE a \in items : Place(a) = i).key]

---------------------------------------------------------------------------
(***************************************************************************)
(* The index.  A view is what the links of a page carry along: a sort, a   *)
(* tag to filter by, the names a search finds and the rows of a page.      *)
(***************************************************************************)

Matching(row, view) ==
  view.filter \in {AnyTag, row.tag} /\ row.name \in view.names

Found(rows, view) == {h \in DOMAIN rows : Matching(rows[h], view)}

\* The rows are put in order, and the others passed over.
Listed(rows, view) ==
  Ordered(rows, Found(rows, view), Effective(view.sort))

\* Mutant: the row at the boundary is on neither page.
PageOfShort(list, page, per) ==
  LET start == page * per
      end == IF start + per <= Len(list) THEN start + per - 1 ELSE Len(list)
  IN  IF per = 0 THEN list ELSE SubSeq(list, start + 1, end)

\* The rows of a page: the first iStart matches are skipped.
PageOf(list, page, per) ==
  LET start == page * per
      end == IF start + per <= Len(list) THEN start + per ELSE Len(list)
  IN  IF per = 0 THEN list ELSE SubSeq(list, start + 1, end)

\* The links of a page to others, by their titles, when so many are found.
First(page) == IF page > PageRange THEN {0} ELSE {}
Previous(page) == IF page > 0 THEN {page - 1} ELSE {}
RangeBefore(page) == {n \in 0..(page - 1) : n + PageRange >= page}

\* Mutant: a page may begin after the last row.
RangeAfterFull(found, page, per) ==
  {n \in (page + 1)..(page + PageRange) : n * per <= found}

RangeAfter(found, page, per) ==
  {n \in (page + 1)..(page + PageRange) : n * per < found}
Following(found, page, per) ==
  IF per > 0 /\ (page + 1) * per < found THEN {page + 1} ELSE {}
LastPage(found, page, per) ==
  IF per > 0 /\ (page + PageRange + 1) * per < found THEN {found \div per} ELSE {}

Links(found, page, per) ==
  IF per = 0 THEN {}
  ELSE First(page) \cup Previous(page) \cup RangeBefore(page)
       \cup RangeAfter(found, page, per) \cup Following(found, page, per)

---------------------------------------------------------------------------

\* saveRSS: the newest torrents with a tag, or of all.  The tag asked for is
\* compared as it is with those of the torrents, whose markup is escaped.
Feed(rows, tag) ==
  LET tagged == {h \in DOMAIN rows : tag \in {AnyTag, RemoveHTML[rows[h].tag]}}
      found == Ordered(rows, tagged, Newest)
  IN  IF FeedLimit = 0 \/ FeedLimit > Len(found) THEN found
      ELSE SubSeq(found, 1, FeedLimit)
=============================================================================
