------------------------------ MODULE MCStats ------------------------------
(***************************************************************************)
(* Small instances of Stats: one with few torrents and time, one whose     *)
(* readers turn pages, without time.                                       *)
(***************************************************************************)
EXTENDS Stats

Torrents == <<[name |-> 3, added |-> 1, size |-> 4, files |-> 1],
              [name |-> 1, added |-> 3, size |-> 2, files |-> 1],
              [name |-> 1, added |-> 2, size |-> 0, files |-> 2]>>
Unknown == [name |-> 0, added |-> 0, size |-> 0, files |-> 0]

\* Tag 2 has markup in it, which makes it read like 3.
Escaped == [t \in 0..3 |-> IF t = 2 THEN 3 ELSE t]
SomeTags == <<[tag |-> 1, name |-> 2], [tag |-> 2], <<>>>>
SomeComments == <<0, 1, 0>>
SomeEdits == {[tag |-> 1, name |-> 3]}

\* Whole numbers, for which floats are exact.
ExactPercent(left, size) == (100 * left) \div size

SomeColumns == Column \ {"added"}
EveryName == 0..3

Intervals == [save |-> 2, scrape |-> 2, xml |-> 1, cache |-> 1, rss |-> 1]
Kinds == {"save", "scrape", "xml", "cache", "rss"}

View(column, direction, filter, names, per) ==
  [sort |-> <<column, direction>>, filter |-> filter, names |-> names, perPage |-> per]
SomeViews == {View("none", "none", 1, EveryName, 1),
              View("name", "ascending", AnyTag, EveryName, 2),
              View("avgLeft", "ascending", AnyTag, EveryName, 1),
              View("comments", "descending", AnyTag, {1, 2}, 0)}

Timed == [keepDead |-> FALSE, time |-> 5, changes |-> 2, faults |-> 1,
          reading |-> FALSE, allowed |-> {1}, edits |-> {}]
TimedDead == [Timed EXCEPT !.keepDead = TRUE, !.changes = 1]
Read == [keepDead |-> TRUE, time |-> 0, changes |-> 3, faults |-> 0,
         reading |-> TRUE, allowed |-> {1, 2}, edits |-> {3}]
SomeConfigs == {Timed, TimedDead, Read}
=============================================================================
