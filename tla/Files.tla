------------------------------- MODULE Files -------------------------------
(***************************************************************************)
(* How a table is kept in a file (the save functions of tracker.cpp,       *)
(* DecodeFile of bencode.cpp).                                             *)
(*                                                                         *)
(* A table is written whole.  fopen may fail, and since it truncates the   *)
(* file, a crash or a full disk during the write leaves the beginning of   *)
(* the text.  A file is modelled as what the decoder makes of it, which is *)
(* all the tracker ever does with it.                                      *)
(***************************************************************************)
EXTENDS Integers

CONSTANT Discarded  \* the decoder gives the whole dictionary up

\* Save outcomes: the text is written, the file cannot be opened, the write
\* ends early and nobody notices, the process ends during the write.
Outcome == {"written", "unopened", "short", "crash"}

\* What may be left of a dictionary in a file that is cut: the items before
\* the one where the text ends, what is left of that one, or nothing at all.
CutTable(t, none, before, CutItem(_, _)) ==
  {[k \in DOMAIN t |-> none]} \cup
  UNION {{[k \in DOMAIN t |-> IF <<k, last>> \in before THEN t[k]
                              ELSE IF k = last THEN rest ELSE none] :
            rest \in CutItem(last, t[last]) \ {Discarded}} :
         last \in {k \in DOMAIN t : t[k] # none}}

\* What is in a file after a save.
FileAfter(outcome, file, table, cuts) ==
  CASE outcome = "written"  -> {table}
    [] outcome = "unopened" -> {file}
    [] OTHER                -> cuts

FaultsOf(outcome) == IF outcome = "written" THEN 0 ELSE 1
=============================================================================
