----------------------------- MODULE MCFileFetch -----------------------------
(***************************************************************************)
(* Every header of up to three cells, over every sheet of up to three      *)
(* lines: blank ones, short ones, longer ones than the header, lines       *)
(* without an identifier; lines no reader can read; and the refused files. *)
(***************************************************************************)
EXTENDS FileFetch

Lines == {<<>>, <<Blank, Blank>>, <<"ann">>, <<"bob", "on">>, <<Blank, "off", "ann">>,
          <<Blank, Blank, Blank, "on">>}

SequencesUpTo(S, n) == UNION {[1..k -> S] : k \in 0..n}

Sheet(header, lines, breaks) ==
  [size |-> "fits", readable |-> TRUE, table |-> <<header>> \o lines, breaks |-> breaks]

MCUploads ==
  LET Headers3 == SequencesUpTo({Blank, IdColumn, StatusColumn}, 3)
      Tables == SequencesUpTo(Lines, 3)
  IN  {Sheet(h, t, 0) : h \in Headers3, t \in Tables}
        \union UNION {{Sheet(h, t, b) : h \in SequencesUpTo({Blank, IdColumn}, 2), b \in 2..(Len(t) + 1)} :
                        t \in Tables}
        \union {[size |-> s, readable |-> r, table |-> <<>>, breaks |-> 0] :
                  s \in {"empty", "fits", "too large"}, r \in BOOLEAN}
=============================================================================
