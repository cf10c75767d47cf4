----------------------------- MODULE MCMessages -----------------------------
(***************************************************************************)
(* Seeds of one to four messages, cut at every place, and mutated buffers  *)
(* of one to four regions where two are the most of any seed: lists that   *)
(* grow, shrink and merge, with and without messages before and behind the *)
(* mutated ones.                                                           *)
(***************************************************************************)
EXTENDS MessageList

MCSeeds == {<<<<"a">>>>, <<<<"a">>, <<"b">>>>, <<<<"a">>, <<"b">>, <<"c">>>>,
            <<<<"a">>, <<"b">>, <<"c">>, <<"d">>>>}

MCRegions == {<<"x">>, <<"x", "y">>, <<"x", "y", "z">>, <<"z", "y", "x", "x">>}
=============================================================================
