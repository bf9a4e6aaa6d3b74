---------------------------- MODULE MCLiveIndex ----------------------------
(* An instance of LiveIndex for TLC: a file that defines a callee, in two   *)
(* impl blocks with one id, one that calls it across files and one that     *)
(* does both.                                                               *)
EXTENDS LiveIndex, TLC

CONSTANTS f1, f2

Source(defs, twice, calls, bases, imports, names) ==
  [defs |-> defs, twice |-> twice, calls |-> calls, bases |-> bases,
   imports |-> imports, names |-> names]

Callee == Source({"a"}, {"a"}, {}, {}, {}, {})
Caller == Source({"b"}, {}, {<<"b", "a">>}, {}, {f1}, {"a"})
Both   == Source({"a", "b"}, {}, {<<"b", "a">>, <<"a", "b">>}, {<<"b", "a">>}, {f2}, {})

MCNames == {"a", "b"}
MCTwoFiles == {f1, f2}
MCContents == {Callee, Caller, Both}
=============================================================================
