------------------------------- MODULE MCMetrics -------------------------------
(***************************************************************************)
(* Three nodes, two of which have names with one slug.  The first reports  *)
(* metrics whose names collide in every way the code knows; the others     *)
(* report nothing, they come and go.                                       *)
(***************************************************************************)
EXTENDS Metrics, TLC

CONSTANTS s1, s2, s3

MCSessions == {s1, s2, s3}
MCIdOf   == [s \in MCSessions |-> s]
MCNameOf == (s1 :> <<"A", ".", "b">>) @@ (s2 :> <<"c">>) @@ (s3 :> <<"-", "a", "/", "/", "b", ".">>)

a_b  == <<"a", ".", "b">>
a__b == <<"a", "_", "b">>
c    == <<"c">>

C(v) == <<"counter", v>>
G(v) == <<"gauge", v>>
L(t) == <<"label", t>>

MCResponses ==
  (s1 :> ({a_b :> C(v) : v \in {-3, 0, 1, 2}} \cup {(a_b :> G(1)) @@ (a__b :> G(2)), a__b :> G(-2),
          (c :> L("x")) @@ ((c \o InfoSuffix) :> G(1)),
          (<<"b", ".">> :> L("x")) @@ (<<"b", "_">> :> L("y")), <<"b", "_">> :> L("z"),
          <<"7">> :> G(1)}))
  @@ (s2 :> {}) @@ (s3 :> {})

N(v) == <<"number", v>>
T(ns, fields) == [namespace |-> ns, fields |-> fields]
MCBatches ==
  (s1 :> {<<T(<<<<"a">>>>, <<"b">> :> N(5)), T(<<>>, <<"b">> :> N(6))>>,
          <<T(<<<<"c">>, <<"i">>>>, (<<"b">> :> N(7)) @@ (<<"d">> :> <<"text">>)), T(<<<<"c">>>>, <<"i", ".", "b">> :> N(8))>>})
  @@ (s2 :> {}) @@ (s3 :> {})
================================================================================
