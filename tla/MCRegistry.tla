----------------------------- MODULE MCRegistry -----------------------------
(***************************************************************************)
(* Three configurations: a battery camera, a mains camera with two streams *)
(* and a talk profile, and one that reuses the base path of the first.     *)
(***************************************************************************)
EXTENDS Registry

Config(n, b, s, p, z) == [name |-> n, base |-> b, streams |-> s, preferred |-> p, sleepy |-> z]

MCConfigs == {
  Config("a", "A", <<"main">>, "", TRUE),
  Config("b", "B", <<"main", "sub">>, "sub", FALSE),
  Config("c", "A", <<"sub">>, "sub", TRUE)}
=============================================================================
