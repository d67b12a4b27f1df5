------------------------------ MODULE MCRouter ------------------------------
(* Router with rules that share prefixes, overlap and clash, and all urls  *)
(* of up to four characters.                                               *)
EXTENDS Router

R(pattern, methods) == [pattern |-> pattern, methods |-> methods]

MCMenu ==
  {R(<<"/", "a">>, {"get"}),
   R(<<"/", "a", "/">>, {"get"}),
   R(<<"/", "a", "1", "a">>, {"get"}),
   R(<<"/", "int">>, {"get", "post"}),
   R(<<"/", "str">>, {"post"}),
   R(<<"/", "path">>, {"get"}),
   R(<<"/", "int", "/", "a">>, {"get"}),
   R(<<"/", "int", "/", "str">>, {"get"}),
   R(<<"/", "str", "/", "a">>, {"get"}),
   R(<<"/", "int", "/", "path">>, {"get"})}

MCUrls == {<<"/">> \o u : u \in UNION {[1 .. n -> Char] : n \in 0 .. 3}}
MCBases == {<<"/">>, <<"/", "a">>}
MCFsUrl == <<"/", "a", "a">>
=============================================================================
