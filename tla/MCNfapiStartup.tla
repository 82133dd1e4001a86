--------------------------- MODULE MCNfapiStartup ---------------------------
(* An instance of NfapiStartup: three workers, one of them built in, and   *)
(* a fourth name that is in no list but may be depended on.                *)
EXTENDS NfapiStartup

CONSTANTS fs, a, b, ghost

FourNames == {fs, a, b, ghost}
AB == <<a, b>>
(* a may depend on anything but itself, b on a or itself.                  *)
Graphs ==
  {[n \in FourNames |-> CASE n = a -> da [] n = b -> db [] OTHER -> {}] :
     da \in SUBSET {fs, b, ghost}, db \in SUBSET {a, b}}
MostStartable == {FourNames, FourNames \ {a}}
Lists == {<<b>>, <<ghost>>}
=============================================================================
