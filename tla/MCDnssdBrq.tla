---------------------------- MODULE MCDnssdBrq ----------------------------
(* TLC instances of DnssdBrq: the values of its constants and a symmetry. *)
EXTENDS DnssdBrq, TLC

CONSTANTS n1, n2, h1, h2

OneName  == {n1}
TwoNames == {n1, n2}
OneHost  == {h1}
TwoHosts == {h1, h2}
Line(mode, query, exit) == [mode |-> mode, query |-> query, exit |-> exit]

\* Each way of looking adverts up, and only listing them.
BrowseLine  == {Line("none", FALSE, FALSE)}
WalkLines   == BrowseLine \cup {Line("-r", TRUE, FALSE)}
LookupLines == WalkLines \cup {Line("-a", FALSE, FALSE), Line("-rl", TRUE, FALSE),
                               Line("-r", FALSE, FALSE), Line("none", FALSE, TRUE)}

NameSymmetry == Permutations(TwoNames)
HostSymmetry == Permutations(TwoHosts)
BothSymmetry == NameSymmetry \cup HostSymmetry
===========================================================================
