------------------------------- MODULE MCMlirGen -------------------------------
(* Small graphs for TLC: every shape up to the bounds, over names that are     *)
(* sanitized to the same id, to an id with a prefix, or to one made up for     *)
(* another constant.                                                           *)
EXTENDS MlirGen

UpTo(S, n) == UNION {[1 .. k -> S] : k \in 0 .. n}
Distinct(s) == \A p, q \in DOMAIN s : p # q => s[p] # s[q]

Dotted == <<"a", ".">>
Scored == <<"a", "_">>
RawB   == <<"__raw_", "b">>
OneB   == <<"b">>
Digit  == <<"1">>

ValueNames == {Dotted, Scored, OneB, RawB}

Initializers == [name : ValueNames, size : {"small", "large", "external"}]

\* A graph of one node: values are defined once, initializers may be listed as
\* inputs too, operands are defined or omitted.
Shapes(inNames, inits) ==
  LET defined == {inNames[k] : k \in DOMAIN inNames}
                 \cup {inits[k].name : k \in DOMAIN inits}
  IN {[name |-> <<"main">>, inputs |-> inNames, inits |-> inits,
       nodes |-> <<[ins |-> ins, outs |-> <<out>>]>>, outputs |-> <<out>>] :
        ins \in UpTo(defined, 1) \cup {<<Omitted, v>> : v \in defined},
        out \in ValueNames \ defined}

MCGraphs ==
  UNION {Shapes(inNames, inits) :
           inNames \in UpTo(ValueNames, 1),
           inits \in {s \in UpTo(Initializers, 2) :
                        Distinct([k \in DOMAIN s |-> s[k].name])}}

\* Graphs that differ in their name only.
Named(name, input) ==
  [name |-> name, inputs |-> <<input>>, inits |-> << >>,
   nodes |-> <<[ins |-> <<input>>, outs |-> <<OneB>>]>>, outputs |-> <<OneB>>]

MCNames == {Named(n, Scored) : n \in {<<"main">>, << >>, Dotted, Scored, Digit}}
===============================================================================
