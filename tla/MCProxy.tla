------------------------------ MODULE MCProxy ------------------------------
\* Small instances of Proxy for TLC.
EXTENDS Proxy

CONSTANTS list, call, ext   \* one request of each method

MCIds      == {list, call, ext}
MCMethodOf == [i \in MCIds |-> CASE i = list -> "list"
                                 [] i = call -> "call"
                                 [] i = ext  -> "ext"]

ForwardedIds      == {list, call}
ForwardedMethodOf == [i \in ForwardedIds |-> MCMethodOf[i]]
=============================================================================
