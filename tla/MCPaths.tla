------------------------------- MODULE MCPaths -------------------------------
\* A small disk for Paths: a work directory with a plain, a credential and a
\* hidden entry and one in a denied directory, a file below the hidden entry
\* (which may be the work directory of a call itself), and a place outside.
EXTENDS Paths

CONSTANTS work, plain, hidden, inner, credential, system, outside

MCPlaces == {work, plain, hidden, inner, credential, system, outside}
MCBelow  == [p \in MCPlaces |->
                CASE p = work   -> {plain, hidden, inner, credential, system}
                  [] p = hidden -> {inner}
                  [] OTHER      -> {}]
=============================================================================
