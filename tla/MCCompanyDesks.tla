--------------------------- MODULE MCCompanyDesks ---------------------------
(***************************************************************************)
(* An instance of CompanyDesks: which functions may overlap.               *)
(***************************************************************************)
EXTENDS CompanyDesks

\* A factory approval asks for nobody, one level or two.
TwoLevels == {{}, {1}, {1, 2}}

\* Every pair but the harmful ones may overlap.
Harmless == {{f, g} : f, g \in Ops} \ Harmful

\* At the spare-parts desk, likewise.  (Its two lists are read off an instance of their own:
\* TLC cannot follow a constant's value into the instance it is the value of.)
Lists == INSTANCE SpareSessions WITH Together <- {}
SparesHarmless ==
    {{f, g} : f, g \in Lists!Ops} \ Lists!Harmful

=============================================================================
