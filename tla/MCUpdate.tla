------------------------------ MODULE MCUpdate ------------------------------
(***************************************************************************)
(* Update for TLC: a library file that the new release no longer has, and  *)
(* one that it adds to the Duden.                                          *)
(***************************************************************************)
EXTENDS Update

Version(major, minor, patch, additional) ==
    [major |-> major, minor |-> minor, patch |-> patch, additional |-> additional]

MCVersions == {Version(1, 0, 0, "full"), Version(1, 1, 0, "alpha"), Version(1, 1, 0, "full")}

\* releases of two major versions
MCMajorVersions == {Version(1, 9, 0, "full"), Version(2, 0, 0, "full")}
=============================================================================
