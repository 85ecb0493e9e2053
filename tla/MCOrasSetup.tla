----------------------------- MODULE MCOrasSetup -----------------------------
(***************************************************************************)
(* The instance of OrasSetup that TLC checks: three versions, of which the *)
(* newest is not the last in the order of text, two machines that upstream *)
(* builds for, and one it does not.                                        *)
(***************************************************************************)
EXTENDS OrasSetup

MCVersions == {<<1, 9, 0>>, <<1, 9, 1>>, <<1, 10, 0>>}
MCFirstTable == {<<1, 9, 0>>}
Linux == <<"linux", "amd64">>
MCTargets == {Linux, <<"windows", "amd64">>}
MCRunners == {[os |-> "linux", arch |-> "x64"], [os |-> "win32", arch |-> "x64"],
              [os |-> "sunos", arch |-> "x64"]}

MCInputs ==
    {[version |-> <<1, 10, 0>>, url |-> None, checksum |-> None]} \cup
    {[version |-> <<1, 9, 0>>, url |-> [version |-> <<1, 9, 0>>, target |-> Linux], checksum |-> c] :
        c \in {None, [version |-> <<1, 9, 0>>, target |-> Linux, build |-> 2]}}
=============================================================================
