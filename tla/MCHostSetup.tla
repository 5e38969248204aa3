----------------------------- MODULE MCHostSetup ------------------------------
(* Instances of HostSetup for TLC: two terminals and two hosts. *)
EXTENDS HostSetup

CONSTANTS p1, p2, a1, a2, user

MCProc  == {p1, p2}
MCAlias == {a1, a2}

Comment == Line("comment", user, NoMark)
Own     == Line("setting", user, NoMark)

\* No file; a block of the user and a block of a1 with a blank line and a comment; a
\* block that already forwards the port.
MCInitialFile ==
  {<<>>,
   <<HostLine(a2), Own, Blank, HostLine(a1), Comment>>,
   <<HostLine(a1), Own, Forward(1, NoMark)>>}

Terminals == Permutations(MCProc)
=============================================================================
