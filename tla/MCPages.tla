------------------------------- MODULE MCPages -------------------------------
(***************************************************************************)
(* An instance of the owner's pages for TLC.                               *)
(***************************************************************************)
EXTENDS PagesSafety

Visit(p, nWrites, nMoves, nSaves, left) ==
    [pages |-> {p}, writes |-> nWrites, moves |-> nMoves, saves |-> nSaves, left |-> left]

\* A page of each kind, under the bounds at which its hazards show.
Tabs ==
    {Visit("create", 2, 1, 0, 0), Visit("settings", 2, 0, 0, 0), Visit("settings", 2, 0, 0, 1),
     Visit("agents", 1, 0, 2, 0), Visit("agents", 0, 2, 2, 0), Visit("agents", 0, 1, 3, 0),
     Visit("agents", 2, 1, 0, 0), Visit("recovery", 2, 1, 0, 0), Visit("room", 3, 1, 0, 0),
     Visit("room", 2, 2, 0, 0)}
Two == {1, 2}

=============================================================================
