-------------------------- MODULE MCUserLifecycle --------------------------
(***************************************************************************)
(* Small instances of UserLifecycle for TLC.  The grants are chosen so     *)
(* that two name one target, permissions overlap, a list of tokens needs a *)
(* second row, and one names no bucket type.                               *)
(***************************************************************************)
EXTENDS UserLifecycle, TLC

OnAny(p) == [resource |-> "any", bucket |-> <<>>, permission |-> p]
On(b, p) == [resource |-> "bucket", bucket |-> b, permission |-> p]

MCTwoLists == {{}, {On(<<"t", "b">>, "read"), On(<<"t", "b">>, "list")}}
MCLists == {{On(<<"t">>, "admin")}, {On(<<>>, "write")},
            {OnAny("read"), On(<<"t">>, "read"), On(<<"t">>, "list")}}

\* A permission every user has through a group
MCInherited == {<<<<"*", "*">>, "put">>, <<<<"t", "*">>, "put">>}

\* Usernames are interchangeable, and so are objects.
UserSymmetry == Permutations(Names) \cup Permutations(Objs)
=============================================================================
