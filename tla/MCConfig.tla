------------------------------ MODULE MCConfig ------------------------------
EXTENDS Config

MCArtKeys == <<"main_menu", "bulletins">>

Door(n) == [NewDoor EXCEPT !.name = n]

Site == [Default EXCEPT !.doors.list = <<Door("lord"), Door("fine")>>,
                        !.boards = [form |-> "array", list |-> <<NewBoard>>],
                        !.art = {"bulletins"}]

\* A board that federates, and would not without its origin.
Federated == [Site EXCEPT !.set = [@ EXCEPT !["web"] = "true", !["enabled"] = "true",
                                            !["origin"] = "fine"]]

\* It has lost its origin, and its lists are in the other notation.
Astray == [Federated EXCEPT !.set = [@ EXCEPT !["origin"] = "odd"],
                            !.doors = [@ EXCEPT !.form = "array"],
                            !.boards = [@ EXCEPT !.form = "tables"]]

\* Much is changed, or much happens to the file.
MCPlans == {[sections |-> {"theme", "art.screens", "doors", "seed"}, edits |-> 3, upsets |-> 0],
            [sections |-> {"web", "doors", "seed"}, edits |-> 1, upsets |-> 2],
            [sections |-> {"federation"}, edits |-> 1, upsets |-> 3]}

MCStart == {Missing, Whole(Federated)}
MCHandTexts == {Whole(Astray), Broken}
=============================================================================
