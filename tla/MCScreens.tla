------------------------------ MODULE MCScreens ------------------------------
EXTENDS Screens

NoSubmenus == [n \in {} |-> <<>>]

Menu(items) == [n \in DOMAIN items |-> Item(items[n])]

\* The built-in menu with few features, three menus for a part of the features
\* each, and a tree whose submenus form a cycle.
Standard == [menu |-> <<>>, submenus |-> NoSubmenus, doors |-> {"lord"},
             features |-> {"keys", "register", "mail_sysop"}]
Reading == [menu |-> Menu(<<"boards", "search", "mail">>),
            submenus |-> NoSubmenus, features |-> {"mail"}, doors |-> {}]
Lending == [menu |-> Menu(<<"boards", "files">>),
            submenus |-> NoSubmenus, features |-> {"files"}, doors |-> {}]
Social == [menu |-> Menu(<<"oneliners", "polls", "timeline", "remote_boards", "who", "chat",
                           "profile">>),
           submenus |-> NoSubmenus, doors |-> {},
           features |-> {"oneliners", "polls", "timeline", "remote_boards", "who", "chat"}]
Tree == [menu |-> <<Item("help"), Entry("door", "gone"), Entry("submenu", "games"),
                    Entry("board", "b")>>,
         submenus |-> [games |-> <<Entry("door", "lord"), Entry("submenu", "more"),
                                   Item("keys")>>,
                       more |-> <<Item("quti"), Entry("submenu", "games"),
                                  Entry("submenu", "staff")>>,
                       staff |-> <<Item("admin")>>],
         doors |-> {"lord"}, features |-> {"keys"}]

\* Two submenus that lead to one another, and two that do not.
Loop == [menu |-> <<Entry("submenu", "a"), Item("help")>>, doors |-> {}, features |-> {},
         submenus |-> [a |-> <<Entry("submenu", "b")>>,
                       b |-> <<Item("stats"), Entry("submenu", "a")>>]]
Nested == [Loop EXCEPT !.submenus = [a |-> <<Item("stats"), Entry("submenu", "b")>>,
                                     b |-> <<Item("help")>>]]

MCConfigs == {Standard, Reading, Lending, Social, Tree, Loop, Nested}

\* One entry, mistyped.
MCTypo == {[menu |-> Menu(<<"bords">>), submenus |-> NoSubmenus, doors |-> {},
            features |-> {}]}
=============================================================================
