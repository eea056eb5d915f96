--------------------------- MODULE MCAppAuthProxy ---------------------------
(* Two tabs, of one browser or of two, of which the user of one may not see *)
(* admin pages; an open page, one for all users and one for a group only.   *)
EXTENDS AppAuthProxy

TabOwners ==
    {[r \in Requests |-> "owner"], [r \in Requests |-> IF r = "tab1" THEN "owner" ELSE "guest"]}

TabAsks == [r \in Requests |->
    IF r = "tab1" THEN {<<"home", "POST">>} ELSE {<<"admin", "GET">>, <<"logo", "GET">>}]

RouteTable ==
    {[pages |-> {"logo"}, priority |-> 1, protected |-> FALSE, scopes |-> {}],
     [pages |-> {"admin"}, priority |-> 1, protected |-> TRUE, scopes |-> {<<"GET", "admins">>}],
     [pages |-> {"logo", "admin", "home"}, priority |-> 2, protected |-> TRUE, scopes |-> {<<"*", "*">>}]}

UserGroups == [b \in Browsers |-> IF b = "owner" THEN {"admins"} ELSE {}]
=============================================================================
