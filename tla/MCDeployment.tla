------------------------------ MODULE MCDeployment ------------------------------
(* Deployment by the recipes of README.md and docker-entrypoint.sh.            *)
EXTENDS Deployment

Set(p, h, e, b, todo) ==
    [pods |-> p, ch |-> h, extract |-> e, sound |-> TRUE, built |-> b, plan |-> todo]

(* The same with an extract that cannot be parsed.                             *)
Unsound(s) == [s EXCEPT !.sound = FALSE]

One == {"pod"}
Two == {"pod", "twin"}

(* Compose with an extract in place.                                           *)
ComposeSetups == {Set(One, FALSE, TRUE, FALSE, <<>>)}

AllSetups ==
    ComposeSetups \cup
    {Set(One, TRUE, TRUE, FALSE, <<"preprocess">>),
     Set(One, FALSE, FALSE, FALSE, <<"place", "restart">>),
     Set(One, FALSE, FALSE, FALSE, <<"import", "restart">>),
     Set(One, TRUE, FALSE, FALSE, <<"import", "preprocess", "restart">>),
     Set(One, FALSE, TRUE, TRUE, <<"import", "restart">>),
     Set(One, TRUE, TRUE, TRUE, <<"import", "preprocess", "restart">>),
     Set(Two, FALSE, TRUE, FALSE, <<>>),
     Set(Two, TRUE, FALSE, FALSE, <<"import", "preprocess", "restart">>),
     Set(Two, FALSE, FALSE, FALSE, <<"place", "restart">>),
     Set(Two, TRUE, TRUE, TRUE, <<"import", "preprocess", "restart">>),
     Unsound(Set(One, FALSE, TRUE, FALSE, <<>>)),
     Unsound(Set(One, TRUE, TRUE, FALSE, <<"import", "preprocess", "restart">>))}
=================================================================================
