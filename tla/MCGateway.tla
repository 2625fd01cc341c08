----------------------------- MODULE MCGateway -----------------------------
(***************************************************************************)
(* Three requests of each kind, and mixtures of kinds that hand something  *)
(* on: a login's token is refreshed twice, a created user logs in.         *)
(***************************************************************************)
EXTENDS Gateway

MCWorkloads ==
    {<<"login", "login", "login">>, <<"login", "refresh", "refresh">>,
     <<"refresh", "refresh", "refresh">>, <<"requestReset", "confirmReset", "confirmReset">>,
     <<"confirmReset", "confirmReset", "login">>, <<"createUser", "createUser", "createUser">>,
     <<"createUser", "login", "createUser">>, <<"trigger", "trigger", "trigger">>}

\* Tokens of an earlier day, 10 and 11.
MCInitialUsers == {[name |-> "u1", password |-> "p1"]}
MCInitialRefreshTokens ==
    {[by |-> 10, user |-> "u1", parent |-> 0, expires |-> 2, revoked |-> FALSE]}
MCInitialResetTokens ==
    {[by |-> 11, user |-> "u1", expires |-> 1, used |-> FALSE]}

=============================================================================
