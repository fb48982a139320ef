------------------------------ MODULE MCServer ------------------------------
EXTENDS Server, TLC

\* The routes of main.go, and the controller's handlers where the forms link to them.
AllRoutes ==
  MainRoutes \cup {<<"GET", "Login">>, <<"POST", "Create">>, <<"POST", "Authenticate">>,
                   <<"GET", "Logout">>}

Symmetric ==
  Permutations(Request) \cup Permutations(Browser) \cup Permutations(Context)
    \cup Permutations(Password)

MCAges == {0, 1}
=============================================================================
