------------------------ MODULE MCGitHubIntegration ------------------------
(***************************************************************************)
(* A small GitHub for GitHubIntegration: one repository, its default       *)
(* branch and one of the users' own.                                       *)
(***************************************************************************)
EXTENDS GitHubIntegration, TLC

Symmetry == Permutations(User)

Part(name) == [name |-> name, git |-> FALSE]

\* https://github.com/acme/app.git/
Good == [clean |-> TRUE, params |-> FALSE, scheme |-> "https", host |-> "github.com",
         path |-> <<Slash, Part("acme"), [name |-> "app", git |-> TRUE], Slash>>]

\* Another host; a path into the repository; a name that is none; another name;
\* another owner, acme.git.
Urls ==
  {Good, [Good EXCEPT !.host = "gitlab.com"], [Good EXCEPT !.path = @ \o <<Part("wiki")>>],
   [Good EXCEPT !.path[3].name = ""], [Good EXCEPT !.path[3].name = "acme"],
   [Good EXCEPT !.path[2].git = TRUE]}

AcmeApp == <<"acme", "app">>
=============================================================================
