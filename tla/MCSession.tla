------------------------------ MODULE MCSession ------------------------------
(* Instances of Session for TLC.                                            *)
EXTENDS Session, TLC

\* Requests are alike, and so are profiles.
Symmetric == Permutations(Clients) \cup Permutations(Profiles)
==============================================================================
