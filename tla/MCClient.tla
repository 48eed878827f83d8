------------------------------- MODULE MCClient -------------------------------
(***************************************************************************)
(* An instance of Client for TLC: two repositories of one registry, which  *)
(* has a port, and one each of two others, with every tag and digest.      *)
(***************************************************************************)
EXTENDS Client

MCWord == {"example.com", "localhost", "5000", "app", "v1.2", "latest", "sha256",
           "abc"}
MCDotted == {"example.com", "v1.2"}

Named(host, port, name) ==
  [host : {host}, port : {port}, repository : {name},
   tag : {NoText, <<"v1.2">>, <<"latest">>, <<"5000">>},
   digest : {NoText, <<"sha256", ":", "abc">>}]

MCWritten ==
  Named(<<"localhost">>, <<"5000">>, <<"app">>)
    \cup Named(<<"localhost">>, <<"5000">>, <<"v1.2", "/", "localhost">>)
    \cup Named(<<"localhost">>, NoText, <<"v1.2">>)
    \cup Named(<<"example.com">>, NoText, <<"app", "/", "app">>)

MCRepository == {RepositoryOf(Intended(w)) : w \in MCWritten}
MCRegistry == {r.registry : r \in MCRepository}
MCHost == [r \in MCRepository |-> r.registry]
=============================================================================
