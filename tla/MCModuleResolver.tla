-------------------------- MODULE MCModuleResolver --------------------------
(***************************************************************************)
(* Four plugins in all the positions that matter: `api` and another `api`  *)
(* whose path ends in that of the first, `deep` inside `api`, and `util`,  *)
(* which has a directory `api` and modules called like others.             *)
(***************************************************************************)
EXTENDS ModuleResolver

MCPlugins == {"/api", "/home/api", "/api/deep", "/util"}

MCNs == [P \in MCPlugins |->
            CASE P \in {"/api", "/home/api"} -> "api"
              [] P = "/api/deep" -> "deep"
              [] P = "/util" -> "util"]

MCCovers == {<<"/home/api", "/api">>}
MCBelow == {<<"/api/deep", "/api">>}
MCLibs == {"./"}

MCModules ==
    {<<"/api", "", "lang">>, <<"/home/api", "", "lang">>, <<"/api", "", "util">>,
     <<"/util", "api", "keys">>, <<"/api", "", "keys">>, <<"/api/deep", "", "keys">>,
     <<"/util", "", "text">>, <<"./", "", "text">>,
     <<"/home/api", "", "only">>}

MCNames ==
    {<<"", "lang">>, <<"", "only">>, <<"api", "lang">>, <<"", "util">>,
     <<"api", "keys">>, <<"deep", "keys">>, <<"", "text">>, <<"util", "text">>}
=============================================================================
