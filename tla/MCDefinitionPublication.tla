----------------------- MODULE MCDefinitionPublication -----------------------
(***************************************************************************)
(* A small instance of DefinitionPublication: a session of the first       *)
(* generation publishes two revisions, one of the second generation a      *)
(* revision with either content, so that two requests disagree about it.   *)
(***************************************************************************)
EXTENDS DefinitionPublication

CONSTANTS c1, c2

MCPublishable == {<<1, 1, c1>>, <<1, 2, c1>>, <<2, 1, c1>>, <<2, 1, c2>>}
=============================================================================
