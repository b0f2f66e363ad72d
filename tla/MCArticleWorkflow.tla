------------------------- MODULE MCArticleWorkflow -------------------------
(* ArticleWorkflow on small instances: the request slots are interchangeable. *)
EXTENDS ArticleWorkflow, TLC

RequestSymmetry == Permutations(Request)

=============================================================================
