--------------------------- MODULE MC_CacheDriver ---------------------------
(* src/lab/cache/trans.c registers the submission and one other function;  *)
(* how many, their order and their descriptions are the student's.         *)
EXTENDS CacheDriver

MC_Registrations ==
    {<<Submission, "other">>, <<"other", Submission>>, <<Submission, Submission>>,
     <<"other">>, <<>>}
MC_AsHandedOut == {<<Submission, "other">>}

=============================================================================
