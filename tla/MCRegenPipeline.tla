-------------------------- MODULE MCRegenPipeline --------------------------
(* Small instances of RegenPipeline.                                       *)
EXTENDS RegenPipeline

MCJobs == 1 .. 8

MCSteps == 1 .. MaxLen

(* Two features; or one or two of them.                                    *)
TwoStepDoc == {<<"a", "a">>}
ShortDocs == {<<"a">>, <<"a", "a">>}

=============================================================================
