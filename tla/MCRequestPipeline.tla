------------------------- MODULE MCRequestPipeline --------------------------
(* TLC instances of RequestPipeline: every place of a session filter among *)
(* a few filters and flush filters is an initial state.                    *)
EXTENDS RequestPipeline
=============================================================================
