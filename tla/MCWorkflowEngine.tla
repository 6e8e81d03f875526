--------------------------- MODULE MCWorkflowEngine ---------------------------
(* Small instances of the engine. *)
EXTENDS WorkflowEngine

MCTaskIds == <<"t1", "t1", "t2">>
MCTextErrors == {"episode", "error_text"}

=============================================================================
