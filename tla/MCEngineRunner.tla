--------------------------- MODULE MCEngineRunner ---------------------------
(* Environments for EngineRunner. *)
EXTENDS EngineRunner

\* Windows-like moves; the service is killed or stopped anywhere but inside
\* the backup copy, and any file operation or kill may fail.
Failing == [renameReplaces |-> FALSE, killOnClose |-> FALSE,
            faults |-> {"crash", "stop", "ioFail", "killFail"}]

\* Timeouts and failed spawns, and a user who may remove the file; the service
\* is neither killed nor stopped.
Smooth == [renameReplaces |-> TRUE, killOnClose |-> TRUE, faults |-> {"delete", "killFail"}]

MCEnvironments ==
    {Failing, [Failing EXCEPT !.renameReplaces = TRUE], [Failing EXCEPT !.killOnClose = TRUE],
     [Failing EXCEPT !.faults = {"crash", "copyCrash", "delete"}],
     [Failing EXCEPT !.faults = {"crash", "lateEdit"}],
     [Smooth EXCEPT !.faults = {"delete"}], Smooth}
=============================================================================
