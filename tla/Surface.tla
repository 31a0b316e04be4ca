------------------------------ MODULE Surface ------------------------------
(***************************************************************************)
(* KubectlSurface of src/arena/kubectl.py, the tool a driver calls.  A     *)
(* command is one of three kinds; what it does to the cluster is left out. *)
(***************************************************************************)
EXTENDS Naturals

CONSTANTS
    CallSeconds,    \* the surface's timeout_seconds
    Undecodable     \* may kubectl print what is not text (a log, an exec)?

ASSUME SurfaceAssumption == CallSeconds \in Nat /\ Undecodable \in BOOLEAN

\* "refused" is an empty command, a banned flag or a banned subcommand;
\* "unfit" is what subprocess.run cannot pass on: a manifest that is not a
\* string, or an argument with a NUL in it;
\* "malformed" never reaches the surface: args is not a list of strings.
Commands == {"runs", "refused", "unfit"}
Calls == Commands \cup {"malformed"}

\* What KubectlSurface.invoke may come to, and after how long: a refusal at
\* once; a timeout as a failure, and whatever kubectl says in between; or an
\* exception that is neither TimeoutExpired nor OSError, for which it has no
\* handler: AttributeError or ValueError out of the input, UnicodeDecodeError
\* out of the output.
invoke(command) ==
    CASE command = "refused" -> {[ends |-> "failed", took |-> 0]}
      [] command = "unfit" -> {[ends |-> "raised", took |-> 0]}
      [] command = "runs" ->
            [ends : {"ok", "failed"} \cup IF Undecodable THEN {"raised"} ELSE {},
             took : 0..CallSeconds]
=============================================================================
