-------------------------- MODULE MCScriptProfiler --------------------------
(* Two scripts, one of the base game and one of a mod; the main thread and    *)
(* one other; the three lines of loading and room for four more.             *)
EXTENDS ScriptProfiler, TLC

CONSTANTS vanilla, mod1

MCModOf == (vanilla :> 0) @@ (mod1 :> 1)

=============================================================================
