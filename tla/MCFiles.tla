------------------------------- MODULE MCFiles -------------------------------
(* The two kinds of file the process writes and may die over, as two         *)
(* instances of which a behaviour is one: the log, with one text, one source *)
(* and files of two lines; and the co-saves of MCSerialization.              *)
EXTENDS DebugLog, MCSerialization

VARIABLE instance

filesVars == <<logVars, vars, instance>>

MCInit == instance \in {"log", "saves"} /\ LogInit /\ Init

MCNext ==
    \/ instance = "log" /\ LogNext /\ UNCHANGED <<vars, instance>>
    \/ instance = "saves" /\ Next /\ UNCHANGED <<logVars, instance>>

MCSpec == MCInit /\ [][MCNext]_filesVars

=============================================================================
