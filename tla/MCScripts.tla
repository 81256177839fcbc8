------------------------------ MODULE MCScripts ------------------------------
(* What scripts run on, in five instances that share nothing, of which a     *)
(* behaviour is one: the expressions their lines are compiled from; the heap *)
(* of arrays, with two mods that have a variable each and arrays of two      *)
(* elements; a packed array of up to four; the state of five keyboard codes, *)
(* a button and the wheel, under a number of commands in any order; and the  *)
(* queue of menu presses.                                                    *)
EXTENDS Arrays, Input

CONSTANTS m1, m2, a, b, x, y,
          NumParams, MaxLen, MaxWrong,
          MaxCommands,
          keyboard, mouse, click

VARIABLES text,
          commands,      \* how many commands on keys and controls were called
          instance

MCModOf == (a :> m1) @@ (b :> m2)
MCAssigns == {<<m1, a>>, <<m1, b>>, <<m2, b>>}

Expressions == INSTANCE ExpressionParser

\* Rebinding reaches the bindings the game may start with.
BoundInOrder ==
    /\ keyBinds = [c \in Controls |-> c]
    /\ mouseBinds = [c \in Controls |-> IF c = 0 THEN 0 ELSE Unbound]

MCInit ==
    /\ instance \in {"expressions", "heap", "packed", "keys", "menus"}
    /\ Expressions!Init
    /\ Init
    /\ Packed!Init
    /\ InputInit /\ BoundInOrder /\ commands = 0

packed == <<elems, slice, broken>>
mcVars == <<text, vars, packed, keyVars, commands, menuVars, instance>>

InExpressions ==
    instance = "expressions" /\ UNCHANGED <<vars, packed, keyVars, commands, menuVars, instance>>
InHeap ==
    instance = "heap" /\ UNCHANGED <<text, packed, keyVars, commands, menuVars, instance>>
InPacked ==
    instance = "packed" /\ UNCHANGED <<text, vars, keyVars, commands, menuVars, instance>>
InKeys == instance = "keys" /\ UNCHANGED <<text, vars, packed, menuVars, instance>>
InMenus ==
    instance = "menus" /\ UNCHANGED <<text, vars, packed, keyVars, commands, instance>>

MCNext ==
    \/ InExpressions /\ Expressions!Next
    \/ InHeap /\ Commands
    \/ InHeap /\ Hooks
    \/ InHeap /\ OtherThread
    \/ InHeap /\ Games
    \/ InPacked /\ Packed!Next
    \/ InKeys /\ PollKeyboard /\ UNCHANGED commands
    \/ InKeys /\ PollMouse /\ UNCHANGED commands
    \/ InKeys /\ User /\ UNCHANGED commands
    \/ InKeys /\ commands < MaxCommands /\ commands' = commands + 1
              /\ (OnKeys \/ OnControls)
    \/ InMenus /\ Menus!Next

MCSpec == MCInit /\ [][MCNext]_mcVars

\* The properties of the instanced modules, of their instances here.
CompiledAsWritten == instance = "expressions" => Expressions!CompiledAsWritten
ExpressionsCompile == instance = "expressions" => Expressions!ExpressionsCompile
PressesArrive == Menus!PressesArrive
=============================================================================
