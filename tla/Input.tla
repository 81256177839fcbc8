-------------------------------- MODULE Input --------------------------------
(***************************************************************************)
(* The input hook as one: the keys and buttons the game polls (InputHook)  *)
(* and the events it reads in menus (MenuInput), both of DIHookControl     *)
(* (nvse/nvse/Hooks_DirectInput8Create.h).  The two share no state: a press *)
(* a script asks for in a menu changes no key.                             *)
(***************************************************************************)
EXTENDS InputHook, Sequences

CONSTANTS Devices, UserEvents, MenuKeys, Sizes, Garbage, MaxPending, MaxBuffered
VARIABLES pending, m_bufferedPresses, read

menuVars == <<pending, m_bufferedPresses, read>>

Menus == INSTANCE MenuInput WITH Keys <- MenuKeys

InputInit == KeysInit /\ Menus!Init

InputNext ==
    \/ KeysNext /\ UNCHANGED menuVars
    \/ Menus!Next /\ UNCHANGED keyVars

InputSpec == InputInit /\ [][InputNext]_<<keyVars, menuVars>>

\* Key states and bindings have their types, whatever commands scripts call, and
\* a read of buffered events reports as many as it took, which the game's array
\* has room for.
InputTypeOK == KeysTypeOK /\ Menus!TypeOK
=============================================================================
