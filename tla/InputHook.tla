------------------------------ MODULE InputHook ------------------------------
(***************************************************************************)
(* DIHookControl (nvse/nvse/Hooks_DirectInput8Create.cpp) between the      *)
(* game and the keyboard and mouse: what the user does to a key, what      *)
(* scripts do to it (nvse/nvse/Commands_Input.cpp), and what the game is   *)
(* told when it polls a device.  Keys are numbered: the keyboard's codes,  *)
(* then the mouse buttons, then the two directions of the wheel.  The      *)
(* events the game reads in menus are in MenuInput.                        *)
(***************************************************************************)
EXTENDS Integers, FiniteSetsExt

CONSTANTS ByteSize,         \* the keyboard's codes and the values of a UInt8: 256
          NumButtons,       \* mouse buttons, 8
          MaxControlBinds,  \* the controls that have a key and a button, 28
          Codes,            \* the codes scripts use, valid or not
          Pressable         \* the keys the user has fingers for

ASSUME SizesAssumption ==
    /\ ByteSize \in Nat \ {0} /\ NumButtons \in Nat /\ NumButtons < ByteSize
    /\ MaxControlBinds \in Nat

kMacro_MouseButtonOffset == ByteSize
kMacro_MouseWheelOffset == kMacro_MouseButtonOffset + NumButtons
kMaxMacros == kMacro_MouseWheelOffset + 2

Macros == 0 .. kMaxMacros - 1
Keyboard == 0 .. kMacro_MouseButtonOffset - 1
Buttons == kMacro_MouseButtonOffset .. kMacro_MouseWheelOffset - 1
Wheel == kMacro_MouseWheelOffset .. kMaxMacros - 1
Controls == 0 .. MaxControlBinds - 1

ASSUME CodesAssumption == Codes \subseteq Nat /\ Pressable \subseteq Macros

Unbound == ByteSize - 1      \* 0xFF

VARIABLES
    down,       \* the keys the user holds down
    m_keys,     \* KeyInfo of every key
    told,       \* the keys that were down in what the game's polls returned
    keyBinds,   \* the game's key of each control, a UInt8
    mouseBinds, \* and its button
    s_disabledControls

binds == <<keyBinds, mouseBinds>>
keyVars == <<down, m_keys, told, binds, s_disabledControls>>

Disables == {"user", "script"}
Flags == {"GameState", "RawState", "InsertedState",
          "IgnoreDisabled_User", "IgnoreDisabled_Script"}
KeyInfo == [rawState : BOOLEAN, gameState : BOOLEAN, insertedState : BOOLEAN,
            hold : BOOLEAN, tap : BOOLEAN, disable : SUBSET Disables]
Binds == [Controls -> 0 .. ByteSize - 1]

KeysTypeOK ==
    /\ down \subseteq Pressable
    /\ m_keys \in [Macros -> KeyInfo]
    /\ told \subseteq Macros
    /\ keyBinds \in Binds /\ mouseBinds \in Binds
    /\ s_disabledControls \in [Controls -> SUBSET Disables]

\* No two controls have the same key.
Distinct(b) == \A c, d \in Controls : b[c] = b[d] => c = d \/ b[c] = Unbound

\* The constructor's memset and Commands_Input_Init; the game has read its
\* own bindings from its ini file.
KeysInit ==
    /\ down = {} /\ told = {}
    /\ m_keys = [k \in Macros |-> [rawState |-> FALSE, gameState |-> FALSE,
                                   insertedState |-> FALSE, hold |-> FALSE,
                                   tap |-> FALSE, disable |-> {}]]
    /\ keyBinds \in {b \in Binds : Distinct(b)}
    /\ mouseBinds \in {b \in [Controls -> 0 .. NumButtons - 1 \cup {Unbound}] : Distinct(b)}
    /\ s_disabledControls = [c \in Controls |-> {}]

-----------------------------------------------------------------------------
(* The game polls a device. *)

Inserted(info) == "script" \notin info.disable /\ (info.hold \/ info.tap)

\* KeyInfo::Process returns whether the game sees the key down ...
KeyDown(info, keyDown) ==
    Inserted(info) \/ (keyDown /\ "user" \notin info.disable)

\* Mutant: the state is kept as it is before the script's keys are inserted.
ProcessBeforeInserting(info, keyDown) ==
    [info EXCEPT !.rawState = keyDown,
                 !.insertedState = Inserted(info),
                 !.tap = @ /\ "script" \in info.disable,
                 !.gameState = keyDown /\ "user" \notin info.disable]

\* Mutant: the tap is taken back whether it was inserted or not.
ProcessLosingTaps(info, keyDown) ==
    [info EXCEPT !.rawState = keyDown,
                 !.insertedState = Inserted(info),
                 !.tap = FALSE,
                 !.gameState = KeyDown(info, keyDown)]

\* ... and keeps it for scripts that ask.
Process(info, keyDown) ==
    [info EXCEPT !.rawState = keyDown,
                 !.insertedState = Inserted(info),
                 !.tap = @ /\ "script" \in info.disable,
                 !.gameState = KeyDown(info, keyDown)]

Processed(device) ==
    [k \in Macros |-> IF k \in device THEN Process(m_keys[k], k \in down) ELSE m_keys[k]]

\* What the device's data say once it has been processed.
Data(device) == {k \in device : KeyDown(m_keys[k], k \in down)}

PollKeyboard ==
    /\ m_keys' = Processed(Keyboard)
    /\ told' = (told \ Keyboard) \cup Data(Keyboard)
    /\ UNCHANGED <<down, binds, s_disabledControls>>

\* "wheel state not transferred back": of the wheel the game is told what the
\* device says.  The wheel moves one way and has done so when it is polled.
PollMouse ==
    /\ m_keys' = Processed(Buttons \cup Wheel)
    /\ told' = (told \ (Buttons \cup Wheel))
                   \cup Data(Buttons) \cup (down \cap Wheel)
    /\ down' = down \ Wheel
    /\ UNCHANGED <<binds, s_disabledControls>>

\* The user.
Press(k) ==
    /\ k \notin down /\ (k \in Wheel => down \cap Wheel = {})
    /\ down' = down \cup {k}
    /\ UNCHANGED <<m_keys, told, binds, s_disabledControls>>

LetGo(k) ==
    /\ k \in down \ Wheel
    /\ down' = down \ {k}
    /\ UNCHANGED <<m_keys, told, binds, s_disabledControls>>

-----------------------------------------------------------------------------
(* Scripts' commands on keys.  A mask of 0 stands for both. *)

IsKeycodeValid(code) == code < kMaxMacros - 2 /\ code # Unbound

\* IsKeyPressed, of a valid code
IsKeyPressed(k, flags) ==
    LET asked == IF flags = {} THEN {"GameState"} ELSE flags
        info == m_keys[k]
    IN  /\ \/ "GameState" \in asked /\ info.gameState
           \/ "RawState" \in asked /\ info.rawState
           \/ "InsertedState" \in asked /\ info.insertedState
        /\ ~("IgnoreDisabled_User" \in asked /\ "user" \in info.disable)
        /\ ~("IgnoreDisabled_Script" \in asked /\ "script" \in info.disable)

TapKey(code) ==
    /\ m_keys' = IF code < kMaxMacros THEN [m_keys EXCEPT ![code].tap = TRUE] ELSE m_keys
    /\ UNCHANGED <<down, told, binds, s_disabledControls>>

\* HoldKey and ReleaseKey
SetKeyHeldState(code, hold) ==
    /\ m_keys' = IF code < kMaxMacros THEN [m_keys EXCEPT ![code].hold = hold] ELSE m_keys
    /\ UNCHANGED <<down, told, binds, s_disabledControls>>

WithDisable(infos, code, disable, mask) ==
    LET masked == IF mask = {} THEN Disables ELSE mask
    IN  IF code < kMaxMacros
        THEN [infos EXCEPT ![code].disable = IF disable THEN @ \cup masked ELSE @ \ masked]
        ELSE infos

\* DisableKey and EnableKey
SetKeyDisableState(code, disable, mask) ==
    /\ m_keys' = WithDisable(m_keys, code, disable, mask)
    /\ UNCHANGED <<down, told, binds, s_disabledControls>>

-----------------------------------------------------------------------------
(* Scripts' commands on controls.  A control without a key has the code 0xFF *)
(* on either device, which is a keyboard code that no key has.               *)

ControlKey(ctrl) == keyBinds[ctrl]
ControlButton(ctrl) ==
    IF mouseBinds[ctrl] = Unbound THEN Unbound ELSE mouseBinds[ctrl] + kMacro_MouseButtonOffset

\* DisableControl and EnableControl
SetControlDisableState(ctrl, disable, mask) ==
    /\ s_disabledControls' =
           [s_disabledControls EXCEPT ![ctrl] = IF disable THEN @ \cup mask ELSE @ \ mask]
    /\ m_keys' = WithDisable(WithDisable(m_keys, ControlKey(ctrl), disable, mask),
                             ControlButton(ctrl), disable, mask)
    /\ UNCHANGED <<down, told, binds>>

TapControl(ctrl) ==
    LET code == IF IsKeycodeValid(ControlButton(ctrl)) THEN ControlButton(ctrl)
                ELSE ControlKey(ctrl)
    IN  /\ IsKeycodeValid(code)
        /\ TapKey(code)

\* Mutant: the other control of the key keeps it.
RebindLeavingOther(b, ctrl, code) ==
    LET keycode == IF code >= ByteSize THEN code - ByteSize ELSE code
    IN  [b EXCEPT ![ctrl] = keycode % ByteSize]

\* SetControl on one array: the first control that has the key gets the old one.
\* The code is compared in full and stored in a byte.
Rebind(b, ctrl, code) ==
    LET keycode == IF code >= ByteSize THEN code - ByteSize ELSE code
        having == {c \in Controls : b[c] = keycode}
        swapped == IF having = {} THEN b ELSE [b EXCEPT ![Min(having)] = b[ctrl]]
    IN  [swapped EXCEPT ![ctrl] = keycode % ByteSize]

SetControl(ctrl, code) ==
    /\ keyBinds' = Rebind(keyBinds, ctrl, code)
    /\ UNCHANGED <<down, m_keys, told, mouseBinds, s_disabledControls>>

SetAltControl(ctrl, code) ==
    /\ mouseBinds' = Rebind(mouseBinds, ctrl, code)
    /\ UNCHANGED <<down, m_keys, told, keyBinds, s_disabledControls>>

-----------------------------------------------------------------------------

User == \E k \in Pressable : Press(k) \/ LetGo(k)

OnKeys ==
    \E code \in Codes :
        \/ TapKey(code)
        \/ \E hold \in BOOLEAN : SetKeyHeldState(code, hold)
        \/ \E disable \in BOOLEAN, mask \in SUBSET Disables :
               SetKeyDisableState(code, disable, mask)

OnControls ==
    \E ctrl \in Controls :
        \/ TapControl(ctrl)
        \/ \E disable \in BOOLEAN, mask \in SUBSET Disables :
               SetControlDisableState(ctrl, disable, mask)
        \/ \E code \in Codes : SetControl(ctrl, code) \/ SetAltControl(ctrl, code)

KeysNext ==
    \/ PollKeyboard
    \/ PollMouse
    \/ User
    \/ OnKeys
    \/ OnControls

KeysSpec == KeysInit /\ [][KeysNext]_keyVars

-----------------------------------------------------------------------------
(* Properties. *)

\* A script that asks for the state of a key without flags is told what the
\* game was told: "state sent to the game last update".  The wheel is left out:
\* its state is not sent.
ScriptsSeeWhatTheGameSees ==
    \A k \in Macros \ Wheel : IsKeyPressed(k, {}) <=> k \in told

\* Rebinding controls one by one never leaves two controls with one key:
\* "if specified key already used by another control, swap with the new one".
\* (With codes of 2 * 256 and more it does.)
BindingsAreDistinct == Distinct(keyBinds) /\ Distinct(mouseBinds)

\* A tap is over only when the game has been told that the key is down, whatever
\* is done to the key between the command and the poll: while scripts are kept
\* from the key it waits.  Of the wheel the game is not told.
TapsAreNotLost ==
    [][\A k \in Macros \ Wheel : m_keys[k].tap /\ ~m_keys'[k].tap => k \in told']_keyVars

=============================================================================
