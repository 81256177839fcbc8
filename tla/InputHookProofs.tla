-------------------------- MODULE InputHookProofs --------------------------
(***************************************************************************)
(* Proofs about InputHook for any number of keys, buttons and controls and *)
(* any codes: types, what scripts are told of a key against what the game  *)
(* was told, taps that wait for a poll, and, for codes below twice the     *)
(* byte's values, that rebinding keeps the controls' keys distinct; of     *)
(* MenuInput, that reads stay within the room the game has for them; and   *)
(* of Input, that both hold together.                                      *)
(***************************************************************************)
EXTENDS Input, WellFoundedInduction, TLAPS

\* A key that a command changes is told to scripts as before.
Told == \A k \in Macros \ Wheel : m_keys[k].gameState <=> k \in told

\* A command may ask for a tap, and only a poll takes it back.
TapsKept == \A k \in Macros : m_keys[k].tap => m_keys'[k].tap

-----------------------------------------------------------------------------
(* The keys. *)

LEMMA Codings ==
    /\ ByteSize \in Nat \ {0} /\ NumButtons \in Nat /\ MaxControlBinds \in Nat
    /\ kMaxMacros \in Nat /\ kMaxMacros = ByteSize + NumButtons + 2
    /\ Keyboard \subseteq Macros /\ Buttons \subseteq Macros /\ Wheel \subseteq Macros
    /\ \A k \in Macros : k \in Keyboard \/ k \in Buttons \/ k \in Wheel
    /\ Keyboard \cap Buttons = {} /\ Keyboard \cap Wheel = {} /\ Buttons \cap Wheel = {}
    /\ Unbound \in 0 .. ByteSize - 1
BY SizesAssumption DEF kMaxMacros, kMacro_MouseWheelOffset, kMacro_MouseButtonOffset,
                       Macros, Keyboard, Buttons, Wheel, Unbound

\* What a poll leaves of a key.
LEMMA ProcessKeyInfo ==
    ASSUME NEW info \in KeyInfo, NEW keyDown \in BOOLEAN
    PROVE  /\ Process(info, keyDown) \in KeyInfo
           /\ Process(info, keyDown).gameState <=> KeyDown(info, keyDown)
           /\ info.tap /\ ~Process(info, keyDown).tap => KeyDown(info, keyDown)
BY DEF Process, KeyInfo, KeyDown, Inserted
\* The commands leave what a key is told as, and its taps.
LEMMA DisableKeepsState ==
    ASSUME NEW infos \in [Macros -> KeyInfo], NEW code \in Nat,
           NEW disable \in BOOLEAN, NEW mask \in SUBSET Disables
    PROVE  LET new == WithDisable(infos, code, disable, mask)
           IN  /\ new \in [Macros -> KeyInfo]
               /\ \A k \in Macros : /\ new[k].gameState <=> infos[k].gameState
                                    /\ infos[k].tap <=> new[k].tap
<1> DEFINE masked == IF mask = {} THEN Disables ELSE mask
           kept == [infos[code] EXCEPT !.disable = IF disable THEN @ \cup masked ELSE @ \ masked]
           new == WithDisable(infos, code, disable, mask)
<1>1. CASE code < kMaxMacros
  <2>1. code \in Macros
    BY <1>1, Codings DEF Macros
  <2>2. infos[code] \in KeyInfo /\ masked \in SUBSET Disables
    BY <2>1
  <2> HIDE DEF masked
  <2>3. /\ kept \in KeyInfo /\ (kept.gameState <=> infos[code].gameState)
        /\ (kept.tap <=> infos[code].tap)
    BY <2>2 DEF KeyInfo
  <2>4. new = [infos EXCEPT ![code] = kept]
    BY <1>1 DEF WithDisable, masked
  <2> HIDE DEF kept, new
  <2>5. /\ new \in [Macros -> KeyInfo]
        /\ \A k \in Macros : new[k] = IF k = code THEN kept ELSE infos[k]
    BY <2>1, <2>3, <2>4
  <2> QED
    BY <2>3, <2>5 DEF new
<1>2. CASE ~(code < kMaxMacros)
  BY <1>2 DEF WithDisable
<1> QED
  BY <1>1, <1>2

LEMMA TapKeyTypes ==
    ASSUME KeysTypeOK, NEW code \in Nat, TapKey(code)
    PROVE  /\ m_keys' \in [Macros -> KeyInfo] /\ TapsKept
           /\ \A k \in Macros : m_keys'[k].gameState <=> m_keys[k].gameState
<1> DEFINE kept == [m_keys[code] EXCEPT !.tap = TRUE]
<1>1. m_keys \in [Macros -> KeyInfo]
  BY DEF KeysTypeOK
<1>2. CASE code < kMaxMacros
  <2>1. code \in Macros
    BY <1>2, Codings DEF Macros
  <2>2. kept \in KeyInfo /\ (kept.gameState <=> m_keys[code].gameState) /\ kept.tap
    BY <1>1, <2>1 DEF KeyInfo
  <2>3. m_keys' = [m_keys EXCEPT ![code] = kept]
    BY <1>2 DEF TapKey
  <2> HIDE DEF kept
  <2>4. /\ m_keys' \in [Macros -> KeyInfo]
        /\ \A k \in Macros : m_keys'[k] = IF k = code THEN kept ELSE m_keys[k]
    BY <1>1, <2>1, <2>2, <2>3
  <2> QED
    BY <2>2, <2>4 DEF TapsKept
<1>3. CASE ~(code < kMaxMacros)
  BY <1>1, <1>3 DEF TapKey, TapsKept
<1> QED
  BY <1>2, <1>3

LEMMA HeldStateTypes ==
    ASSUME KeysTypeOK, NEW code \in Nat, NEW hold \in BOOLEAN, SetKeyHeldState(code, hold)
    PROVE  /\ m_keys' \in [Macros -> KeyInfo] /\ TapsKept
           /\ \A k \in Macros : m_keys'[k].gameState <=> m_keys[k].gameState
<1> DEFINE kept == [m_keys[code] EXCEPT !.hold = hold]
<1>1. m_keys \in [Macros -> KeyInfo]
  BY DEF KeysTypeOK
<1>2. CASE code < kMaxMacros
  <2>1. code \in Macros
    BY <1>2, Codings DEF Macros
  <2>2. /\ kept \in KeyInfo /\ (kept.gameState <=> m_keys[code].gameState)
        /\ (kept.tap <=> m_keys[code].tap)
    BY <1>1, <2>1 DEF KeyInfo
  <2>3. m_keys' = [m_keys EXCEPT ![code] = kept]
    BY <1>2 DEF SetKeyHeldState
  <2> HIDE DEF kept
  <2>4. /\ m_keys' \in [Macros -> KeyInfo]
        /\ \A k \in Macros : m_keys'[k] = IF k = code THEN kept ELSE m_keys[k]
    BY <1>1, <2>1, <2>2, <2>3
  <2> QED
    BY <2>2, <2>4 DEF TapsKept
<1>3. CASE ~(code < kMaxMacros)
  BY <1>1, <1>3 DEF SetKeyHeldState, TapsKept
<1> QED
  BY <1>2, <1>3

\* A poll of a device: its keys are processed, the others left.
LEMMA PollTypes ==
    ASSUME m_keys \in [Macros -> KeyInfo], NEW device \in SUBSET Macros,
           m_keys' = Processed(device)
    PROVE  /\ m_keys' \in [Macros -> KeyInfo]
           /\ \A k \in Macros \ device : m_keys'[k] = m_keys[k]
           /\ \A k \in device :
                 /\ m_keys'[k].gameState <=> KeyDown(m_keys[k], k \in down)
                 /\ m_keys[k].tap /\ ~m_keys'[k].tap => KeyDown(m_keys[k], k \in down)
<1>1. m_keys' = [k \in Macros |-> IF k \in device THEN Process(m_keys[k], k \in down)
                                                ELSE m_keys[k]]
  BY DEF Processed
<1>2. ASSUME NEW k \in Macros
      PROVE  /\ Process(m_keys[k], k \in down) \in KeyInfo
             /\ Process(m_keys[k], k \in down).gameState <=> KeyDown(m_keys[k], k \in down)
             /\ m_keys[k].tap /\ ~Process(m_keys[k], k \in down).tap
                  => KeyDown(m_keys[k], k \in down)
  <2>1. m_keys[k] \in KeyInfo /\ (k \in down) \in BOOLEAN
    OBVIOUS
  <2> QED
    BY <2>1, ProcessKeyInfo
<1> QED
  BY <1>1, <1>2
-----------------------------------------------------------------------------
(* The bindings. *)

\* A set of controls that is not empty has a first one.
LEMMA FirstControl ==
    ASSUME NEW S \in SUBSET Controls, S # {}
    PROVE  Min(S) \in S
<1>1. S \subseteq Nat
  BY Codings DEF Controls
<1>2. \E c \in S : \A d \in S : ~(<<d, c>> \in OpToRel(<, Nat))
  BY <1>1, NatLessThanWellFounded, WFMin
<1>3. PICK c \in S : \A d \in S : ~(<<d, c>> \in OpToRel(<, Nat))
  BY <1>2
<1>4. \A d \in S : <<d, c>> \in Nat \X Nat /\ <<d, c>>[1] = d /\ <<d, c>>[2] = c
  BY <1>1
<1>5. \A d \in S : ~(d < c)
  BY <1>3, <1>4 DEF OpToRel
<1>6. \A d \in S : c <= d
  BY <1>1, <1>5
<1> QED
  BY <1>6 DEF Min

LEMMA RebindTypes ==
    ASSUME NEW b \in Binds, NEW ctrl \in Controls, NEW code \in Nat
    PROVE  Rebind(b, ctrl, code) \in Binds
<1> DEFINE keycode == IF code >= ByteSize THEN code - ByteSize ELSE code
           having == {c \in Controls : b[c] = keycode}
           swapped == IF having = {} THEN b ELSE [b EXCEPT ![Min(having)] = b[ctrl]]
<1>1. keycode \in Nat /\ ByteSize \in Nat \ {0}
  BY Codings
<1>2. Rebind(b, ctrl, code) = [swapped EXCEPT ![ctrl] = keycode % ByteSize]
  BY DEF Rebind
<1> HIDE DEF keycode, having
<1>3. keycode % ByteSize \in 0 .. ByteSize - 1
  BY <1>1
<1>4. swapped \in Binds
  BY DEF Binds
<1> HIDE DEF swapped
<1> QED
  BY <1>2, <1>3, <1>4 DEF Binds

LEMMA RebindKeepsDistinct ==
    ASSUME NEW b \in Binds, Distinct(b), NEW ctrl \in Controls,
           NEW code \in Nat, code < 2 * ByteSize
    PROVE  Distinct(Rebind(b, ctrl, code))
<1> DEFINE keycode == IF code >= ByteSize THEN code - ByteSize ELSE code
           having == {c \in Controls : b[c] = keycode}
           first == Min(having)
           swapped == IF having = {} THEN b ELSE [b EXCEPT ![first] = b[ctrl]]
           new == Rebind(b, ctrl, code)
<1>1. keycode \in Nat /\ keycode < ByteSize /\ ByteSize \in Nat \ {0}
  BY Codings
<1>2. new = [swapped EXCEPT ![ctrl] = keycode % ByteSize]
  BY DEF Rebind
<1>3. \A c \in Controls : c \in having <=> b[c] = keycode
  OBVIOUS
<1>4. having \in SUBSET Controls
  OBVIOUS
<1> HIDE DEF keycode, having, new
<1>5. keycode % ByteSize = keycode
  BY <1>1
<1>6. CASE having = {}
  <2>1. \A c \in Controls : new[c] = IF c = ctrl THEN keycode ELSE b[c]
    BY <1>2, <1>5, <1>6 DEF Binds
  <2> QED
    BY <1>3, <1>6, <2>1 DEF Distinct, new
<1>7. CASE having # {}
  <2>1. first \in Controls /\ b[first] = keycode
    BY <1>3, <1>4, <1>7, FirstControl
  <2> HIDE DEF first
  <2>2. \A c \in Controls : new[c] = IF c = ctrl THEN keycode
                                    ELSE IF c = first THEN b[ctrl] ELSE b[c]
    BY <1>2, <1>5, <1>7, <2>1 DEF Binds
  <2>3. \A c, d \in Controls : b[c] = b[d] => c = d \/ b[c] = Unbound
    BY DEF Distinct
  <2> SUFFICES ASSUME NEW c \in Controls, NEW d \in Controls, new[c] = new[d]
               PROVE  c = d \/ new[c] = Unbound
    BY DEF Distinct, new
  <2> QED
    BY <2>1, <2>2, <2>3
<1> QED
  BY <1>6, <1>7

-----------------------------------------------------------------------------
(* Every step. *)

LEMMA ControlCodes ==
    ASSUME KeysTypeOK, NEW ctrl \in Controls
    PROVE  ControlKey(ctrl) \in Nat /\ ControlButton(ctrl) \in Nat
<1>1. keyBinds[ctrl] \in 0 .. ByteSize - 1 /\ mouseBinds[ctrl] \in 0 .. ByteSize - 1
  BY DEF KeysTypeOK, Binds
<1> QED
  BY <1>1, Codings DEF ControlKey, ControlButton, kMacro_MouseButtonOffset

\* What a step may do to taps: see TapsAreNotLost.
TapStep == \A k \in Macros \ Wheel : m_keys[k].tap /\ ~m_keys'[k].tap => k \in told'

LEMMA CommandStep ==
    ASSUME KeysTypeOK, Told, UNCHANGED <<down, told>>,
           keyBinds' \in Binds, mouseBinds' \in Binds,
           s_disabledControls' \in [Controls -> SUBSET Disables],
           m_keys' \in [Macros -> KeyInfo], TapsKept,
           \A k \in Macros : m_keys'[k].gameState <=> m_keys[k].gameState
    PROVE  KeysTypeOK' /\ Told' /\ TapStep
BY DEF KeysTypeOK, Told, TapsKept, TapStep

LEMMA PollStep ==
    ASSUME KeysTypeOK, Told, PollKeyboard \/ PollMouse
    PROVE  KeysTypeOK' /\ Told' /\ TapStep
<1>1. m_keys \in [Macros -> KeyInfo] /\ told \subseteq Macros /\ down \subseteq Pressable
  BY DEF KeysTypeOK
<1>2. CASE PollKeyboard
  <2>1. /\ m_keys' \in [Macros -> KeyInfo]
        /\ \A k \in Macros \ Keyboard : m_keys'[k] = m_keys[k]
        /\ \A k \in Keyboard :
              /\ m_keys'[k].gameState <=> KeyDown(m_keys[k], k \in down)
              /\ m_keys[k].tap /\ ~m_keys'[k].tap => KeyDown(m_keys[k], k \in down)
    BY <1>1, <1>2, PollTypes, Codings DEF PollKeyboard
  <2>2. /\ told' \subseteq Macros
        /\ \A k \in Keyboard : k \in told' <=> KeyDown(m_keys[k], k \in down)
        /\ \A k \in Macros \ Keyboard : k \in told' <=> k \in told
    BY <1>1, <1>2, Codings DEF PollKeyboard, Data
  <2>3. KeysTypeOK'
    BY <1>2, <2>1, <2>2 DEF KeysTypeOK, PollKeyboard, binds
  <2> QED
    BY <2>1, <2>2, <2>3 DEF Told, TapStep
<1>3. CASE PollMouse
  <2> DEFINE device == Buttons \cup Wheel
  <2>1. /\ m_keys' \in [Macros -> KeyInfo]
        /\ \A k \in Macros \ device : m_keys'[k] = m_keys[k]
        /\ \A k \in device :
              /\ m_keys'[k].gameState <=> KeyDown(m_keys[k], k \in down)
              /\ m_keys[k].tap /\ ~m_keys'[k].tap => KeyDown(m_keys[k], k \in down)
    <3>1. device \in SUBSET Macros /\ m_keys' = Processed(device)
      BY <1>3, Codings DEF PollMouse
    <3> QED
      BY <1>1, <3>1, PollTypes
  <2>2. /\ told' \subseteq Macros
        /\ \A k \in Buttons : k \in told' <=> KeyDown(m_keys[k], k \in down)
        /\ \A k \in Macros \ device : k \in told' <=> k \in told
    BY <1>1, <1>3, Codings DEF PollMouse, Data
  <2>3. KeysTypeOK'
    BY <1>1, <1>3, <2>1, <2>2 DEF KeysTypeOK, PollMouse, binds
  <2> QED
    BY <2>1, <2>2, <2>3, Codings DEF Told, TapStep
<1> QED
  BY <1>2, <1>3
LEMMA OnKeysStep ==
    ASSUME KeysTypeOK, Told, OnKeys
    PROVE  KeysTypeOK' /\ Told' /\ TapStep
<1>1. PICK code \in Codes :
         \/ TapKey(code)
         \/ \E hold \in BOOLEAN : SetKeyHeldState(code, hold)
         \/ \E disable \in BOOLEAN, mask \in SUBSET Disables :
                SetKeyDisableState(code, disable, mask)
  BY DEF OnKeys
<1>2. code \in Nat /\ m_keys \in [Macros -> KeyInfo]
  BY CodesAssumption DEF KeysTypeOK
<1>3. /\ m_keys' \in [Macros -> KeyInfo] /\ TapsKept
      /\ \A k \in Macros : m_keys'[k].gameState <=> m_keys[k].gameState
  <2>1. CASE TapKey(code)
    BY <1>2, <2>1, TapKeyTypes
  <2>2. CASE \E hold \in BOOLEAN : SetKeyHeldState(code, hold)
    BY <1>2, <2>2, HeldStateTypes
  <2>3. CASE \E disable \in BOOLEAN, mask \in SUBSET Disables :
                SetKeyDisableState(code, disable, mask)
    BY <1>2, <2>3, DisableKeepsState DEF SetKeyDisableState, TapsKept
  <2> QED
    BY <1>1, <2>1, <2>2, <2>3
<1>4. UNCHANGED <<down, told, keyBinds, mouseBinds, s_disabledControls>>
  BY <1>1 DEF TapKey, SetKeyHeldState, SetKeyDisableState, binds
<1> QED
  BY <1>3, <1>4, CommandStep DEF KeysTypeOK

LEMMA OnControlsStep ==
    ASSUME KeysTypeOK, Told, OnControls
    PROVE  KeysTypeOK' /\ Told' /\ TapStep
<1>1. PICK ctrl \in Controls :
         \/ TapControl(ctrl)
         \/ \E disable \in BOOLEAN, mask \in SUBSET Disables :
                SetControlDisableState(ctrl, disable, mask)
         \/ \E code \in Codes : SetControl(ctrl, code) \/ SetAltControl(ctrl, code)
  BY DEF OnControls
<1>2. /\ m_keys \in [Macros -> KeyInfo] /\ keyBinds \in Binds /\ mouseBinds \in Binds
      /\ s_disabledControls \in [Controls -> SUBSET Disables]
  BY DEF KeysTypeOK
<1>3. ControlKey(ctrl) \in Nat /\ ControlButton(ctrl) \in Nat
  BY ControlCodes
<1>4. CASE TapControl(ctrl)
  <2>1. PICK code \in Nat : TapKey(code)
    BY <1>3, <1>4 DEF TapControl
  <2>2. /\ m_keys' \in [Macros -> KeyInfo] /\ TapsKept
        /\ \A k \in Macros : m_keys'[k].gameState <=> m_keys[k].gameState
    BY <2>1, TapKeyTypes
  <2>3. UNCHANGED <<down, told, keyBinds, mouseBinds, s_disabledControls>>
    BY <2>1 DEF TapKey, binds
  <2> QED
    BY <1>2, <2>2, <2>3, CommandStep
<1>5. CASE \E disable \in BOOLEAN, mask \in SUBSET Disables :
              SetControlDisableState(ctrl, disable, mask)
  <2>1. PICK disable \in BOOLEAN, mask \in SUBSET Disables :
           SetControlDisableState(ctrl, disable, mask)
    BY <1>5
  <2> DEFINE once == WithDisable(m_keys, ControlKey(ctrl), disable, mask)
  <2>2. /\ once \in [Macros -> KeyInfo]
        /\ \A k \in Macros : /\ once[k].gameState <=> m_keys[k].gameState
                             /\ m_keys[k].tap <=> once[k].tap
    BY <1>2, <1>3, DisableKeepsState
  <2>3. m_keys' = WithDisable(once, ControlButton(ctrl), disable, mask)
    BY <2>1 DEF SetControlDisableState
  <2> HIDE DEF once
  <2>4. /\ m_keys' \in [Macros -> KeyInfo]
        /\ \A k \in Macros : /\ m_keys'[k].gameState <=> once[k].gameState
                             /\ once[k].tap <=> m_keys'[k].tap
    BY <1>3, <2>2, <2>3, DisableKeepsState
  <2>5. TapsKept /\ \A k \in Macros : m_keys'[k].gameState <=> m_keys[k].gameState
    BY <2>2, <2>4 DEF TapsKept
  <2>6. /\ s_disabledControls' \in [Controls -> SUBSET Disables]
        /\ UNCHANGED <<down, told, keyBinds, mouseBinds>>
    BY <1>2, <2>1 DEF SetControlDisableState, binds
  <2> QED
    BY <1>2, <2>4, <2>5, <2>6, CommandStep
<1>6. CASE \E code \in Codes : SetControl(ctrl, code) \/ SetAltControl(ctrl, code)
  <2>1. keyBinds' \in Binds /\ mouseBinds' \in Binds
    BY <1>2, <1>6, RebindTypes, CodesAssumption DEF SetControl, SetAltControl
  <2>2. UNCHANGED <<down, told, m_keys, s_disabledControls>>
    BY <1>6 DEF SetControl, SetAltControl
  <2> QED
    BY <1>2, <2>1, <2>2, CommandStep DEF TapsKept
<1> QED
  BY <1>1, <1>4, <1>5, <1>6

LEMMA KeysStep ==
    ASSUME KeysTypeOK, Told, [KeysNext]_keyVars
    PROVE  KeysTypeOK' /\ Told' /\ TapStep
<1>1. CASE User
  <2>1. PICK k \in Pressable : Press(k) \/ LetGo(k)
    BY <1>1 DEF User
  <2> QED
    BY <2>1 DEF Press, LetGo, KeysTypeOK, Told, TapStep, binds
<1>2. CASE UNCHANGED keyVars
  BY <1>2 DEF keyVars, binds, KeysTypeOK, Told, TapStep
<1> QED
  BY <1>1, <1>2, PollStep, OnKeysStep, OnControlsStep DEF KeysNext

LEMMA KeysInitial == KeysInit => KeysTypeOK /\ Told
<1> SUFFICES ASSUME KeysInit PROVE KeysTypeOK /\ Told
  OBVIOUS
<1> DEFINE info == [rawState |-> FALSE, gameState |-> FALSE, insertedState |-> FALSE,
                    hold |-> FALSE, tap |-> FALSE, disable |-> {}]
<1>1. info \in KeyInfo /\ ~info.gameState
  BY DEF KeyInfo
<1>2. m_keys = [k \in Macros |-> info] /\ down = {} /\ told = {}
  BY DEF KeysInit
<1> HIDE DEF info
<1>3. m_keys \in [Macros -> KeyInfo] /\ Told
  BY <1>1, <1>2 DEF Told
<1>4. keyBinds \in Binds /\ mouseBinds \in Binds
  <2>1. 0 .. NumButtons - 1 \cup {Unbound} \subseteq 0 .. ByteSize - 1
    BY SizesAssumption, Codings
  <2>2. /\ keyBinds \in Binds
        /\ mouseBinds \in [Controls -> 0 .. NumButtons - 1 \cup {Unbound}]
    BY DEF KeysInit
  <2> QED
    BY <2>1, <2>2 DEF Binds
<1>5. s_disabledControls \in [Controls -> SUBSET Disables]
  BY DEF KeysInit
<1> QED
  BY <1>2, <1>3, <1>4, <1>5 DEF KeysTypeOK

\* Types and what keys are told as, which each step needs of the other.
THEOREM KeysInductive == KeysSpec => [](KeysTypeOK /\ Told)
<1> QED
  BY KeysInitial, KeysStep, PTL DEF KeysSpec

\* Every variable has its type, whatever codes scripts pass.
THEOREM KeysTypeCorrect == KeysSpec => []KeysTypeOK
<1> QED
  BY KeysInductive, PTL

\* A script that asks is told what the game was told at the last poll.
THEOREM ScriptsAreToldTheSame == KeysSpec => []ScriptsSeeWhatTheGameSees
<1>1. Told => ScriptsSeeWhatTheGameSees
  BY DEF Told, ScriptsSeeWhatTheGameSees, IsKeyPressed
<1> QED
  BY <1>1, KeysInductive, PTL

\* A tap ends in a poll that says the key is down.
THEOREM TapsArrive == KeysSpec => TapsAreNotLost
<1>1. KeysTypeOK /\ Told /\ [KeysNext]_keyVars
        => [\A k \in Macros \ Wheel : m_keys[k].tap /\ ~m_keys'[k].tap => k \in told']_keyVars
  BY KeysStep DEF TapStep
<1> QED
  BY <1>1, KeysInductive, PTL DEF KeysSpec, TapsAreNotLost

\* Rebinding to codes below twice the byte's values keeps keys distinct.
THEOREM BindingsStayDistinct ==
    ASSUME \A code \in Codes : code < 2 * ByteSize
    PROVE  KeysSpec => []BindingsAreDistinct
<1>1. KeysInit => BindingsAreDistinct
  BY DEF KeysInit, BindingsAreDistinct
<1>2. ASSUME KeysTypeOK, BindingsAreDistinct, [KeysNext]_keyVars
      PROVE  BindingsAreDistinct'
  <2>1. keyBinds \in Binds /\ mouseBinds \in Binds
    BY <1>2 DEF KeysTypeOK
  <2>2. CASE UNCHANGED <<keyBinds, mouseBinds>>
    BY <1>2, <2>2 DEF BindingsAreDistinct, Distinct
  <2>3. ASSUME NEW ctrl \in Controls, NEW code \in Codes,
               SetControl(ctrl, code) \/ SetAltControl(ctrl, code)
        PROVE  BindingsAreDistinct'
    <3>1. code \in Nat /\ code < 2 * ByteSize
      BY CodesAssumption
    <3>2. /\ Distinct(Rebind(keyBinds, ctrl, code))
          /\ Distinct(Rebind(mouseBinds, ctrl, code))
      BY <1>2, <2>1, <3>1, RebindKeepsDistinct DEF BindingsAreDistinct
    <3>3. \/ keyBinds' = Rebind(keyBinds, ctrl, code) /\ mouseBinds' = mouseBinds
          \/ mouseBinds' = Rebind(mouseBinds, ctrl, code) /\ keyBinds' = keyBinds
      BY <2>3 DEF SetControl, SetAltControl
    <3>4. Distinct(keyBinds) /\ Distinct(mouseBinds)
      BY <1>2 DEF BindingsAreDistinct
    <3> QED
      BY <3>2, <3>3, <3>4 DEF BindingsAreDistinct, Distinct
  <2>4. \/ UNCHANGED <<keyBinds, mouseBinds>>
        \/ \E ctrl \in Controls, code \in Codes :
              SetControl(ctrl, code) \/ SetAltControl(ctrl, code)
    BY <1>2 DEF KeysNext, keyVars, binds, PollKeyboard, PollMouse, User, Press, LetGo,
                OnKeys, TapKey, SetKeyHeldState, SetKeyDisableState, OnControls,
                TapControl, SetControlDisableState
  <2> QED
    BY <2>2, <2>3, <2>4
<1> QED
  BY <1>1, <1>2, KeysTypeCorrect, PTL DEF KeysSpec

-----------------------------------------------------------------------------
(* The presses menus read, from the two devices' reads and the one queue.  *)

\* What is taken off a queue and what stays are its parts.
LEMMA Parts ==
    ASSUME NEW S, NEW s \in Seq(S), NEW n \in 0 .. Len(s)
    PROVE  /\ Menus!First(s, n) \in Seq(S) /\ Len(Menus!First(s, n)) = n
           /\ Menus!Rest(s, n) \in Seq(S)
BY DEF Menus!First, Menus!Rest

LEMMA SmallerIs ==
    ASSUME NEW m \in Nat, NEW n \in Nat
    PROVE  /\ Menus!Smaller(m, n) \in Nat
           /\ Menus!Smaller(m, n) <= m /\ Menus!Smaller(m, n) <= n
BY DEF Menus!Smaller

\* A read takes no more than there is and than there is room for.
LEMMA ReadFits ==
    ASSUME Menus!TypeOK, NEW d \in Devices, NEW size \in Nat, Menus!Read(d, size)
    PROVE  Menus!TypeOK'
<1> DEFINE numReal == Menus!Smaller(size, Len(pending[d]))
           numVirtual == Menus!VirtualEvents(size, numReal)
           real == Menus!First(pending[d], numReal)
           taken == Menus!First(m_bufferedPresses, numVirtual)
<1>1. pending[d] \in Seq(UserEvents) /\ m_bufferedPresses \in Seq(Menus!Presses)
  BY DEF Menus!TypeOK
<1>2. Len(pending[d]) \in Nat /\ Len(m_bufferedPresses) \in Nat
  BY <1>1
<1>3. numReal \in Nat /\ numReal <= size /\ numReal <= Len(pending[d])
  BY <1>2, SmallerIs
<1>4. /\ numVirtual \in Nat /\ numVirtual <= Len(m_bufferedPresses)
      /\ numReal + numVirtual <= size
  <2>1. size - numReal \in Nat
    BY <1>3
  <2>2. /\ numVirtual \in Nat /\ numVirtual <= Len(m_bufferedPresses)
        /\ numVirtual <= size - numReal
    BY <1>2, <2>1, SmallerIs DEF Menus!VirtualEvents
  <2> QED
    BY <1>3, <2>2
<1> HIDE DEF numReal, numVirtual
<1>5. /\ real \in Seq(UserEvents) /\ Len(real) = numReal
      /\ Menus!Rest(pending[d], numReal) \in Seq(UserEvents)
  BY <1>1, <1>2, <1>3, Parts
<1>6. /\ taken \in Seq(Menus!Presses) /\ Len(taken) = numVirtual
      /\ Menus!Rest(m_bufferedPresses, numVirtual) \in Seq(Menus!Presses)
  BY <1>1, <1>2, <1>4, Parts
<1>7. /\ pending' = [pending EXCEPT ![d] = Menus!Rest(@, numReal)]
      /\ m_bufferedPresses' = Menus!Rest(m_bufferedPresses, numVirtual)
      /\ read' = [size |-> size, real |-> real, taken |-> taken,
                  got |-> Menus!Reported(real, taken)]
  BY DEF Menus!Read, numReal, numVirtual
<1> HIDE DEF real, taken
<1>8. Len(Menus!Reported(real, taken)) = numReal + numVirtual
  BY <1>3, <1>4, <1>5, <1>6 DEF Menus!Reported
<1>9. pending' \in [Devices -> Seq(UserEvents)]
  BY <1>5, <1>7 DEF Menus!TypeOK
<1> QED
  BY <1>3, <1>4, <1>5, <1>6, <1>7, <1>8, <1>9 DEF Menus!TypeOK

\* Each step of the devices, of scripts and of the game keeps that.
LEMMA MenuStep ==
    ASSUME Sizes \subseteq Nat, Menus!TypeOK, [Menus!Next]_Menus!vars
    PROVE  Menus!TypeOK'
<1>1. ASSUME NEW d \in Devices, NEW event \in UserEvents, Menus!UserActs(d, event)
      PROVE  Menus!TypeOK'
  <2>1. pending' \in [Devices -> Seq(UserEvents)]
    BY <1>1 DEF Menus!UserActs, Menus!TypeOK
  <2> QED
    BY <1>1, <2>1 DEF Menus!UserActs, Menus!TypeOK
<1>2. ASSUME NEW key \in MenuKeys,
             Menus!MenuTapKey(key) \/ Menus!MenuHoldKey(key) \/ Menus!MenuReleaseKey(key)
      PROVE  Menus!TypeOK'
  <2>1. Menus!Down(key) \in Menus!Presses /\ Menus!Up(key) \in Menus!Presses
    BY DEF Menus!Down, Menus!Up, Menus!Presses
  <2>2. PICK presses : presses \in Seq(Menus!Presses) /\ Menus!Buffer(presses)
    <3> DEFINE down1 == <<Menus!Down(key)>>
               up1 == <<Menus!Up(key)>>
               both == <<Menus!Down(key), Menus!Up(key)>>
    <3>1. /\ down1 \in Seq(Menus!Presses) /\ up1 \in Seq(Menus!Presses)
          /\ both \in Seq(Menus!Presses)
      BY <2>1
    <3>2. Menus!Buffer(down1) \/ Menus!Buffer(up1) \/ Menus!Buffer(both)
      BY <1>2 DEF Menus!MenuTapKey, Menus!MenuHoldKey, Menus!MenuReleaseKey
    <3> HIDE DEF down1, up1, both
    <3> QED
      BY <3>1, <3>2
  <2>3. /\ m_bufferedPresses' = m_bufferedPresses \o presses
        /\ UNCHANGED <<pending, read>>
    BY <2>2 DEF Menus!Buffer
  <2>4. m_bufferedPresses' \in Seq(Menus!Presses)
    BY <2>2, <2>3 DEF Menus!TypeOK
  <2> QED
    BY <2>3, <2>4 DEF Menus!TypeOK
<1>3. ASSUME NEW d \in Devices, NEW size \in Sizes, Menus!Read(d, size)
      PROVE  Menus!TypeOK'
  BY <1>3, ReadFits
<1>4. ASSUME NEW d \in Devices, Menus!Flush(d)
      PROVE  Menus!TypeOK'
  <2>1. <<>> \in Seq(UserEvents) /\ <<>> \in Seq(Menus!Presses)
    OBVIOUS
  <2>2. pending' \in [Devices -> Seq(UserEvents)]
    BY <1>4, <2>1 DEF Menus!Flush, Menus!TypeOK
  <2> QED
    BY <1>4, <2>1, <2>2 DEF Menus!Flush, Menus!TypeOK
<1>5. CASE UNCHANGED Menus!vars
  BY <1>5 DEF Menus!vars, Menus!TypeOK
<1> QED
  BY <1>1, <1>2, <1>3, <1>4, <1>5 DEF Menus!Next

\* Nothing waits at first.
LEMMA MenuInitial == Menus!Init => Menus!TypeOK
BY DEF Menus!Init, Menus!TypeOK, Menus!Presses

\* Whatever devices and scripts queue, a read of either device reports as many
\* events as it took, and no more than the game has room for.
THEOREM ReadsFit ==
    ASSUME Sizes \subseteq Nat
    PROVE  Menus!Spec => []Menus!TypeOK
<1> QED
  BY MenuInitial, MenuStep, PTL DEF Menus!Spec

\* Both together: a poll, a command and a read leave the other's state alone.
THEOREM InputTypesCorrect ==
    ASSUME Sizes \subseteq Nat
    PROVE  InputSpec => []InputTypeOK
<1>1. InputInit => KeysTypeOK /\ Told /\ Menus!TypeOK
  BY KeysInitial, MenuInitial DEF InputInit
<1>2. ASSUME KeysTypeOK, Told, Menus!TypeOK, [InputNext]_<<keyVars, menuVars>>
      PROVE  (KeysTypeOK /\ Told /\ Menus!TypeOK)'
  <2>1. [KeysNext]_keyVars /\ [Menus!Next]_Menus!vars
    BY <1>2 DEF InputNext, menuVars, Menus!vars
  <2> QED
    BY <1>2, <2>1, KeysStep, MenuStep
<1>3. KeysTypeOK /\ Menus!TypeOK => InputTypeOK
  BY DEF InputTypeOK
<1> QED
  BY <1>1, <1>2, <1>3, PTL DEF InputSpec

=============================================================================
