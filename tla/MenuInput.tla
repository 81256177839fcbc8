------------------------------ MODULE MenuInput ------------------------------
(***************************************************************************)
(* The events the game reads in menus and the console: DIHookControl's     *)
(* queue of presses that scripts ask for (MenuTapKey, MenuHoldKey and      *)
(* MenuReleaseKey of nvse/nvse/Commands_Input.cpp), and ProcessBufferedData *)
(* (nvse/nvse/Hooks_DirectInput8Create.cpp), which hands them to the game  *)
(* behind the events of a device.  Both devices' reads take from the one   *)
(* queue.  Reads that peek and reads that fail change nothing; a peek that *)
(* wants data while a press is waiting halts the program, and is left out. *)
(***************************************************************************)
EXTENDS Integers, Sequences

CONSTANTS Devices,      \* the keyboard and the mouse
          UserEvents,   \* what the user does, on either
          Keys,         \* the keyboard keys scripts press
          Sizes,        \* how many events the game has room for in a read
          Garbage,      \* what the array held before
          MaxPending,   \* bound: a device's unread events
          MaxBuffered   \* bound: waiting presses

VARIABLES
    pending,            \* per device: its unread events
    m_bufferedPresses,
    read                \* the last read: its room, what it took, what the game got

vars == <<pending, m_bufferedPresses, read>>

Presses == [key : Keys, down : BOOLEAN]

\* A read reports as many events as it took, which the game's array has room for.
TypeOK ==
    /\ pending \in [Devices -> Seq(UserEvents)]
    /\ m_bufferedPresses \in Seq(Presses)
    /\ read.real \in Seq(UserEvents) /\ read.taken \in Seq(Presses)
    /\ Len(read.got) = Len(read.real) + Len(read.taken)
    /\ Len(read.got) <= read.size

Init ==
    /\ pending = [d \in Devices |-> <<>>]
    /\ m_bufferedPresses = <<>>
    /\ read = [size |-> 0, real |-> <<>>, taken |-> <<>>, got |-> <<>>]

-----------------------------------------------------------------------------
(* Who makes events. *)

UserActs(d, event) ==
    /\ Len(pending[d]) < MaxPending
    /\ pending' = [pending EXCEPT ![d] = Append(@, event)]
    /\ UNCHANGED <<m_bufferedPresses, read>>

Buffer(presses) ==
    /\ Len(m_bufferedPresses) + Len(presses) <= MaxBuffered
    /\ m_bufferedPresses' = m_bufferedPresses \o presses
    /\ UNCHANGED <<pending, read>>

Down(key) == [key |-> key, down |-> TRUE]
Up(key) == [key |-> key, down |-> FALSE]

MenuTapKey(key) == Buffer(<<Down(key), Up(key)>>)
MenuHoldKey(key) == Buffer(<<Down(key)>>)
MenuReleaseKey(key) == Buffer(<<Up(key)>>)

-----------------------------------------------------------------------------
(* The game reads: ProcessBufferedData without DIGDD_PEEK. *)

Smaller(m, n) == IF m < n THEN m ELSE n
First(s, n) == SubSeq(s, 1, n)
Rest(s, n) == SubSeq(s, n + 1, Len(s))

\* Mutant: the events of the device are not taken off the room.
VirtualEventsOfAllRoom(size, numReal) == Smaller(size, Len(m_bufferedPresses))

VirtualEvents(size, numReal) == Smaller(size - numReal, Len(m_bufferedPresses))

\* The places of the array the read reports: the first press is put behind the
\* device's events, each further one into the second place.
Reported(real, taken) ==
    [i \in 1 .. Len(real) + Len(taken) |->
        IF i = 2 /\ Len(taken) > 1 THEN taken[Len(taken)]
        ELSE IF i = Len(real) + 1 THEN taken[1]
        ELSE IF i <= Len(real) THEN real[i]
        ELSE Garbage]

\* Into an array.
Read(d, size) ==
    LET numReal == Smaller(size, Len(pending[d]))
        numVirtual == VirtualEvents(size, numReal)
        real == First(pending[d], numReal)
        taken == First(m_bufferedPresses, numVirtual)
    IN  /\ pending' = [pending EXCEPT ![d] = Rest(@, numReal)]
        /\ m_bufferedPresses' = Rest(m_bufferedPresses, numVirtual)
        /\ read' = [size |-> size, real |-> real, taken |-> taken,
                    got |-> Reported(real, taken)]

\* Without an array, which drops all there is.
Flush(d) ==
    /\ pending' = [pending EXCEPT ![d] = <<>>]
    /\ m_bufferedPresses' = <<>>
    /\ UNCHANGED read

Next ==
    \/ \E d \in Devices, event \in UserEvents : UserActs(d, event)
    \/ \E key \in Keys : MenuTapKey(key) \/ MenuHoldKey(key) \/ MenuReleaseKey(key)
    \/ \E d \in Devices :
           \/ \E size \in Sizes : Read(d, size)
           \/ Flush(d)

Spec == Init /\ [][Next]_vars

-----------------------------------------------------------------------------
(* Properties. *)

\* The game gets the user's events and behind them the presses taken off the
\* queue: "move pointer down and update count"
\* (Hooks_DirectInput8Create.cpp:421).
PressesArrive == read.got = read.real \o read.taken

=============================================================================
