----------------------------- MODULE ProgramView ------------------------------
(***************************************************************************)
(* Memory as a program may picture it: one byte behind every address, some *)
(* addresses two names of one cell, and five kinds of address where a      *)
(* store does something else than to keep the byte.  What an operation is  *)
(* given says how the picture changes; nothing is taken from what memory   *)
(* makes of it.                                                            *)
(***************************************************************************)
EXTENDS Integers

CONSTANTS
    Address,
    Cell,       \* Cell[a] = Cell[b]: a and b name the same cell
    Rom,        \* addresses that a store leaves alone
    Cleared,    \* addresses where a store leaves 0
    Mixed,      \* addresses with the high digit stored and the low one reported
    Devices,    \* addresses a device may change at any moment
    Overlay,    \* addresses of the ROM where a second one may cover it ...
    Switch,     \* ... by the address that switches it off and on
    Covering, Covered,   \* the two ROMs
    Transfer,   \* the address whose store copies a page to Sprites
    Sprites, SpritesStart, PageSize,
    AtFirst     \* what the other addresses hold before anything is stored

VARIABLE image   \* image[a]: what a load from a should yield

Init ==
    image = [x \in Address |-> IF x \in Overlay THEN Covering[x]
                               ELSE IF x \in Rom THEN Covered[x] ELSE AtFirst[x]]

\* One cell changes, under all its names.
With(a, byte) == [x \in Address |-> IF Cell[x] = Cell[a] THEN byte ELSE image[x]]

Keep(a, byte) ==
    /\ a \notin Rom \cup Cleared \cup Mixed \cup {Switch, Transfer}
    /\ image' = With(a, byte)

Ignore(a) == a \in Rom /\ UNCHANGED image

Clear(a) == a \in Cleared /\ image' = With(a, 0)

Mix(a, byte, reported) ==
    a \in Mixed /\ image' = With(a, 16 * (byte \div 16) + (reported % 16))

SwitchOverlay(byte) ==
    image' = [x \in Address |-> IF x \notin Overlay THEN With(Switch, byte)[x]
                                ELSE IF byte = 0 THEN Covering[x] ELSE Covered[x]]

\* All at once, and with the page's number in its register already.
CopyPage(page) ==
    LET told == With(Transfer, page)
    IN  image' = [x \in Address |->
                    IF x \in Sprites THEN told[page * PageSize + (x - SpritesStart)]
                                     ELSE told[x]]

\* The program stores a byte, while a device reports its low digit.
Store(a, byte, reported) ==
    \/ Keep(a, byte)
    \/ Ignore(a)
    \/ Clear(a)
    \/ Mix(a, byte, reported)
    \/ a = Switch /\ SwitchOverlay(byte)
    \/ a = Transfer /\ CopyPage(byte)

DeviceActs(a, byte) == a \in Devices /\ image' = With(a, byte)
===============================================================================
