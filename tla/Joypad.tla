-------------------------------- MODULE Joypad --------------------------------
(***************************************************************************)
(* The eight buttons and the JOYP register: src/src/joypad.hh and          *)
(* src/src/joypad.cc, with the write Cpu::write_ makes and the key events  *)
(* Gbc::process_events_ forwards.                                          *)
(*                                                                         *)
(* JOYP is two selections and four reports, all active low: a selection or *)
(* a report is in the set when its bit is 0.                               *)
(***************************************************************************)
EXTENDS Naturals, Interrupts

CONSTANT Uninitialized   \* the buttons whose bool no initializer reaches

Button == {"Up", "Down", "Left", "Right", "A", "B", "Select", "Start"}
Group  == {"action", "direction"}
Line   == {"down_or_start", "up_or_select", "left_or_b", "right_or_a"}

\* joypad.hh:46 declares eight bools and initializes the last.
ASSUME UninitializedAssumption == Uninitialized \subseteq Button \ {"Start"}

VARIABLES
    held,             \* the buttons whose bool is true
    selected,         \* JOYP bits 5 and 4
    reported,         \* JOYP bits 3 to 0
    keys,             \* the keys the user holds, as SDL has told the program
    interrupt_flag    \* Cpu::interrupt_flag, which the callback reaches

vars == <<held, selected, reported, keys, interrupt_flag>>

TypeOK ==
    /\ held \subseteq Button
    /\ selected \subseteq Group
    /\ reported \subseteq Line
    /\ keys \subseteq Button
    /\ interrupt_flag \subseteq RegisterBit

\* Joypad::Joypad() stores 0xFF; an uninitialized bool may be anything.
Init ==
    /\ held \in SUBSET Uninitialized
    /\ selected = {}
    /\ reported = {}
    /\ keys = {}
    /\ interrupt_flag = {}

-------------------------------------------------------------------------------

\* The button a report line stands for, by group.
Wired(group) ==
    IF group = "action"
    THEN [down_or_start |-> "Start", up_or_select |-> "Select",
          left_or_b |-> "B", right_or_a |-> "A"]
    ELSE [down_or_start |-> "Down", up_or_select |-> "Up",
          left_or_b |-> "Left", right_or_a |-> "Right"]

\* A plausible slip: buttons taken for lines.
Bug_NotWired(group, buttons) == {Wired(group)[l] : l \in Line} \cap buttons

Held(group, buttons) == {l \in Line : Wired(group)[l] \in buttons}

\* A plausible slip: the lines of both groups are merged.
Bug_MergeGroups(select, buttons, old) == UNION {Held(g, buttons) : g \in select}

\* A plausible slip: a report is only ever set, never cleared.
Bug_Sticky(select, buttons, old) ==
    IF "action" \in select THEN old \cup Held("action", buttons)
    ELSE IF "direction" \in select THEN old \cup Held("direction", buttons) ELSE old

\* update_joyp_(): the action buttons first; with no group selected the lines
\* keep what they show.
Update(select, buttons, old) ==
    IF "action" \in select THEN Held("action", buttons)
    ELSE IF "direction" \in select THEN Held("direction", buttons) ELSE old

\* Cpu::write_ sets the four report bits to 1 before it calls set(), and set()
\* looks at the buttons only if a selection changed.
WriteJOYP(select) ==
    /\ selected' = select
    /\ reported' = IF select # selected THEN Update(select, held, {}) ELSE {}
    /\ UNCHANGED <<held, keys, interrupt_flag>>

\* A plausible slip: the edge does not refresh the register.
Bug_NoRefresh(buttons) ==
    /\ held' = buttons
    /\ interrupt_flag' = interrupt_flag \cup {JOYPAD}
    /\ UNCHANGED <<selected, reported>>

\* What button_down and button_up share.
SetHeld(buttons) ==
    /\ held' = buttons
    /\ reported' = Update(selected, buttons, reported)
    /\ interrupt_flag' = interrupt_flag \cup {JOYPAD}
    /\ UNCHANGED selected

ButtonDown(b) == SetHeld(held \cup {b})
ButtonUp(b)   == SetHeld(held \ {b})

\* process_events_(): a key that goes down or up, not a repeat.
KeyDown(b) == b \notin keys /\ keys' = keys \cup {b} /\ ButtonDown(b)
KeyUp(b)   == b \in keys    /\ keys' = keys \ {b}    /\ ButtonUp(b)

AckJoypad ==
    /\ JOYPAD \in interrupt_flag
    /\ interrupt_flag' = interrupt_flag \ {JOYPAD}
    /\ UNCHANGED <<held, selected, reported, keys>>

Next ==
    \/ \E select \in SUBSET Group : WriteJOYP(select)
    \/ \E b \in Button : KeyDown(b) \/ KeyUp(b)
    \/ AckJoypad

Spec == Init /\ [][Next]_vars

-------------------------------------------------------------------------------

\* The group JOYP answers for: the action buttons win.
Answering == IF "action" \in selected THEN "action" ELSE "direction"

\* joypad.hh:21-44, cpu.cc:206-209: what the program reads is all of one group
\* or nothing: never lines of a group that is no longer selected, and never a
\* mixture of old and new.
OneGroupOrNothing ==
    \/ reported = {}
    \/ selected # {} /\ reported = Held(Answering, held)

\* joypad.hh:16-19, "0 = pressed": a key the user holds in the group that is
\* selected reads 0.
HeldKeyReads ==
    selected # {} => \A l \in Line : Wired(Answering)[l] \in keys => l \in reported

\* joypad.hh:21-44, joypad.cc:6-72: a program that deselects before it selects,
\* as it must for the hardware too, reads exactly what the joypad holds, and so
\* it does after every press and release, until it writes JOYP again.
FreshAfterReselect ==
    [][(selected' # selected /\ selected' # {}) \/ (keys' # keys /\ selected # {})
       => reported' = Held(Answering', held')]_vars
===============================================================================
