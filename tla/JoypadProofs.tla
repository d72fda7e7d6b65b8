----------------------------- MODULE JoypadProofs -----------------------------
(***************************************************************************)
(* Theorems about Joypad and TouchedJoypad, whichever bools are left       *)
(* uninitialized: what the program reads is of one group, and of keys that *)
(* are held.                                                               *)
(***************************************************************************)
EXTENDS TouchedJoypad, TLAPS

\* Lines are wired to buttons, and the lines of a set of buttons are lines.
LEMMA WiredType ==
    ASSUME NEW group
    PROVE  /\ \A l \in Line : Wired(group)[l] \in Button
           /\ \A buttons : Held(group, buttons) \subseteq Line
BY DEF Wired, Line, Button, Held

\* update_joyp_() leaves lines.
LEMMA UpdateType ==
    ASSUME NEW select, NEW buttons, NEW old \in SUBSET Line
    PROVE  Update(select, buttons, old) \subseteq Line
BY WiredType DEF Update

\* The types of all five variables, for every set of uninitialized bools.
THEOREM TypeCorrect == Spec => []TypeOK
<1>1. Init => TypeOK
  BY UninitializedAssumption DEF Init, TypeOK
<1>2. TypeOK /\ [Next]_vars => TypeOK'
  <2> SUFFICES ASSUME TypeOK, [Next]_vars
               PROVE  TypeOK'
    OBVIOUS
  <2>1. ASSUME NEW select \in SUBSET Group, WriteJOYP(select)
        PROVE  TypeOK'
    BY <2>1, UpdateType DEF WriteJOYP, TypeOK
  <2>2. ASSUME NEW b \in Button, KeyDown(b)
        PROVE  TypeOK'
    BY <2>2, UpdateType DEF KeyDown, ButtonDown, SetHeld, TypeOK, RegisterBit, JOYPAD
  <2>3. ASSUME NEW b \in Button, KeyUp(b)
        PROVE  TypeOK'
    BY <2>3, UpdateType DEF KeyUp, ButtonUp, SetHeld, TypeOK, RegisterBit, JOYPAD
  <2>4. CASE AckJoypad
    BY <2>4 DEF AckJoypad, TypeOK
  <2>5. CASE UNCHANGED vars
    BY <2>5 DEF vars, TypeOK
  <2> QED
    BY <2>1, <2>2, <2>3, <2>4, <2>5 DEF Next
<1> QED
  BY <1>1, <1>2, PTL DEF Spec

-------------------------------------------------------------------------------

\* With a group selected, update_joyp_() shows what is held in the one that
\* answers; with none it changes nothing.
LEMMA UpdateShows ==
    ASSUME TypeOK, NEW buttons, NEW old
    PROVE  Update(selected, buttons, old) =
             IF selected = {} THEN old ELSE Held(Answering, buttons)
BY DEF Update, Answering, TypeOK, Group

\* The same for the selection a step leaves behind.
LEMMA UpdateShowsNext ==
    ASSUME TypeOK', NEW buttons, NEW old
    PROVE  Update(selected', buttons, old) =
             IF selected' = {} THEN old ELSE Held(Answering', buttons)
BY DEF Update, Answering, TypeOK, Group

\* joypad.hh:21-44: the lines are all of one group or nothing, after every step.
\* (With no group selected no line is 0, so the lines a key event keeps are none.)
THEOREM OneGroup == Spec => []OneGroupOrNothing
<1>1. Init => OneGroupOrNothing
  BY DEF Init, OneGroupOrNothing
<1>2. TypeOK /\ TypeOK' /\ OneGroupOrNothing /\ [Next]_vars => OneGroupOrNothing'
  <2> SUFFICES ASSUME TypeOK, TypeOK', OneGroupOrNothing, [Next]_vars
               PROVE  OneGroupOrNothing'
    OBVIOUS
  <2>1. ASSUME NEW select \in SUBSET Group, WriteJOYP(select)
        PROVE  OneGroupOrNothing'
    BY <2>1, UpdateShowsNext DEF WriteJOYP, OneGroupOrNothing
  <2>2. ASSUME NEW b \in Button, KeyDown(b) \/ KeyUp(b)
        PROVE  OneGroupOrNothing'
    BY <2>2, UpdateShowsNext DEF KeyDown, ButtonDown, KeyUp, ButtonUp, SetHeld, OneGroupOrNothing
  <2>3. CASE AckJoypad \/ UNCHANGED vars
    BY <2>3 DEF AckJoypad, vars, OneGroupOrNothing, Answering
  <2> QED
    BY <2>1, <2>2, <2>3 DEF Next
<1> QED
  BY <1>1, <1>2, TypeCorrect, PTL DEF Spec

\* joypad.cc:6-72: a change of selection and a key event leave the lines true.
THEOREM ReselectIsFresh == Spec => FreshAfterReselect
<1>1. ASSUME TypeOK, TypeOK', [Next]_vars,
             (selected' # selected /\ selected' # {}) \/ (keys' # keys /\ selected # {})
      PROVE  reported' = Held(Answering', held')
  <2>1. ASSUME NEW select \in SUBSET Group, WriteJOYP(select)
        PROVE  reported' = Held(Answering', held')
    BY <1>1, <2>1, UpdateShowsNext DEF WriteJOYP
  <2>2. ASSUME NEW b \in Button, KeyDown(b) \/ KeyUp(b)
        PROVE  reported' = Held(Answering', held')
    BY <1>1, <2>2, UpdateShowsNext DEF KeyDown, ButtonDown, KeyUp, ButtonUp, SetHeld
  <2>3. ~AckJoypad /\ ~UNCHANGED vars
    BY <1>1 DEF AckJoypad, vars
  <2> QED
    BY <1>1, <2>1, <2>2, <2>3 DEF Next
<1> QED
  BY <1>1, TypeCorrect, PTL DEF Spec, FreshAfterReselect

-------------------------------------------------------------------------------
(* Which keys the lines show.                                              *)

\* What is held but by no finger is a bool that nobody has set yet.
HeldInv == \A b \in held : b \in keys \/ b \in Uninitialized \ touched

\* Every behaviour of TouchedJoypad is one of Joypad.
LEMMA TouchedIsJoypad == TouchedSpec => Spec
<1>1. TouchedInit => Init
  BY DEF TouchedInit
<1>2. [TouchedNext]_<<vars, touched>> => [Next]_vars
  BY DEF TouchedNext
<1> QED
  BY <1>1, <1>2, PTL DEF TouchedSpec, Spec

\* joypad.hh:16-19, 46: a line that reads 0 is a key that the user holds or one
\* of the uninitialized buttons that nobody has touched.
THEOREM NoPhantoms == TouchedSpec => []NoPhantomPress
<1>1. TouchedInit => HeldInv
  BY DEF TouchedInit, Init, HeldInv
<1>2. TypeOK /\ HeldInv /\ [TouchedNext]_<<vars, touched>> => HeldInv'
  <2> SUFFICES ASSUME TypeOK, HeldInv, [TouchedNext]_<<vars, touched>>
               PROVE  HeldInv'
    OBVIOUS
  <2>1. ASSUME NEW select \in SUBSET Group, WriteJOYP(select), TouchedNext
        PROVE  HeldInv'
    BY <2>1 DEF WriteJOYP, TouchedNext, HeldInv
  <2>2. ASSUME NEW b \in Button, KeyDown(b), TouchedNext
        PROVE  HeldInv'
    BY <2>2 DEF KeyDown, ButtonDown, SetHeld, TouchedNext, HeldInv, TypeOK
  <2>3. ASSUME NEW b \in Button, KeyUp(b), TouchedNext
        PROVE  HeldInv'
    BY <2>3 DEF KeyUp, ButtonUp, SetHeld, TouchedNext, HeldInv, TypeOK
  <2>4. ASSUME AckJoypad, TouchedNext
        PROVE  HeldInv'
    BY <2>4 DEF AckJoypad, TouchedNext, HeldInv
  <2>5. CASE UNCHANGED <<vars, touched>>
    BY <2>5 DEF vars, HeldInv
  <2> QED
    BY <2>1, <2>2, <2>3, <2>4, <2>5 DEF Next, TouchedNext
<1>3. TypeOK /\ OneGroupOrNothing /\ HeldInv => NoPhantomPress
  BY DEF TypeOK, OneGroupOrNothing, HeldInv, NoPhantomPress, Held
<1> QED
  BY <1>1, <1>2, <1>3, TouchedIsJoypad, TypeCorrect, OneGroup, PTL DEF TouchedSpec

-------------------------------------------------------------------------------
(* What hides a held key: only a second write of the same selection.       *)

Rewrite == WriteJOYP(selected)

\* A program that writes JOYP only to change the selection.
CarefulSpec == Init /\ [][Next /\ ~Rewrite]_vars

\* joypad.cc:6-72, gbc.cc:104-128: what the user holds, the buttons hold.
LEMMA KeysAreHeld == Spec => [](keys \subseteq held)
<1>1. Init => keys \subseteq held
  BY DEF Init
<1>2. keys \subseteq held /\ [Next]_vars => (keys \subseteq held)'
  BY DEF Next, WriteJOYP, KeyDown, KeyUp, ButtonDown, ButtonUp, SetHeld, AckJoypad, vars
<1> QED
  BY <1>1, <1>2, PTL DEF Spec

\* Lines that show the buttons show the keys.
LEMMA TrueLinesRead ==
    ASSUME keys' \subseteq held', selected' = {} \/ reported' = Held(Answering', held')
    PROVE  HeldKeyReads'
BY DEF HeldKeyReads, Held

\* A change of selection, a key and a served interrupt hide no key.
LEMMA StepReads ==
    ASSUME TypeOK, TypeOK', (keys \subseteq held)', HeldKeyReads, [Next]_vars, ~Rewrite
    PROVE  HeldKeyReads'
<1>1. ASSUME NEW select \in SUBSET Group, WriteJOYP(select)
      PROVE  HeldKeyReads'
  <2>1. select # selected
    BY <1>1 DEF Rewrite
  <2> QED
    BY <1>1, <2>1, UpdateShowsNext, TrueLinesRead DEF WriteJOYP
<1>2. ASSUME NEW b \in Button, KeyDown(b) \/ KeyUp(b)
      PROVE  HeldKeyReads'
  BY <1>2, UpdateShowsNext, TrueLinesRead DEF KeyDown, ButtonDown, KeyUp, ButtonUp, SetHeld
<1>3. CASE AckJoypad \/ UNCHANGED vars
  BY <1>3 DEF AckJoypad, vars, HeldKeyReads, Answering
<1> QED
  BY <1>1, <1>2, <1>3 DEF Next

\* cpu.cc:206-209, joypad.hh:16-44: the one thing that makes a held key read as
\* released is a write of the selection that JOYP has already. Every other step,
\* in whatever order presses, releases and selections come, keeps the lines true.
THEOREM OnlyRewriteHides ==
    /\ Spec => [][HeldKeyReads => HeldKeyReads' \/ Rewrite]_vars
    /\ CarefulSpec => []HeldKeyReads
<1>1. Spec => [][HeldKeyReads => HeldKeyReads' \/ Rewrite]_vars
  <2>1. /\ TypeOK /\ TypeOK' /\ (keys \subseteq held)' /\ [Next]_vars
        => [HeldKeyReads => HeldKeyReads' \/ Rewrite]_vars
    BY StepReads
  <2> QED
    BY <2>1, TypeCorrect, KeysAreHeld, PTL DEF Spec
<1>2. CarefulSpec => []HeldKeyReads
  <2>1. Init => HeldKeyReads
    BY DEF Init, HeldKeyReads
  <2>2. /\ TypeOK /\ TypeOK' /\ (keys \subseteq held)' /\ HeldKeyReads
        /\ [Next /\ ~Rewrite]_vars
        => HeldKeyReads'
    <3> SUFFICES ASSUME TypeOK, TypeOK', (keys \subseteq held)', HeldKeyReads,
                        [Next /\ ~Rewrite]_vars
                 PROVE  HeldKeyReads'
      OBVIOUS
    <3>1. CASE UNCHANGED vars
      BY <3>1 DEF vars, HeldKeyReads, Answering
    <3>2. CASE Next /\ ~Rewrite
      BY <3>2, StepReads
    <3> QED
      BY <3>1, <3>2
  <2>3. CarefulSpec => Spec
    BY PTL DEF CarefulSpec, Spec
  <2> QED
    BY <2>1, <2>2, <2>3, TypeCorrect, KeysAreHeld, PTL DEF CarefulSpec
<1> QED
  BY <1>1, <1>2
===============================================================================
