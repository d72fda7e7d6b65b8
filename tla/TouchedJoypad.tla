---------------------------- MODULE TouchedJoypad -----------------------------
(***************************************************************************)
(* Joypad with a record of the buttons the user has touched: until then an *)
(* uninitialized bool is what it happened to be.                           *)
(***************************************************************************)
EXTENDS Joypad

VARIABLE touched   \* the buttons pressed or released since the start

TouchedInit == Init /\ touched = {}

TouchedNext ==
    /\ Next
    /\ touched' = touched \cup {b \in Button : (b \in keys) # (b \in keys')}

TouchedSpec == TouchedInit /\ [][TouchedNext]_<<vars, touched>>

-------------------------------------------------------------------------------

\* joypad.hh:16-19 and 46, "0 = pressed": a line that reads 0 is a key the user
\* holds in the group that is selected, or one of the seven uninitialized
\* buttons that nobody has touched yet.
NoPhantomPress ==
    \A l \in reported :
        /\ selected # {}
        /\ \/ Wired(Answering)[l] \in keys
           \/ Wired(Answering)[l] \in Uninitialized \ touched
===============================================================================
