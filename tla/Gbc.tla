--------------------------------- MODULE Gbc ----------------------------------
(***************************************************************************)
(* The machine as a whole: the loop of Gbc::run(), the frame callback that *)
(* polls the window's events, and the ways to leave, from src/src/gbc.cc   *)
(* and src/src/main.cc, around the modules of the Ppu, the Timer and the   *)
(* Joypad.  Of the processor, Cpu.tla's part, only what the others see is  *)
(* left: the cycles a tick took, the interrupt it dispatched, the register *)
(* it wrote.                                                               *)
(***************************************************************************)
EXTENDS Integers, Sequences, Interrupts

CONSTANTS
    MCycles,          \* what Cpu::tick() may return
    ClocksPerCycle,   \* 4
    Headless,         \* the --headless flag
    Keys,             \* the keys the user uses, by button
    Selections,       \* what the program writes to JOYP
    Controls,         \* ... and to TAC
    MaxEvents,        \* bound of the model: events waiting at once
    TimerByteSize, TimerDivPeriod, TimerDIVIDERS,
    PpuByteSize, ClocksOam, ClocksVram, ClocksHblank, VisibleLines, VblankLines,
    CommonClocks      \* a divisor of the divider's period and the beam's round

ASSUME CyclesAssumption ==
    /\ MCycles \subseteq Nat
    /\ ClocksPerCycle \in Nat
ASSUME EventsAssumption == MaxEvents \in Nat
ASSUME TimerAssumption ==
    /\ TimerByteSize \in Nat \ {0}
    /\ TimerDivPeriod \in Nat \ {0}
    /\ TimerDIVIDERS \in [0 .. 3 -> Nat \ {0}]
ASSUME PpuAssumption ==
    /\ ClocksOam \in Nat \ {0}
    /\ ClocksVram \in Nat \ {0}
    /\ ClocksHblank \in Nat \ {0}
    /\ VisibleLines \in Nat \ {0}
    /\ VblankLines \in Nat \ {0}
    /\ PpuByteSize \in Nat
    /\ VisibleLines + VblankLines < PpuByteSize
\* The longest instruction, 6 cycles of 4 clocks, is shorter than the divider's
\* period and than every mode of the screen.
ASSUME InstructionAssumption ==
    \A c \in MCycles :
        \A limit \in {TimerDivPeriod, ClocksOam, ClocksVram, ClocksHblank} :
            c * ClocksPerCycle <= limit
\* 16 in the program: the period is 256 clocks, the beam's round 70224.
ASSUME CommonAssumption ==
    /\ CommonClocks \in Nat \ {0}
    /\ TimerDivPeriod % CommonClocks = 0
    /\ ((VisibleLines + VblankLines) * (ClocksOam + ClocksVram + ClocksHblank)) % CommonClocks = 0

TickClocks == {c * ClocksPerCycle : c \in MCycles}

VARIABLES
    at,             \* where run() is
    cycles,
    should_exit_,
    user,           \* the keys the user holds down
    queue,          \* SDL's events, the oldest first
    interrupted,    \* the user has sent SIGINT
    interrupt_flag,
    divider, timer_counter, timer_modulo, timer_control, div_cycle_counter_, tima_counter_,
    mode_, cycles_elapsed_, line, ly_compare, lcd_control, lcd_status, frame_buffer_,
    frame_parity, thrown,
    held, selected, reported, keys

timerVars  == <<divider, timer_counter, timer_modulo, timer_control,
                div_cycle_counter_, tima_counter_>>
ppuVars    == <<mode_, cycles_elapsed_, line, ly_compare, lcd_control, lcd_status,
                frame_buffer_, frame_parity, thrown>>
joypadVars == <<held, selected, reported, keys>>
outside    == <<user, queue, interrupted>>
vars       == <<at, cycles, should_exit_, outside, interrupt_flag,
                timerVars, ppuVars, joypadVars>>

timer == INSTANCE Timer WITH
    ByteSize <- TimerByteSize, DivPeriod <- TimerDivPeriod, DIVIDERS <- TimerDIVIDERS,
    TickCycles <- TickClocks, MaxBacklog <- 2 * TimerDivPeriod

ppu == INSTANCE Ppu WITH
    ByteSize <- PpuByteSize, CLOCKS_PER_SCANLINE_OAM <- ClocksOam,
    CLOCKS_PER_SCANLINE_VRAM <- ClocksVram, CLOCKS_PER_HBLANK <- ClocksHblank,
    SCANLINES_PER_FRAME <- VisibleLines, SCANLINES_PER_VBLANK <- VblankLines,
    TickCycles <- TickClocks, ControlWrites <- {}, StatusWrites <- {},
    LineWrites <- {}, CompareWrites <- {}, RenderFaults <- {FALSE}

joypad == INSTANCE Joypad WITH Uninitialized <- {}

ASSUME KeysAssumption ==
    /\ Keys \subseteq joypad!Button
    /\ Selections \subseteq SUBSET joypad!Group
    /\ Controls \subseteq timer!Control

Event == [kind : {"down", "up"}, key : Keys] \cup {[kind |-> "close"]}

TypeOK ==
    /\ at \in {"cpu", "ppu", "poll", "timer", "returned"}
    /\ cycles \in MCycles
    /\ should_exit_ \in BOOLEAN
    /\ user \subseteq Keys
    /\ queue \in Seq(Event)
    /\ Len(queue) <= MaxEvents
    /\ interrupted \in BOOLEAN
    /\ timer!TypeOK
    /\ ppu!TypeOK
    /\ joypad!TypeOK

Init ==
    /\ at = "cpu"
    /\ cycles \in MCycles     \* uninitialized, and set before it is read
    /\ should_exit_ = FALSE
    /\ user = {}
    /\ queue = <<>>
    /\ interrupted = FALSE
    /\ timer!Init
    /\ ppu!Init
    /\ joypad!Init

-------------------------------------------------------------------------------
(* The loop.                                                               *)

\* A plausible slip: tick() already returns clocks.
Bug_ClocksReturned(c) ==
    /\ at = "cpu"
    /\ ~should_exit_
    /\ at' = "ppu"
    /\ cycles' = c * ClocksPerCycle
    /\ UNCHANGED <<should_exit_, outside, interrupt_flag, timerVars, ppuVars, joypadVars>>

\* The interrupt that Cpu::tick() may dispatch.
Acknowledge ==
    /\ \E i \in interrupt_flag : interrupt_flag' = interrupt_flag \ {i}
    /\ UNCHANGED <<joypadVars, timerVars>>

\* The register it may write.
WriteRegister ==
    \/ \E select \in Selections : joypad!WriteJOYP(select) /\ UNCHANGED timerVars
    \/ \E control \in Controls : timer!WriteTAC(control) /\ UNCHANGED joypadVars
    \/ timer!WriteDIV /\ UNCHANGED joypadVars

CpuTick(c) ==
    /\ at = "cpu"
    /\ ~should_exit_
    /\ at' = "ppu"
    /\ cycles' = c
    /\ \/ UNCHANGED <<interrupt_flag, joypadVars, timerVars>>
       \/ Acknowledge
       \/ WriteRegister
    /\ UNCHANGED <<should_exit_, outside, ppuVars>>

\* A plausible slip: the flag is tested the wrong way around.
Bug_HeadlessInverted(drawn) == IF drawn /\ Headless THEN "poll" ELSE "timer"

\* The frame callback polls events, unless there is no window.
AfterPpu(drawn) == IF drawn /\ ~Headless THEN "poll" ELSE "timer"

Clocks == cycles * ClocksPerCycle

PpuTick ==
    /\ at = "ppu"
    /\ ppu!Tick(Clocks, FALSE)
    /\ at' = AfterPpu(frame_parity' # frame_parity)
    /\ UNCHANGED <<cycles, should_exit_, outside, timerVars, joypadVars>>

\* Plausible slips: an event is taken from the wrong end, or a close ignored.
Bug_NewestFirst ==
    /\ queue # <<>>
    /\ queue' = SubSeq(queue, 1, Len(queue) - 1)
    /\ LET event == queue[Len(queue)] IN
       CASE event.kind = "down"  -> joypad!ButtonDown(event.key) /\ UNCHANGED <<keys, should_exit_>>
         [] event.kind = "up"    -> joypad!ButtonUp(event.key) /\ UNCHANGED <<keys, should_exit_>>
         [] event.kind = "close" -> should_exit_' = TRUE /\ UNCHANGED <<joypadVars, interrupt_flag>>

Bug_CloseIgnored ==
    /\ queue # <<>>
    /\ queue' = Tail(queue)
    /\ LET event == Head(queue) IN
       CASE event.kind = "down"  -> joypad!KeyDown(event.key) /\ UNCHANGED should_exit_
         [] event.kind = "up"    -> joypad!KeyUp(event.key) /\ UNCHANGED should_exit_
         [] event.kind = "close" -> UNCHANGED <<joypadVars, interrupt_flag, should_exit_>>

\* One round of process_events_(): keys go to the joypad, a close to exit().
TakeEvent ==
    /\ queue # <<>>
    /\ queue' = Tail(queue)
    /\ LET event == Head(queue) IN
       CASE event.kind = "down"  -> joypad!KeyDown(event.key) /\ UNCHANGED should_exit_
         [] event.kind = "up"    -> joypad!KeyUp(event.key) /\ UNCHANGED should_exit_
         [] event.kind = "close" -> should_exit_' = TRUE /\ UNCHANGED <<joypadVars, interrupt_flag>>

PollEvent ==
    /\ at = "poll"
    /\ TakeEvent
    /\ UNCHANGED <<at, cycles, user, interrupted, timerVars, ppuVars>>

\* SDL_PollEvent() returns 0, and the frame is drawn.
PollEnds ==
    /\ at = "poll"
    /\ queue = <<>>
    /\ at' = "timer"
    /\ UNCHANGED <<cycles, should_exit_, outside, interrupt_flag,
                   timerVars, ppuVars, joypadVars>>

\* Plausible slips: the timer is given cycles where clocks are meant; the flag
\* is cleared for the next round.
Bug_CyclesForClocks ==
    /\ at = "timer"
    /\ timer!Tick(cycles)
    /\ at' = "cpu"
    /\ UNCHANGED <<cycles, should_exit_, outside, ppuVars, joypadVars>>

Bug_FlagCleared ==
    /\ at = "timer"
    /\ timer!Tick(Clocks)
    /\ at' = "cpu"
    /\ should_exit_' = FALSE
    /\ UNCHANGED <<cycles, outside, ppuVars, joypadVars>>

TimerTick ==
    /\ at = "timer"
    /\ timer!Tick(Clocks)
    /\ at' = "cpu"
    /\ UNCHANGED <<cycles, should_exit_, outside, ppuVars, joypadVars>>

\* The loop's condition fails: run() returns 0.
Return ==
    /\ at = "cpu"
    /\ should_exit_
    /\ at' = "returned"
    /\ UNCHANGED <<cycles, should_exit_, outside, interrupt_flag,
                   timerVars, ppuVars, joypadVars>>

Step ==
    \/ \E c \in MCycles : CpuTick(c)
    \/ PpuTick
    \/ PollEvent
    \/ PollEnds
    \/ TimerTick
    \/ Return

-------------------------------------------------------------------------------
(* The user, who may act at any moment but cannot outrun one poll (SDL     *)
(* pumps the events once for a poll that runs to the end).                 *)

Arrives(event) ==
    /\ at \notin {"poll", "returned"}
    /\ Len(queue) < MaxEvents
    /\ queue' = Append(queue, event)

Press(key) ==
    /\ key \notin user
    /\ Arrives([kind |-> "down", key |-> key])
    /\ user' = user \cup {key}
    /\ UNCHANGED <<at, cycles, should_exit_, interrupted, interrupt_flag,
                   timerVars, ppuVars, joypadVars>>

Release(key) ==
    /\ key \in user
    /\ Arrives([kind |-> "up", key |-> key])
    /\ user' = user \ {key}
    /\ UNCHANGED <<at, cycles, should_exit_, interrupted, interrupt_flag,
                   timerVars, ppuVars, joypadVars>>

CloseWindow ==
    /\ Arrives([kind |-> "close"])
    /\ UNCHANGED <<at, cycles, should_exit_, user, interrupted, interrupt_flag,
                   timerVars, ppuVars, joypadVars>>

\* The signal handler runs between any two steps of the loop: Gbc::exit().
Sigint ==
    /\ at # "returned"
    /\ interrupted' = TRUE
    /\ should_exit_' = TRUE
    /\ UNCHANGED <<at, cycles, user, queue, interrupt_flag, timerVars, ppuVars, joypadVars>>

Next ==
    \/ Step
    \/ \E key \in Keys : Press(key) \/ Release(key)
    \/ CloseWindow
    \/ Sigint

Spec == Init /\ [][Next]_vars

\* The loop never blocks, and a program is not for ever at opcodes that take
\* no time (the eleven that do not exist), so clocks keep coming.
Fairness ==
    /\ WF_vars(Step)
    /\ SF_vars(\E c \in MCycles \ {0} : CpuTick(c))

FairSpec == Spec /\ Fairness

-------------------------------------------------------------------------------

\* gbc.cc:78-83: between two instructions the screen and the timer have lived
\* through the same clocks, also when the program has cleared DIV.
InLockstep == at = "cpu" => (ppu!Beam - timer!Clock) % CommonClocks = 0

\* The waiting events about a key, by their places in the queue.
About(events, key) ==
    {n \in 1 .. Len(events) : events[n].kind # "close" /\ events[n].key = key}

\* A key is down after the events if the last one about it says so, or if it is
\* down and there is none.
DownAfter(events, down, key) ==
    IF About(events, key) = {}
    THEN key \in down
    ELSE \E n \in About(events, key) :
            /\ \A m \in About(events, key) : m <= n
            /\ events[n].kind = "down"

\* The keys held once the waiting events have been taken.
HeldAfterQueue == {key \in joypad!Button : DownAfter(queue, held, key)}

\* gbc.cc:116-141, joypad.cc:6-72: no key is stuck or lost: what the joypad
\* holds, with the events still waiting, is what the user's fingers do.
NoStuckKey == HeldAfterQueue = user

\* gbc.cc:78-83, with IF, which all of them share: whatever the others do in
\* between, and whichever request the processor acknowledges, the screen is a
\* steady beam and the timer an interval timer that loses no clock.
PartsKeepTime == ppu!RefinesLcdClock /\ timer!RefinesIntervalTimer

\* gbc.cc:43-48, 116-141: while there is a window and the loop runs, a key that
\* the user holds on is seen held from some time on, and one released for good
\* is seen released from some time on, whatever was pressed before.
KeysArrive ==
    ~Headless => \A key \in Keys :
        /\ <>[](key \in user)    => <>[](at = "returned" \/ key \in held)
        /\ <>[](key \notin user) => <>[](at = "returned" \/ key \notin held)

\* main.cc:16-17, gbc.cc:78-91: SIGINT at any moment makes run() return.
SigintReturns == interrupted ~> at = "returned"

\* gbc.cc:133-138: closing the window makes run() return, through the frame
\* callback, whatever the screen is doing when it comes.
CloseReturns ==
    ~Headless => ((\E n \in 1 .. Len(queue) : queue[n].kind = "close") ~> at = "returned")
===============================================================================
