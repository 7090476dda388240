------------------------------ MODULE WcfxsLife ------------------------------
(***************************************************************************)
(* The life of the wcfxs driver (src/src/wcfxs.c): loading, with every way *)
(* it can fail, the interrupts that start half way through it, opens and   *)
(* closes of channels, reads of /proc/wcfxs, and unloading.                *)
(*                                                                         *)
(* What is shared is the structure wc: interrupts, zaptel and /proc reach  *)
(* it through pointers, and it is freed by a failed load or by unloading.  *)
(* The kernels of the boards are configured with CONFIG_PREEMPT_NONE for   *)
(* one processor: a step is what runs up to the next call that may sleep,  *)
(* or to the end of a system call, with interrupts in between.             *)
(***************************************************************************)
EXTENDS WcfxsCards

CONSTANTS
  timingonly,   \* the module parameter: load even with no card
  MaxOpen       \* bound: opens of channels at the same time

ASSUME LifeAssumption == timingonly \in BOOLEAN /\ MaxOpen \in Nat \ {0}

VARIABLES
  pc,           \* the step of loading, or "loaded" or "absent"
  wc,           \* "none", "live" or "freed"
  span,         \* whether zaptel knows the span
  proc,         \* whether /proc/wcfxs exists
  sport,        \* whether the serial port interrupts
  todo,         \* cards wcfxs_hardware_init has yet to set up
  cardflag,     \* cards it has set up
  init_ok,      \* wcfxs_init_ok
  usecount,     \* the module's use count
  polled,       \* history: the last card the interrupt handler polled, as a set
  failed        \* history: this load failed

life == <<pc, wc, span, proc, sport, todo, cardflag, init_ok, usecount, polled, failed>>

-----------------------------------------------------------------------------
\* wcfxs_init_one: the structure; without memory the module stays, with no device.
wcfxs_init_one ==
  /\ pc = "absent"
  /\ init_ok' = FALSE
  /\ \/ wc' = "live" /\ pc' = "register" /\ failed' = FALSE
     \/ wc' = "none" /\ pc' = "loaded" /\ failed' = TRUE
  /\ todo' = Cards /\ cardflag' = {} /\ polled' = {}
  /\ UNCHANGED <<span, proc, sport, usecount>>

\* wcfxs_initialize registers the span; if zaptel refuses the structure is freed.
wcfxs_initialize ==
  /\ pc = "register"
  /\ \/ span' = TRUE /\ pc' = "proc" /\ UNCHANGED <<wc, failed>>
     \/ wc' = "freed" /\ pc' = "loaded" /\ failed' = TRUE /\ UNCHANGED span
  /\ UNCHANGED <<proc, sport, todo, cardflag, init_ok, usecount, polled>>

create_proc_read_entry ==
  /\ pc = "proc"
  /\ proc' = TRUE
  /\ pc' = "sport"
  /\ UNCHANGED <<wc, span, sport, todo, cardflag, init_ok, usecount, polled, failed>>

\* bfsi_sport_init starts the interrupts; its result is ignored.
bfsi_sport_init ==
  /\ pc = "sport"
  /\ sport' \in BOOLEAN
  /\ pc' = "cards"
  /\ UNCHANGED <<wc, span, proc, todo, cardflag, init_ok, usecount, polled, failed>>

\* One turn of the loop over the cards.
InitCard(c) ==
  /\ pc = "cards" /\ c \in todo
  /\ todo' = todo \ {c}
  /\ cardflag' \in {cardflag, cardflag \cup {c}}
  /\ UNCHANGED <<pc, wc, span, proc, sport, init_ok, usecount, polled, failed>>

\* A broken variant: the port is left running.
sport_left == sport

\* No card: the port is closed, then the span goes, then the structure.
sport_closed == FALSE

HardwareInitFails ==
  /\ pc = "cards" /\ todo = {} /\ cardflag = {} /\ ~timingonly
  /\ sport' = sport_closed
  /\ pc' = "unregister"
  /\ UNCHANGED <<wc, span, proc, todo, cardflag, init_ok, usecount, polled, failed>>

UnregisterFree ==
  /\ pc = "unregister"
  /\ span' = FALSE /\ wc' = "freed"
  /\ pc' = "loaded" /\ failed' = TRUE
  /\ UNCHANGED <<proc, sport, todo, cardflag, init_ok, usecount, polled>>

HardwareInitOk ==
  /\ pc = "cards" /\ todo = {} /\ (cardflag # {} \/ timingonly)
  /\ init_ok' = TRUE
  /\ pc' = "loaded"
  /\ UNCHANGED <<wc, span, proc, sport, todo, cardflag, usecount, polled, failed>>

-----------------------------------------------------------------------------
\* A broken variant: it does not wait for wcfxs_init_ok.
PollsEarly(c) == c \in cardflag

\* regular_interrupt_processing polls one card.
Polls(c) == init_ok /\ c \in cardflag

regular_interrupt_processing(c) ==
  /\ sport
  /\ polled' = IF Polls(c) THEN {c} ELSE {}
  /\ UNCHANGED <<pc, wc, span, proc, sport, todo, cardflag, init_ok, usecount, failed>>

wcfxs_open(c) ==
  /\ span /\ c \in cardflag /\ usecount < MaxOpen
  /\ usecount' = usecount + 1
  /\ UNCHANGED <<pc, wc, span, proc, sport, todo, cardflag, init_ok, polled, failed>>

\* Nothing is ever dead: the release in wcfxs_close is not reached.
wcfxs_close ==
  /\ usecount > 0
  /\ usecount' = usecount - 1
  /\ UNCHANGED <<pc, wc, span, proc, sport, todo, cardflag, init_ok, polled, failed>>

\* Unloading, once nothing is open.
Releasable == init_ok

wcfxs_cleanup ==
  /\ pc = "loaded" /\ usecount = 0
  /\ IF Releasable THEN sport' = FALSE /\ span' = FALSE ELSE UNCHANGED <<sport, span>>
  /\ pc' = "release"
  /\ UNCHANGED <<wc, proc, todo, cardflag, init_ok, usecount, polled, failed>>

\* A broken variant: /proc/wcfxs stays.
ProcLeft == proc

ProcAfter == FALSE

\* zt_unregister may sleep; what follows it may not.
ReleaseFree ==
  /\ pc = "release"
  /\ wc' = IF ~Releasable THEN wc ELSE IF wc = "live" THEN "freed" ELSE "freed twice"
  /\ proc' = ProcAfter
  /\ pc' = "absent"
  /\ UNCHANGED <<span, sport, todo, cardflag, init_ok, usecount, polled, failed>>

LifeInit ==
  /\ pc = "absent" /\ wc = "none"
  /\ span = FALSE /\ proc = FALSE /\ sport = FALSE
  /\ todo = {} /\ cardflag = {} /\ init_ok = FALSE
  /\ usecount = 0 /\ polled = {} /\ failed = FALSE

LifeNext ==
  \/ wcfxs_init_one \/ wcfxs_initialize \/ create_proc_read_entry \/ bfsi_sport_init
  \/ HardwareInitFails \/ UnregisterFree \/ HardwareInitOk
  \/ \E c \in Cards : InitCard(c) \/ regular_interrupt_processing(c) \/ wcfxs_open(c)
  \/ wcfxs_close \/ wcfxs_cleanup \/ ReleaseFree

LifeSpec == LifeInit /\ [][LifeNext]_life

-----------------------------------------------------------------------------
\* The type of the state: what loading has built so far.
LifeTypeOK ==
  /\ pc \in {"absent", "register", "proc", "sport", "cards", "unregister", "loaded", "release"}
  /\ wc \in {"none", "live", "freed"}
  /\ span \in BOOLEAN /\ proc \in BOOLEAN /\ sport \in BOOLEAN
  /\ todo \subseteq Cards /\ cardflag \subseteq Cards /\ polled \subseteq Cards
  /\ init_ok \in BOOLEAN /\ usecount \in 0 .. MaxOpen /\ failed \in BOOLEAN

\* The structure outlives everything that follows a pointer to it from elsewhere, the
\* interrupt handler (devs), zaptel (span->pvt) and an open channel, and is freed once.
OutlivesUsers ==
  /\ sport \/ span \/ usecount > 0 => wc = "live"
  /\ wc # "freed twice"

\* /proc/wcfxs outlives the structure only after a load that failed, until the module
\* is unloaded.
ProcOutlivesOnlyFailure == (proc /\ wc # "live") => failed /\ pc \in {"loaded", "release"}

\* "we need this test to ensure we don't test the hook switch and ring detect before
\* chips initialised": a card is polled only when every card has been dealt with.
PolledReady == polled # {} => todo = {} /\ polled \subseteq cardflag
=============================================================================
