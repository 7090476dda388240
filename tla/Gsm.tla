--------------------------------- MODULE Gsm ---------------------------------
(***************************************************************************)
(* The GSM port: the call states of zaptel-gsm/wcfxs.c, which the interrupt*)
(* handler (wcfxs_gsm_control) and the hook signals of two channels share, *)
(* zaptel's signalling for the port (FXS kewlstart; FXSFLASH and RINGBEGIN *)
(* are not defined, as nothing in the repository defines them; no program  *)
(* freezes the signalling with ZT_SIGFREEZE, which would make zaptel       *)
(* ignore the driver's hook signals), and the modem behind the UART, which *)
(* is external.                                                            *)
(*                                                                         *)
(* Hook signals are given under the channel's lock with interrupts off and *)
(* a poll is part of the interrupt handler, so each is one step.           *)
(***************************************************************************)
EXTENDS Naturals, Sequences

CONSTANTS
  MaxFifo,        \* result codes the receive FIFO holds
  MaxCommands     \* commands on their way to the modem

ASSUME GsmAssumption == MaxFifo \in Nat \ {0} /\ MaxCommands \in Nat \ {0}

VARIABLES
  txstate, txhooksig, otimer, rxhooksig,      \* zaptel's channel
  itimer, ringtrailer, ringdebtimer,          \* whether these timers run
  told,                                       \* the event this step queued for the program
  outgoing_call_state, incomming_call_state, interrupt_count,
  GSM_string,                                 \* the static buffer of GSM_receive
  fifo, commands, phase, owed,                \* the modem; owed: a line end to come
  slipped       \* history: a code was lost or mistaken, or a neighbour ended the call

line == <<txstate, txhooksig, otimer>>
timers == <<itimer, ringtrailer, ringdebtimer>>
calls == <<outgoing_call_state, incomming_call_state>>
poll == <<interrupt_count, GSM_string>>
modem == <<fifo, phase, owed>>
vars == <<line, rxhooksig, timers, told, calls, poll, modem, commands, slipped>>

\* OK, RING, NO CARRIER and ERROR.  BUSY and NO ANSWER, which end only outgoing calls,
\* are handled as NO CARRIER is.
Codes == {"0", "2", "3", "4"}

Quiet == told' = "none"

-----------------------------------------------------------------------------
\* The driver's part of a hook signal to the GSM channel.

GSM_send(command) ==
  /\ Len(commands) < MaxCommands
  /\ commands' = Append(commands, command)

Free == outgoing_call_state = 0 /\ incomming_call_state = 0

\* A broken variant: an incoming call does not stop it from dialling.
dial_over ==
  /\ rxhooksig' = "OFFHOOK"
  /\ GSM_send("atd") /\ outgoing_call_state' = 1
  /\ UNCHANGED incomming_call_state

\* A broken variant: the far end is not taken to be off hook.
dial_blank ==
  /\ IF Free THEN GSM_send("atd") /\ outgoing_call_state' = 1
     ELSE UNCHANGED <<commands, outgoing_call_state>>
  /\ UNCHANGED <<rxhooksig, incomming_call_state>>

\* START with a number.
dial ==
  /\ rxhooksig' = "OFFHOOK"
  /\ IF Free THEN GSM_send("atd") /\ outgoing_call_state' = 1
     ELSE UNCHANGED <<commands, outgoing_call_state>>
  /\ UNCHANGED incomming_call_state

\* START without one, and OFFHOOK.
answer ==
  /\ IF incomming_call_state = 1 THEN GSM_send("ata") /\ incomming_call_state' = 2
     ELSE UNCHANGED <<commands, incomming_call_state>>
  /\ UNCHANGED <<rxhooksig, outgoing_call_state>>

\* A broken variant: a call that the modem has not accepted yet is forgotten.
hang_up_early ==
  /\ IF outgoing_call_state = 2 THEN GSM_send("ath") ELSE UNCHANGED commands
  /\ outgoing_call_state' = 0
  /\ UNCHANGED <<rxhooksig, incomming_call_state>>

\* ONHOOK ends only an outgoing call, once the modem has accepted it.
hang_up ==
  /\ IF outgoing_call_state = 2 THEN GSM_send("ath") /\ outgoing_call_state' = 0
     ELSE UNCHANGED <<commands, outgoing_call_state>>
  /\ UNCHANGED <<rxhooksig, incomming_call_state>>

\* An FXS channel of the board goes on hook.  The driver takes the incoming call to be
\* over, but writes "ath" to the FXS port.
FxsOnhook ==
  /\ incomming_call_state = 2 /\ incomming_call_state' = 0
  /\ slipped' = TRUE
  /\ Quiet
  /\ UNCHANGED <<line, rxhooksig, timers, outgoing_call_state, poll, modem, commands>>

-----------------------------------------------------------------------------
\* zaptel signals to the driver when the signal changes.

zt_rbs_sethook(next) ==
  /\ txstate' = next.state /\ txhooksig' = next.sig /\ otimer' = next.timed
  /\ \/ next.sig = txhooksig /\ UNCHANGED <<rxhooksig, calls, commands>>
     \/ next.sig # txhooksig /\ next.sig = "ONHOOK" /\ hang_up
     \/ next.sig # txhooksig /\ next.sig # "ONHOOK" /\ answer

Timed(s, x) == [sig |-> s, state |-> x, timed |-> TRUE]
Lasting(s) == [sig |-> s, state |-> s, timed |-> FALSE]

Requests ==
  [start   |-> Timed("START", "START"),
   offhook |-> Timed("OFFHOOK", "DEBOUNCE"),
   wink    |-> Timed("ONHOOK", "PREWINK"),
   flash   |-> Timed("OFFHOOK", "PREFLASH"),
   ringoff |-> Lasting("ONHOOK"),
   onhook  |-> Lasting("ONHOOK")]

\* START and WINK need a channel on hook, FLASH one off hook.  ONHOOK is zt_hangup,
\* which also keeps off rings for a while.
ZT_HOOK(request) ==
  /\ request \in {"start", "wink"} => txstate = "ONHOOK"
  /\ request = "flash" => txstate = "OFFHOOK"
  /\ zt_rbs_sethook(Requests[request])
  /\ ringdebtimer' = (ringdebtimer \/ request = "onhook")
  /\ Quiet
  /\ UNCHANGED <<itimer, ringtrailer, poll, modem, slipped>>

\* ZT_DIAL, in __do_dtmf: "T" or "P" gives START to the driver directly.
ZT_DIAL(number) ==
  /\ IF number THEN dial ELSE answer
  /\ Quiet
  /\ UNCHANGED <<line, timers, poll, modem, slipped>>

\* What follows each timed state.
Expiries ==
  [START      |-> Timed("OFFHOOK", "AFTERSTART"),
   AFTERSTART |-> Lasting("OFFHOOK"),
   DEBOUNCE   |-> Lasting("OFFHOOK"),
   PREFLASH   |-> Timed("ONHOOK", "FLASH"),
   FLASH      |-> Lasting("OFFHOOK"),
   PREWINK    |-> Timed("OFFHOOK", "WINK"),
   WINK       |-> Lasting("ONHOOK")]

\* The driver may have changed the state since the timer was set: then nothing follows.
__rbs_otimer_expire ==
  /\ otimer
  /\ \/ txstate \in DOMAIN Expiries /\ zt_rbs_sethook(Expiries[txstate])
     \/ /\ txstate \notin DOMAIN Expiries /\ otimer' = FALSE
        /\ UNCHANGED <<txstate, txhooksig, rxhooksig, calls, commands>>
  /\ itimer' = (itimer \/ (txstate = "DEBOUNCE" /\ rxhooksig = "ONHOOK"))
  /\ Quiet
  /\ UNCHANGED <<ringtrailer, ringdebtimer, poll, modem, slipped>>

\* For a kewlstart channel this reports "off hook", whatever the far end did.
rbs_itimer_expire ==
  /\ itimer
  /\ itimer' = FALSE /\ told' = "RINGOFFHOOK"
  /\ UNCHANGED <<line, rxhooksig, ringtrailer, ringdebtimer, calls, poll, modem, commands, slipped>>

\* The ring timers of zt_receive: the trailer runs from the end of a RING signal.
RingTrailer ==
  /\ ringtrailer /\ rxhooksig # "RING"
  /\ ringtrailer' = FALSE
  /\ told' = IF ringdebtimer THEN "none" ELSE "RINGOFFHOOK"
  /\ UNCHANGED <<line, rxhooksig, itimer, ringdebtimer, calls, poll, modem, commands, slipped>>

RingDebounced ==
  /\ ringdebtimer /\ ringdebtimer' = FALSE
  /\ Quiet
  /\ UNCHANGED <<line, rxhooksig, itimer, ringtrailer, calls, poll, modem, commands, slipped>>

\* The driver signals to zaptel.  Only a change counts, and a hang-up is an event only
\* when the channel is off hook and stable.
zt_hooksig(sig, state) ==
  LET hungup == sig = "ONHOOK" /\ rxhooksig # "ONHOOK" /\ state = "OFFHOOK"
  IN  /\ rxhooksig' = sig
      /\ ringtrailer' = (sig = "RING" \/ (ringtrailer /\ ~hungup))
      /\ ringdebtimer' = (ringdebtimer \/ hungup)
      /\ told' = IF hungup THEN "ONHOOK" ELSE "none"

NoSignal == Quiet /\ UNCHANGED <<rxhooksig, ringtrailer, ringdebtimer>>

-----------------------------------------------------------------------------
\* The poll.

\* The codes in the FIFO, which holds a line end only when it holds nothing else.
Received == IF fifo = <<"cr">> THEN <<>> ELSE fifo

\* Empties the FIFO and returns the first code in it; what it returned last time, if
\* there is only a line end; "x" if there is nothing.
GSM_receive ==
  IF Received # <<>> THEN Head(Received) ELSE IF fifo # <<>> THEN GSM_string ELSE "x"

\* Waiting for the modem to accept the number: any other code is a refusal.
Dialling(code) ==
  /\ outgoing_call_state = 1
  /\ \/ code = "x" /\ UNCHANGED outgoing_call_state /\ NoSignal
     \/ code = "0" /\ outgoing_call_state' = 2 /\ NoSignal
     \/ code \notin {"x", "0"} /\ outgoing_call_state' = 0 /\ zt_hooksig("ONHOOK", txstate)
  /\ UNCHANGED <<incomming_call_state, interrupt_count, txstate>>

Outgoing(code) ==
  /\ outgoing_call_state = 2
  /\ \/ code = "3" /\ outgoing_call_state' = 0 /\ zt_hooksig("ONHOOK", txstate)
     \/ code # "3" /\ UNCHANGED outgoing_call_state /\ NoSignal
  /\ UNCHANGED <<incomming_call_state, interrupt_count, txstate>>

\* A broken variant: a ring that goes on is not given to zaptel again.
ring_once(code) ==
  LET count == IF code = "2" /\ incomming_call_state = 0 THEN 2 ELSE interrupt_count
  IN  \/ /\ count = 2 /\ interrupt_count' = 1 /\ UNCHANGED incomming_call_state
         /\ zt_hooksig("RING", txstate')
      \/ /\ count = 1 /\ interrupt_count' = 0 /\ incomming_call_state' = 1
         /\ zt_hooksig("OFFHOOK", txstate')
      \/ count = 0 /\ UNCHANGED <<interrupt_count, incomming_call_state>> /\ NoSignal

\* A ring is given to zaptel as RING in one poll and as OFFHOOK in the next.
ring(code) ==
  LET count == IF code = "2" THEN 2 ELSE interrupt_count
  IN  \/ /\ count = 2 /\ interrupt_count' = 1 /\ UNCHANGED incomming_call_state
         /\ zt_hooksig("RING", txstate')
      \/ /\ count = 1 /\ interrupt_count' = 0 /\ incomming_call_state' = 1
         /\ zt_hooksig("OFFHOOK", txstate')
      \/ count = 0 /\ UNCHANGED <<interrupt_count, incomming_call_state>> /\ NoSignal

Idle(code) ==
  /\ outgoing_call_state = 0 /\ incomming_call_state = 0
  /\ UNCHANGED <<txstate, outgoing_call_state>>
  /\ ring(code)

\* The driver puts the channel off hook itself, so that zaptel reports a hang-up.
Ringing(code) ==
  /\ outgoing_call_state = 0 /\ incomming_call_state = 1
  /\ txstate' = "OFFHOOK"
  /\ \/ /\ code = "3" /\ incomming_call_state' = 0 /\ interrupt_count' = 0
        /\ zt_hooksig("ONHOOK", txstate')
     \/ code # "3" /\ ring(code)
  /\ UNCHANGED outgoing_call_state

Incoming(code) ==
  /\ outgoing_call_state = 0 /\ incomming_call_state = 2
  /\ \/ code = "3" /\ incomming_call_state' = 0 /\ zt_hooksig("ONHOOK", txstate)
     \/ code # "3" /\ UNCHANGED incomming_call_state /\ NoSignal
  /\ UNCHANGED <<outgoing_call_state, interrupt_count, txstate>>

\* It slips when the FIFO holds a second code, and when, in a call, what it reads was
\* sent before the modem had the driver's last command.
wcfxs_gsm_control ==
  LET code == GSM_receive
  IN  /\ Dialling(code) \/ Outgoing(code) \/ Idle(code) \/ Ringing(code) \/ Incoming(code)
      /\ fifo' = <<>> /\ GSM_string' = code
      /\ slipped' = (\/ slipped
                     \/ Len(Received) > 1
                     \/ code # "x" /\ commands # <<>> /\ ~Free)
      /\ UNCHANGED <<txhooksig, otimer, itimer, commands, phase, owed>>

-----------------------------------------------------------------------------
\* The modem (external).  The line end of a result code comes with it or later; in the
\* FIFO it matters only when it is alone there.

Sends(code) ==
  /\ Len(Received) < MaxFifo
  /\ fifo' = Append(Received, code)
  /\ owed' \in BOOLEAN

SendsLineEnd ==
  /\ owed /\ owed' = FALSE
  /\ fifo' = IF fifo = <<>> THEN <<"cr">> ELSE fifo
  /\ UNCHANGED <<commands, phase>>

\* A number may be refused, or find the line taken by a call that comes in.
Replies(command) ==
  \/ command = "atd" /\ phase = "idle" /\ phase' = "talking" /\ Sends("0")
  \/ command = "atd" /\ UNCHANGED phase /\ \E code \in {"3", "4"} : Sends(code)
  \/ command = "ata" /\ phase = "ringing" /\ phase' = "talking" /\ Sends("0")
  \/ command = "ata" /\ phase # "ringing" /\ UNCHANGED phase /\ Sends("3")
  \/ command = "ath" /\ phase' = "idle" /\ Sends("0")

Serves == commands # <<>> /\ Replies(Head(commands)) /\ commands' = Tail(commands)

\* The network: a call comes in, is given up, or ends.  A call that goes on ringing does
\* so every few seconds, so zaptel's trailer (150 ms) has run out since the last time.
Rings ==
  /\ \/ phase = "idle"
     \/ phase = "ringing" /\ ~ringtrailer /\ interrupt_count = 0
  /\ phase' = "ringing" /\ Sends("2")
  /\ UNCHANGED commands

FarEndLeaves ==
  /\ phase \in {"ringing", "talking"} /\ phase' = "idle" /\ Sends("3")
  /\ UNCHANGED commands

Modem(step) ==
  /\ step
  /\ Quiet
  /\ UNCHANGED <<line, rxhooksig, timers, calls, poll, slipped>>

-----------------------------------------------------------------------------
Init ==
  /\ txstate = "ONHOOK" /\ txhooksig = "ONHOOK" /\ rxhooksig = "INITIAL" /\ otimer = FALSE
  /\ itimer = FALSE /\ ringtrailer = FALSE /\ ringdebtimer = FALSE /\ told = "none"
  /\ outgoing_call_state = 0 /\ incomming_call_state = 0
  /\ interrupt_count = 0 /\ GSM_string = "x"
  /\ fifo = <<>> /\ commands = <<>> /\ phase = "idle" /\ owed = FALSE
  /\ slipped = FALSE

Next ==
  \/ \E request \in DOMAIN Requests : ZT_HOOK(request)
  \/ \E number \in BOOLEAN : ZT_DIAL(number)
  \/ __rbs_otimer_expire \/ rbs_itimer_expire \/ RingTrailer \/ RingDebounced
  \/ wcfxs_gsm_control \/ FxsOnhook
  \/ Modem(Serves) \/ Modem(Rings) \/ Modem(FarEndLeaves) \/ Modem(SendsLineEnd)

Spec == Init /\ [][Next]_vars

\* The port is polled and its ring timers run in every interrupt, and a call that comes
\* in goes on ringing until it is answered or given up.
FairSpec ==
  /\ Spec
  /\ WF_vars(wcfxs_gsm_control) /\ WF_vars(RingTrailer) /\ WF_vars(RingDebounced)
  /\ WF_vars(phase = "ringing" /\ Modem(Rings))

-----------------------------------------------------------------------------
InCall == outgoing_call_state = 2 \/ incomming_call_state = 2

\* wcfxs_hooksig and wcfxs_gsm_control never have an outgoing and an incoming call at
\* once, though one dials and the other takes rings.
OneCall == outgoing_call_state = 0 \/ incomming_call_state = 0

\* When no command and no result code is on its way between them (a line end may be), the
\* driver is in a call exactly when the modem is: no result code is taken for another,
\* unless two came in one poll, one came while a command was on its way, or an FXS channel
\* ended the call.
Agree ==
  commands = <<>> /\ fifo = <<>> /\ ~slipped => (InCall <=> phase = "talking")

Dropped == fifo # <<>> /\ fifo' = <<>> /\ ~Free /\ calls' = <<0, 0>>

\* When wcfxs_gsm_control gives up a call on the modem's word and the channel is off hook
\* and stable, zaptel tells the program: its signal was never already "on hook".
DropTold == [][Dropped /\ txstate' = "OFFHOOK" => told' = "ONHOOK"]_vars

Waiting == phase = "ringing" /\ outgoing_call_state = 0 /\ incomming_call_state # 2

\* A call that goes on ringing is reported, again and again, until someone takes it: no
\* order of polls, timers and earlier calls leaves the ring unheard, unless the program
\* hangs up for ever, which starts ringdebtimer anew.
RingTold ==
  <>[][~ZT_HOOK("onhook")]_vars => []<>(told = "RINGOFFHOOK" \/ ~Waiting)
=============================================================================
