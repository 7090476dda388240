------------------------------ MODULE GsmProofs -------------------------------
(***************************************************************************)
(* The safety of the GSM port's call states, for a receive FIFO and a      *)
(* command queue of any length.                                            *)
(***************************************************************************)
EXTENDS Gsm, TLAPS

CallStates ==
  /\ outgoing_call_state \in 0..2
  /\ incomming_call_state \in 0..2
  /\ interrupt_count \in 0..2

\* In a call, and while one rings, zaptel takes the far end to be off hook or ringing.
Heard == Free \/ rxhooksig # "ONHOOK"

IInv == CallStates /\ OneCall /\ Heard

Kept == <<calls, interrupt_count, rxhooksig>>

\* What none of the three call states and the far end's signal is part of changes nothing.
LEMMA KeptKeeps == IInv /\ UNCHANGED Kept => IInv'
  BY DEF IInv, CallStates, OneCall, Heard, Free, Kept, calls

\* Each of the driver's reactions to a hook signal keeps the invariant.
LEMMA DialKeeps == IInv /\ dial /\ UNCHANGED interrupt_count => IInv'
  BY DEF IInv, CallStates, OneCall, Heard, Free, dial

\* Answering a ring keeps the invariant.
LEMMA AnswerKeeps == IInv /\ answer /\ UNCHANGED interrupt_count => IInv'
  BY DEF IInv, CallStates, OneCall, Heard, Free, answer

\* Ending an outgoing call keeps it.
LEMMA HangUpKeeps == IInv /\ hang_up /\ UNCHANGED interrupt_count => IInv'
  BY DEF IInv, CallStates, OneCall, Heard, Free, hang_up

\* A change of zaptel's own state keeps it, whatever the state that follows.
LEMMA SethookKeeps ==
  ASSUME NEW next, IInv, zt_rbs_sethook(next), UNCHANGED interrupt_count
  PROVE  IInv'
<1>1. CASE UNCHANGED <<rxhooksig, calls, commands>>
  BY <1>1, KeptKeeps DEF Kept
<1>2. CASE hang_up
  BY <1>2, HangUpKeeps
<1>3. CASE answer
  BY <1>3, AnswerKeeps
<1> QED
  BY <1>1, <1>2, <1>3 DEF zt_rbs_sethook

\* A ring that is passed on keeps it when there is no call yet.
LEMMA RingKeeps ==
  ASSUME NEW code, IInv, outgoing_call_state = 0, UNCHANGED outgoing_call_state, ring(code)
  PROVE  IInv'
<1> DEFINE count == IF code = "2" THEN 2 ELSE interrupt_count
<1>1. CASE interrupt_count' = 1 /\ UNCHANGED incomming_call_state /\ rxhooksig' = "RING"
  BY <1>1 DEF IInv, CallStates, OneCall, Heard, Free
<1>2. CASE interrupt_count' = 0 /\ incomming_call_state' = 1 /\ rxhooksig' = "OFFHOOK"
  BY <1>2 DEF IInv, CallStates, OneCall, Heard, Free
<1>3. CASE UNCHANGED <<interrupt_count, incomming_call_state, rxhooksig>>
  BY <1>3, KeptKeeps DEF Kept, calls
<1> QED
  BY <1>1, <1>2, <1>3 DEF ring, zt_hooksig, NoSignal

\* A poll keeps it: each state of the call takes the modem's word in its own way.
LEMMA PollKeeps == IInv /\ wcfxs_gsm_control => IInv'
<1> SUFFICES ASSUME IInv, wcfxs_gsm_control PROVE IInv'
  OBVIOUS
<1> DEFINE code == GSM_receive
<1>1. CASE Dialling(code)
  <2>1. CASE UNCHANGED outgoing_call_state /\ NoSignal
    BY <1>1, <2>1, KeptKeeps DEF Dialling, NoSignal, Kept, calls
  <2>2. CASE outgoing_call_state' = 2 /\ NoSignal
    BY <1>1, <2>2 DEF Dialling, NoSignal, IInv, CallStates, OneCall, Heard, Free
  <2>3. CASE outgoing_call_state' = 0
    BY <1>1, <2>3 DEF Dialling, IInv, CallStates, OneCall, Heard, Free
  <2> QED
    BY <1>1, <2>1, <2>2, <2>3 DEF Dialling
<1>2. CASE Outgoing(code)
  <2>1. CASE UNCHANGED outgoing_call_state /\ NoSignal
    BY <1>2, <2>1, KeptKeeps DEF Outgoing, NoSignal, Kept, calls
  <2>2. CASE outgoing_call_state' = 0
    BY <1>2, <2>2 DEF Outgoing, IInv, CallStates, OneCall, Heard, Free
  <2> QED
    BY <1>2, <2>1, <2>2 DEF Outgoing
<1>3. CASE Idle(code)
  BY <1>3, RingKeeps DEF Idle
<1>4. CASE Ringing(code)
  <2>1. CASE ring(code)
    BY <1>4, <2>1, RingKeeps DEF Ringing
  <2>2. CASE incomming_call_state' = 0 /\ interrupt_count' = 0
    BY <1>4, <2>2 DEF Ringing, IInv, CallStates, OneCall, Heard, Free
  <2> QED
    BY <1>4, <2>1, <2>2 DEF Ringing
<1>5. CASE Incoming(code)
  <2>1. CASE UNCHANGED incomming_call_state /\ NoSignal
    BY <1>5, <2>1, KeptKeeps DEF Incoming, NoSignal, Kept, calls
  <2>2. CASE incomming_call_state' = 0
    BY <1>5, <2>2 DEF Incoming, IInv, CallStates, OneCall, Heard, Free
  <2> QED
    BY <1>5, <2>1, <2>2 DEF Incoming
<1> QED
  BY <1>1, <1>2, <1>3, <1>4, <1>5 DEF wcfxs_gsm_control

\* Every step keeps the invariant.
LEMMA NextKeeps == IInv /\ [Next]_vars => IInv'
<1> SUFFICES ASSUME IInv, [Next]_vars PROVE IInv'
  OBVIOUS
<1>1. ASSUME NEW request \in DOMAIN Requests, ZT_HOOK(request) PROVE IInv'
  BY <1>1, SethookKeeps DEF ZT_HOOK, poll
<1>2. ASSUME NEW number \in BOOLEAN, ZT_DIAL(number) PROVE IInv'
  BY <1>2, DialKeeps, AnswerKeeps DEF ZT_DIAL, poll
<1>3. CASE __rbs_otimer_expire
  <2>1. CASE UNCHANGED <<txstate, txhooksig, rxhooksig, calls, commands>>
    BY <1>3, <2>1, KeptKeeps DEF __rbs_otimer_expire, Kept, poll
  <2>2. CASE zt_rbs_sethook(Expiries[txstate])
    BY <1>3, <2>2, SethookKeeps DEF __rbs_otimer_expire, poll
  <2> QED
    BY <1>3, <2>1, <2>2 DEF __rbs_otimer_expire
<1>4. CASE rbs_itimer_expire
  BY <1>4, KeptKeeps DEF rbs_itimer_expire, Kept, poll
<1>5. CASE RingTrailer
  BY <1>5, KeptKeeps DEF RingTrailer, Kept, poll
<1>6. CASE RingDebounced
  BY <1>6, KeptKeeps DEF RingDebounced, Kept, poll
<1>7. CASE wcfxs_gsm_control
  BY <1>7, PollKeeps
<1>8. CASE FxsOnhook
  BY <1>8 DEF FxsOnhook, poll, IInv, CallStates, OneCall, Heard, Free
<1>9. CASE Modem(Serves) \/ Modem(Rings) \/ Modem(FarEndLeaves) \/ Modem(SendsLineEnd)
  BY <1>9, KeptKeeps DEF Modem, Kept, poll
<1>10. CASE UNCHANGED vars
  BY <1>10, KeptKeeps DEF vars, Kept, poll
<1> QED
  BY <1>1, <1>2, <1>3, <1>4, <1>5, <1>6, <1>7, <1>8, <1>9, <1>10 DEF Next

\* The invariant holds throughout.
LEMMA Invariance == Spec => []IInv
<1>1. Init => IInv
  BY DEF Init, IInv, CallStates, OneCall, Heard, Free
<1> QED
  BY <1>1, NextKeeps, PTL DEF Spec

\* The call states that wcfxs_hooksig and wcfxs_gsm_control share never hold an outgoing
\* and an incoming call at once.
THEOREM NeverTwoCalls == Spec => []OneCall
<1>1. IInv => OneCall
  BY DEF IInv
<1> QED
  BY <1>1, Invariance, PTL

\* A poll that gives up a call is one that signals "on hook".
LEMMA DropSignals ==
  ASSUME IInv, wcfxs_gsm_control, Dropped
  PROVE  zt_hooksig("ONHOOK", txstate')
<1> USE DEF IInv, CallStates, OneCall, Free, Dropped, calls
<1> DEFINE code == GSM_receive
<1>1. CASE Dialling(code)
  BY <1>1 DEF Dialling
<1>2. CASE Outgoing(code)
  BY <1>2 DEF Outgoing
<1>3. CASE Idle(code)
  BY <1>3 DEF Idle
<1>4. CASE Ringing(code)
  BY <1>4 DEF Ringing, ring
<1>5. CASE Incoming(code)
  BY <1>5 DEF Incoming
<1> QED
  BY <1>1, <1>2, <1>3, <1>4, <1>5 DEF wcfxs_gsm_control

\* A call given up on the modem's word is reported to a program whose channel is off hook
\* and stable: zt_hooksig does not find its signal unchanged.
THEOREM DropsAreTold == Spec => DropTold
<1>1. ASSUME IInv, [Next]_vars, Dropped, txstate' = "OFFHOOK"
      PROVE  told' = "ONHOOK"
  <2>1. wcfxs_gsm_control
    <3>1. fifo' # fifo
      BY <1>1 DEF Dropped
    <3>2. ~Modem(Serves) /\ ~Modem(Rings) /\ ~Modem(FarEndLeaves) /\ ~Modem(SendsLineEnd)
      BY <1>1 DEF Dropped, Modem, Free, calls
    <3> QED
      BY <1>1, <3>1, <3>2 DEF Next, vars, modem, ZT_HOOK, ZT_DIAL, __rbs_otimer_expire,
         rbs_itimer_expire, RingTrailer, RingDebounced, FxsOnhook
  <2>2. zt_hooksig("ONHOOK", txstate')
    BY <1>1, <2>1, DropSignals
  <2>3. rxhooksig # "ONHOOK"
    BY <1>1 DEF IInv, Heard, Dropped
  <2> QED
    BY <1>1, <2>2, <2>3, Zenon DEF zt_hooksig
<1>2. IInv /\ [Next]_vars => [Dropped /\ txstate' = "OFFHOOK" => told' = "ONHOOK"]_vars
  BY <1>1
<1> QED
  BY <1>2, Invariance, PTL DEF Spec, DropTold

-----------------------------------------------------------------------------
\* Driver and modem agree.

\* The FIFO holds codes, or a line end alone.
Types ==
  /\ fifo \in Seq(Codes) \/ fifo = <<"cr">>
  /\ commands \in Seq({"atd", "ata", "ath"})
  /\ phase \in {"idle", "ringing", "talking"}
  /\ slipped \in BOOLEAN

\* More codes are in the FIFO or to come than the driver's state can use: a later poll
\* will slip.
Lost ==
  \/ Len(Received) > 1
  \/ (outgoing_call_state = 1 \/ incomming_call_state = 2) /\ Len(Received) + Len(commands) > 1

\* Without a call, nothing but the hang-up of the last one is on its way.
NoCall ==
  outgoing_call_state = 0 /\ incomming_call_state # 2 =>
    commands = <<"ath">> \/ (commands = <<>> /\ phase # "talking")

\* A number the driver dialled is on its way, or the modem's answer to it.
Dialled ==
  outgoing_call_state = 1 =>
    \/ commands = <<"atd">> /\ Received = <<>> /\ phase # "talking"
    \/ commands = <<>> /\ Received = <<"0">> /\ phase = "talking"
    \/ commands = <<>> /\ Received \in {<<"3">>, <<"4">>} /\ phase # "talking"

\* In an outgoing call the modem talks or its NO CARRIER is in the FIFO, and what a line
\* end repeats is no NO CARRIER.
Accepted ==
  outgoing_call_state = 2 =>
    /\ commands = <<>> /\ GSM_string \in {"0", "x"}
    /\ \/ Received = <<>> /\ phase = "talking"
       \/ Received = <<"3">> /\ phase # "talking"

\* The same for an incoming call that the driver has answered.
Answered ==
  incomming_call_state = 2 =>
    \/ commands = <<"ata">> /\ Received = <<>> /\ phase # "talking"
    \/ commands = <<>> /\ Received = <<"0">> /\ phase = "talking"
    \/ commands = <<>> /\ Received = <<"3">> /\ phase # "talking"
    \/ commands = <<>> /\ Received = <<>> /\ phase = "talking" /\ GSM_string \in {"0", "x"}

Tracked == slipped \/ Lost \/ (NoCall /\ Dialled /\ Accepted /\ Answered)

AInv == IInv /\ Types /\ Tracked

\* What changes none of these changes nothing.
LEMMA TrackKept ==
  AInv /\ UNCHANGED <<calls, GSM_string, fifo, commands, phase, slipped>> => Types' /\ Tracked'
<1> SUFFICES ASSUME AInv, UNCHANGED <<calls, GSM_string, fifo, commands, phase, slipped>>
             PROVE  Types' /\ Tracked'
  OBVIOUS
<1>1. Types'
  BY DEF AInv, Types
<1>2. Received' = Received
  BY DEF Received
<1>3. Tracked' = Tracked
  BY <1>2 DEF Tracked, Lost, NoCall, Dialled, Accepted, Answered, calls
<1> QED BY <1>1, <1>3 DEF AInv

\* The codes in the FIFO.
LEMMA ReceivedIs ==
  ASSUME Types
  PROVE  /\ Received \in Seq(Codes) /\ Len(Received) \in Nat
         /\ fifo = <<>> => Received = <<>>
         /\ Len(Received) = 0 <=> Received = <<>>
<1>1. Received \in Seq(Codes)
  BY DEF Types, Received
<1>2. fifo = <<>> => Received = <<>>
  BY DEF Received
<1> QED BY <1>1, <1>2

\* A code the modem sends comes last.
LEMMA SendsIs ==
  ASSUME Types, NEW code \in Codes, Sends(code)
  PROVE  /\ fifo' \in Seq(Codes)
         /\ Len(Received') = Len(Received) + 1
         /\ Received = <<>> => Received' = <<code>>
<1>1. Received \in Seq(Codes)
  BY ReceivedIs
<1>2. fifo' = Append(Received, code)
  BY DEF Sends
<1>3. fifo' \in Seq(Codes) /\ Len(fifo') = Len(Received) + 1
  BY <1>1, <1>2
<1>4. fifo' # <<"cr">>
  <2>1. "cr" \notin Codes
    BY DEF Codes
  <2>2. fifo' = <<"cr">> => fifo'[1] = "cr" /\ Len(fifo') = 1
    OBVIOUS
  <2>3. Len(fifo') = 1 => fifo'[1] \in Codes
    BY <1>3
  <2> QED BY <2>1, <2>2, <2>3
<1>5. Received' = fifo'
  BY <1>4 DEF Received
<1>6. Received = <<>> => fifo' = <<code>>
  BY <1>2
<1> QED BY <1>3, <1>5, <1>6

\* A command the driver sends comes last.
LEMMA SendIs ==
  ASSUME Types, NEW command \in {"atd", "ata", "ath"}, GSM_send(command)
  PROVE  /\ commands' \in Seq({"atd", "ata", "ath"})
         /\ Len(commands') = Len(commands) + 1
         /\ commands = <<>> => commands' = <<command>>
<1>1. commands \in Seq({"atd", "ata", "ath"}) /\ commands' = Append(commands, command)
  BY DEF Types, GSM_send
<1>2. commands' \in Seq({"atd", "ata", "ath"}) /\ Len(commands') = Len(commands) + 1
  BY <1>1
<1>3. commands = <<>> => commands' = <<command>>
  BY <1>1
<1> QED BY <1>2, <1>3

\* How many commands are on their way.
LEMMA CommandsAre ==
  ASSUME Types
  PROVE  /\ Len(commands) \in Nat
         /\ commands = <<>> => Len(commands) = 0
         /\ \A c : commands = <<c>> => Len(commands) = 1
BY DEF Types

\* Dialling: the number is the only command on its way and no code is in the FIFO, or a
\* later poll slips.
LEMMA DialTracks ==
  ASSUME AInv, dial, UNCHANGED <<GSM_string, fifo, phase, slipped>>
  PROVE  Types' /\ Tracked'
<1>0. Types /\ Tracked /\ CallStates /\ Received' = Received
  BY DEF AInv, IInv, Received
<1>1. CASE Free
  <2>1. GSM_send("atd") /\ outgoing_call_state' = 1 /\ UNCHANGED incomming_call_state
    BY <1>1 DEF dial
  <2>2. /\ commands' \in Seq({"atd", "ata", "ath"}) /\ Len(commands') = Len(commands) + 1
        /\ commands = <<>> => commands' = <<"atd">>
    BY <1>0, <2>1, SendIs
  <2>3. Types'
    BY <1>0, <2>2 DEF Types
  <2>4. CASE Len(Received) > 1
    BY <1>0, <2>3, <2>4 DEF Tracked, Lost
  <2>5. CASE commands = <<"ath">> \/ Received # <<>>
    <3>1. Len(Received) + Len(commands') > 1
      BY <1>0, <2>2, <2>5, ReceivedIs, CommandsAre
    <3> QED BY <1>0, <2>1, <2>3, <3>1 DEF Tracked, Lost
  <2>6. CASE commands = <<>> /\ phase # "talking" /\ Received = <<>>
    BY <1>0, <1>1, <2>1, <2>2, <2>3, <2>6 DEF Tracked, NoCall, Dialled, Accepted, Answered, Free
  <2>7. CASE slipped
    BY <2>3, <2>7 DEF Tracked
  <2>8. slipped \/ Len(Received) > 1 \/ commands = <<"ath">> \/ (commands = <<>> /\ phase # "talking")
    BY <1>0, <1>1 DEF Tracked, Lost, NoCall, Free
  <2> QED BY <2>3, <2>4, <2>5, <2>6, <2>7, <2>8
<1>2. CASE ~Free
  BY <1>2, TrackKept DEF dial, calls
<1> QED BY <1>1, <1>2

\* Answering likewise.
LEMMA AnswerTracks ==
  ASSUME AInv, answer, UNCHANGED <<GSM_string, fifo, phase, slipped>>
  PROVE  Types' /\ Tracked'
<1>0. Types /\ Tracked /\ CallStates /\ OneCall /\ Received' = Received
  BY Zenon DEF AInv, IInv, Received
<1>1. CASE incomming_call_state = 1
  <2>0. outgoing_call_state = 0
    BY <1>0, <1>1 DEF OneCall
  <2>1. GSM_send("ata") /\ incomming_call_state' = 2 /\ UNCHANGED outgoing_call_state
    BY <1>1 DEF answer
  <2>2. /\ commands' \in Seq({"atd", "ata", "ath"}) /\ Len(commands') = Len(commands) + 1
        /\ commands = <<>> => commands' = <<"ata">>
    BY <1>0, <2>1, SendIs
  <2>3. Types'
    BY <1>0, <2>2 DEF Types
  <2>4. CASE Len(Received) > 1
    BY <1>0, <2>3, <2>4 DEF Tracked, Lost
  <2>5. CASE commands = <<"ath">> \/ Received # <<>>
    <3>1. Len(Received) + Len(commands') > 1
      BY <1>0, <2>2, <2>5, ReceivedIs, CommandsAre
    <3> QED BY <1>0, <2>1, <2>3, <3>1, Zenon DEF Tracked, Lost
  <2>6. CASE commands = <<>> /\ phase # "talking" /\ Received = <<>>
    BY <1>0, <2>0, <2>1, <2>2, <2>3, <2>6 DEF Tracked, NoCall, Dialled, Accepted, Answered
  <2>7. CASE slipped
    BY <2>3, <2>7 DEF Tracked
  <2>8. slipped \/ Len(Received) > 1 \/ commands = <<"ath">> \/ (commands = <<>> /\ phase # "talking")
    BY <1>0, <1>1, <2>0 DEF Tracked, Lost, NoCall
  <2> QED BY <2>3, <2>4, <2>5, <2>6, <2>7, <2>8
<1>2. CASE incomming_call_state # 1
  BY <1>2, TrackKept DEF answer, calls
<1> QED BY <1>1, <1>2

\* The hang-up of an accepted call is the only command on its way.
LEMMA HangUpTracks ==
  ASSUME AInv, hang_up, UNCHANGED <<GSM_string, fifo, phase, slipped>>
  PROVE  Types' /\ Tracked'
<1>0. Types /\ Tracked /\ CallStates /\ OneCall /\ Received' = Received
  BY DEF AInv, IInv, Received
<1>1. CASE outgoing_call_state = 2
  <2>0. incomming_call_state = 0
    BY <1>0, <1>1 DEF OneCall
  <2>1. GSM_send("ath") /\ outgoing_call_state' = 0 /\ UNCHANGED incomming_call_state
    BY <1>1 DEF hang_up
  <2>2. /\ commands' \in Seq({"atd", "ata", "ath"})
        /\ commands = <<>> => commands' = <<"ath">>
    BY <1>0, <2>1, SendIs, Zenon
  <2>3. Types'
    BY <1>0, <2>2, Zenon DEF Types
  <2>4. CASE slipped \/ Len(Received) > 1
    BY <1>0, <2>3, <2>4, Zenon DEF Tracked, Lost
  <2>5. CASE commands = <<>>
    BY <1>0, <2>0, <2>1, <2>2, <2>3, <2>5 DEF Tracked, NoCall, Dialled, Accepted, Answered
  <2>6. slipped \/ Len(Received) > 1 \/ commands = <<>>
    BY <1>0, <1>1, <2>0 DEF Tracked, Lost, Accepted
  <2> QED BY <2>3, <2>4, <2>5, <2>6
<1>2. CASE outgoing_call_state # 2
  BY <1>2, TrackKept, Zenon DEF hang_up, calls
<1> QED BY <1>1, <1>2

\* So do zaptel's changes of state.
LEMMA SethookTracks ==
  ASSUME NEW next, AInv, zt_rbs_sethook(next), UNCHANGED <<GSM_string, fifo, phase, slipped>>
  PROVE  Types' /\ Tracked'
<1>1. CASE UNCHANGED <<rxhooksig, calls, commands>>
  BY <1>1, TrackKept
<1>2. CASE hang_up
  BY <1>2, HangUpTracks
<1>3. CASE answer
  BY <1>3, AnswerTracks
<1> QED
  BY <1>1, <1>2, <1>3, Zenon DEF zt_rbs_sethook

\* The modem serves the oldest command with one code.
LEMMA ServesIs ==
  ASSUME Types, Serves
  PROVE  /\ commands' \in Seq({"atd", "ata", "ath"}) /\ Len(commands') = Len(commands) - 1
         /\ \A c : commands = <<c>> => Head(commands) = c /\ commands' = <<>>
         /\ \E code \in Codes : Sends(code)
<1>1. commands \in Seq({"atd", "ata", "ath"}) /\ commands # <<>> /\ commands' = Tail(commands)
  BY DEF Types, Serves
<1>2. commands' \in Seq({"atd", "ata", "ath"}) /\ Len(commands') = Len(commands) - 1
  BY <1>1
<1>3. ASSUME NEW c, commands = <<c>> PROVE Head(commands) = c /\ commands' = <<>>
  BY <1>1, <1>3
<1>4. \E code \in Codes : Sends(code)
  BY Zenon DEF Serves, Replies, Codes
<1> QED BY <1>2, <1>3, <1>4

\* A reply: the driver's state was waiting for it, or it has lost track.
LEMMA ServesTracks ==
  ASSUME AInv, Serves, UNCHANGED <<calls, GSM_string, slipped>>
  PROVE  Types' /\ Tracked'
<1>0. Types /\ Tracked /\ CallStates /\ OneCall
  BY DEF AInv, IInv
<1>1. /\ commands' \in Seq({"atd", "ata", "ath"}) /\ Len(commands') = Len(commands) - 1
      /\ \A c : commands = <<c>> => Head(commands) = c /\ commands' = <<>>
  BY <1>0, ServesIs
<1>2. PICK code \in Codes : Sends(code)
  BY <1>0, ServesIs
<1>3. fifo' \in Seq(Codes) /\ Len(Received') = Len(Received) + 1
  BY <1>0, <1>2, SendsIs
<1>4. Replies(Head(commands)) /\ commands # <<>>
  BY DEF Serves
<1>5. Types'
  <2>1. phase' \in {"idle", "ringing", "talking"}
    BY <1>0, <1>4 DEF Types, Replies
  <2> QED BY <1>0, <1>1, <1>3, <2>1, Zenon DEF Types
<1>6. CASE slipped
  BY <1>5, <1>6 DEF Tracked
<1>7. CASE Lost
  <2>1. Lost'
    BY <1>0, <1>1, <1>3, <1>7, ReceivedIs, CommandsAre DEF Lost, calls
  <2> QED BY <1>5, <2>1 DEF Tracked
<1>8. CASE NoCall /\ Dialled /\ Accepted /\ Answered
  <2>1. CASE outgoing_call_state = 0 /\ incomming_call_state # 2
    <3>1. commands' = <<>> /\ phase' = "idle"
      BY <1>1, <1>4, <1>8, <2>1 DEF NoCall, Replies
    <3> QED BY <1>5, <2>1, <3>1 DEF Tracked, NoCall, Dialled, Accepted, Answered, calls
  <2>2. CASE outgoing_call_state = 1
    <3>1. Head(commands) = "atd" /\ commands' = <<>> /\ Received = <<>> /\ phase # "talking"
      BY <1>1, <1>4, <1>8, <2>2, Zenon DEF Dialled
    <3>2. CASE phase' = "talking" /\ Sends("0")
      <4>1. Received' = <<"0">>
        BY <1>0, <3>1, <3>2, SendsIs, Zenon DEF Codes
      <4> QED BY <1>0, <1>5, <2>2, <3>1, <3>2, <4>1
              DEF Tracked, NoCall, Dialled, Accepted, Answered, OneCall, calls
    <3>3. ASSUME UNCHANGED phase, NEW reply \in {"3", "4"}, Sends(reply) PROVE Types' /\ Tracked'
      <4>1. Received' = <<reply>>
        BY <1>0, <3>1, <3>3, SendsIs DEF Codes
      <4> QED BY <1>0, <1>5, <2>2, <3>1, <3>3, <4>1
              DEF Tracked, NoCall, Dialled, Accepted, Answered, OneCall, calls
    <3> QED BY <1>4, <3>1, <3>2, <3>3, Zenon DEF Replies
  <2>3. CASE outgoing_call_state = 2
    BY <1>4, <1>8, <2>3, Zenon DEF Accepted
  <2>4. CASE incomming_call_state = 2
    <3>1. Head(commands) = "ata" /\ commands' = <<>> /\ Received = <<>> /\ phase # "talking"
      BY <1>1, <1>4, <1>8, <2>4, Zenon DEF Answered
    <3>2. CASE phase' = "talking" /\ Sends("0")
      <4>1. Received' = <<"0">>
        BY <1>0, <3>1, <3>2, SendsIs, Zenon DEF Codes
      <4> QED BY <1>0, <1>5, <2>4, <3>1, <3>2, <4>1
              DEF Tracked, NoCall, Dialled, Accepted, Answered, OneCall, calls
    <3>3. CASE UNCHANGED phase /\ Sends("3")
      <4>1. Received' = <<"3">>
        BY <1>0, <3>1, <3>3, SendsIs, Zenon DEF Codes
      <4> QED BY <1>0, <1>5, <2>4, <3>1, <3>3, <4>1
              DEF Tracked, NoCall, Dialled, Accepted, Answered, OneCall, calls
    <3> QED BY <1>4, <3>1, <3>2, <3>3, Zenon DEF Replies
  <2> QED BY <1>0, <2>1, <2>2, <2>3, <2>4 DEF CallStates
<1> QED BY <1>0, <1>6, <1>7, <1>8 DEF Tracked

\* A code the network causes: NO CARRIER ends a call, any other finds no call to disturb
\* or makes the driver lose track.
LEMMA NetworkTracks ==
  ASSUME AInv, Rings \/ FarEndLeaves, UNCHANGED <<calls, GSM_string, slipped>>
  PROVE  Types' /\ Tracked'
<1>0. Types /\ Tracked /\ CallStates /\ OneCall
  BY DEF AInv, IInv
<1>1. /\ commands' = commands /\ phase' \in {"idle", "ringing"}
      /\ phase = "talking" => Sends("3")
      /\ Sends("2") \/ Sends("3")
  BY DEF Rings, FarEndLeaves
<1>2. /\ fifo' \in Seq(Codes) /\ Len(Received') = Len(Received) + 1
      /\ Received = <<>> /\ phase = "talking" => Received' = <<"3">>
  BY <1>0, <1>1, SendsIs, Zenon DEF Codes
<1>3. Types'
  BY <1>0, <1>1, <1>2 DEF Types
<1>4. CASE slipped
  BY <1>3, <1>4 DEF Tracked
<1>5. CASE Lost
  <2>1. Lost'
    BY <1>0, <1>1, <1>2, <1>5, ReceivedIs, CommandsAre DEF Lost, calls
  <2> QED BY <1>3, <2>1, Zenon DEF Tracked
<1>6. CASE NoCall /\ Dialled /\ Accepted /\ Answered
  <2>1. CASE outgoing_call_state = 0 /\ incomming_call_state # 2
    BY <1>1, <1>3, <1>6, <2>1 DEF Tracked, NoCall, Dialled, Accepted, Answered, calls
  <2>2. CASE Received # <<>>
    <3>1. Len(Received') > 1
      BY <1>0, <1>2, <2>2, ReceivedIs
    <3> QED BY <1>3, <3>1 DEF Tracked, Lost
  <2>3. CASE (outgoing_call_state = 1 \/ incomming_call_state = 2) /\ commands # <<>>
    <3>1. Len(commands) = 1
      BY <1>0, <1>6, <2>3, CommandsAre, Zenon DEF Dialled, Answered
    <3>2. Len(Received') + Len(commands') > 1
      BY <1>0, <1>1, <1>2, <3>1, ReceivedIs
    <3> QED BY <1>3, <2>3, <3>2, Zenon DEF Tracked, Lost, calls
  <2>4. CASE Received = <<>> /\ commands = <<>> /\ outgoing_call_state = 2
    BY <1>0, <1>1, <1>2, <1>3, <1>6, <2>4, Zenon
       DEF Tracked, NoCall, Dialled, Accepted, Answered, OneCall, Types, calls
  <2>5. CASE Received = <<>> /\ commands = <<>> /\ incomming_call_state = 2
    BY <1>0, <1>1, <1>2, <1>3, <1>6, <2>5, Zenon
       DEF Tracked, NoCall, Dialled, Accepted, Answered, OneCall, calls
  <2>6. CASE Received = <<>> /\ commands = <<>> /\ outgoing_call_state = 1
    BY <1>6, <2>6 DEF Dialled
  <2>7. outgoing_call_state = 2 => commands = <<>>
    BY <1>6 DEF Accepted
  <2> QED BY <1>0, <2>1, <2>2, <2>3, <2>4, <2>5, <2>6, <2>7 DEF CallStates
<1> QED BY <1>0, <1>4, <1>5, <1>6 DEF Tracked

\* A line end changes no code.
LEMMA LineEndTracks ==
  ASSUME AInv, SendsLineEnd, UNCHANGED <<calls, GSM_string, slipped>>
  PROVE  Types' /\ Tracked'
<1>1. /\ UNCHANGED <<commands, phase>> /\ Received' = Received
      /\ fifo' = <<"cr">> \/ fifo' = fifo
  <2>1. fifo = <<>> => Received = <<>>
    BY DEF Received
  <2>2. fifo' = <<"cr">> => Received' = <<>>
    BY DEF Received
  <2>3. fifo' = fifo => Received' = Received
    BY DEF Received
  <2> QED BY <2>1, <2>2, <2>3 DEF SendsLineEnd
<1>2. Types'
  BY <1>1, Zenon DEF AInv, Types
<1>3. Tracked'
  BY <1>1 DEF AInv, Tracked, Lost, NoCall, Dialled, Accepted, Answered, calls
<1> QED BY <1>2, <1>3

\* What a poll reads.
LEMMA CodeIs ==
  ASSUME Types
  PROVE  /\ \A c : Received = <<c>> => GSM_receive = c
         /\ Received = <<>> => GSM_receive \in {GSM_string, "x"}
         /\ GSM_receive = "x" => Received = <<>>
<1>1. Received \in Seq(Codes)
  BY ReceivedIs
<1>2. ASSUME NEW c, Received = <<c>> PROVE GSM_receive = c
  BY <1>2 DEF GSM_receive
<1>3. Received = <<>> => GSM_receive \in {GSM_string, "x"}
  BY DEF GSM_receive
<1>4. Received # <<>> => GSM_receive \in Codes
  BY <1>1 DEF GSM_receive
<1>5. "x" \notin Codes
  BY DEF Codes
<1> QED BY <1>2, <1>3, <1>4, <1>5

\* A poll that does not slip takes the one code in the FIFO for what it is.
LEMMA PollTracks ==
  ASSUME AInv, wcfxs_gsm_control
  PROVE  Types' /\ Tracked'
<1> DEFINE code == GSM_receive
<1>0. Types /\ Tracked /\ CallStates /\ OneCall
  BY DEF AInv, IInv
<1>1. fifo' = <<>> /\ GSM_string' = code /\ UNCHANGED <<commands, phase>>
  BY DEF wcfxs_gsm_control
<1>2. slipped' = (slipped \/ Len(Received) > 1 \/ (code # "x" /\ commands # <<>> /\ ~Free))
  BY Zenon DEF wcfxs_gsm_control
<1>3. Dialling(code) \/ Outgoing(code) \/ Idle(code) \/ Ringing(code) \/ Incoming(code)
  BY DEF wcfxs_gsm_control
<1>4. Received' = <<>>
  BY <1>1 DEF Received
<1>5. Types'
  <2>1. slipped' \in BOOLEAN
    BY <1>2
  <2> QED BY <1>0, <1>1, <2>1 DEF Types
<1>6. /\ \A c : Received = <<c>> => code = c
      /\ Received = <<>> => code \in {GSM_string, "x"}
      /\ code = "x" => Received = <<>>
  BY <1>0, CodeIs
<1> HIDE DEF code
<1> SUFFICES ASSUME ~slipped' PROVE Tracked'
  BY <1>5 DEF Tracked
<1>7. ~slipped /\ ~(Len(Received) > 1) /\ (code = "x" \/ commands = <<>> \/ Free)
  BY <1>2, Zenon
<1>8. CASE Idle(code) \/ Ringing(code)
  <2>1. outgoing_call_state' = 0 /\ incomming_call_state' # 2
    BY <1>8 DEF Idle, Ringing, ring
  <2>2. outgoing_call_state = 0 /\ incomming_call_state # 2
    BY <1>8 DEF Idle, Ringing
  <2>3. NoCall
    BY <1>0, <1>7, <2>2 DEF Tracked, Lost
  <2> QED BY <1>1, <2>1, <2>2, <2>3 DEF Tracked, NoCall, Dialled, Accepted, Answered
<1>9. CASE Dialling(code)
  <2>1. outgoing_call_state = 1 /\ incomming_call_state = 0 /\ UNCHANGED incomming_call_state
    BY <1>0, <1>9 DEF Dialling, OneCall
  <2>2. CASE commands # <<>>
    <3>1. code = "x" /\ Received = <<>> /\ UNCHANGED outgoing_call_state
      BY <1>6, <1>7, <1>9, <2>1, <2>2 DEF Dialling, Free
    <3>2. CASE Lost
      BY <1>1, <1>4, <2>1, <3>1, <3>2, Zenon DEF Tracked, Lost
    <3>3. CASE Dialled
      BY <1>1, <1>4, <2>1, <2>2, <3>1, <3>3
         DEF Tracked, NoCall, Dialled, Accepted, Answered
    <3> QED BY <1>0, <1>7, <3>2, <3>3, Zenon DEF Tracked
  <2>3. CASE commands = <<>>
    <3>1. Dialled
      <4>1. ~Lost
        BY <1>0, <1>7, <2>3, ReceivedIs, CommandsAre DEF Lost
      <4> QED BY <1>0, <1>7, <4>1, Zenon DEF Tracked
    <3>2. CASE Received = <<"0">> /\ phase = "talking"
      <4>1. code = "0" /\ outgoing_call_state' = 2
        BY <1>6, <1>9, <3>2, Zenon DEF Dialling
      <4> QED BY <1>1, <1>4, <2>1, <2>3, <3>2, <4>1
              DEF Tracked, NoCall, Dialled, Accepted, Answered
    <3>3. CASE Received \in {<<"3">>, <<"4">>} /\ phase # "talking"
      <4>1. code \in {"3", "4"}
        BY <1>6, <3>3, Zenon
      <4>2. outgoing_call_state' = 0
        BY <1>9, <4>1, Zenon DEF Dialling
      <4> QED BY <1>1, <2>1, <2>3, <3>3, <4>2
              DEF Tracked, NoCall, Dialled, Accepted, Answered
    <3> QED BY <2>1, <2>3, <3>1, <3>2, <3>3 DEF Dialled
  <2> QED BY <2>2, <2>3
<1>10. CASE Outgoing(code)
  <2>1. outgoing_call_state = 2 /\ incomming_call_state = 0 /\ UNCHANGED incomming_call_state
    BY <1>0, <1>10 DEF Outgoing, OneCall
  <2>2. Accepted
    BY <1>0, <1>7, <2>1 DEF Tracked, Lost
  <2>3. CASE Received = <<>> /\ phase = "talking"
    <3>1. code \in {"0", "x"} /\ UNCHANGED outgoing_call_state
      BY <1>6, <1>10, <2>1, <2>2, <2>3, Zenon DEF Accepted, Outgoing
    <3> QED BY <1>1, <1>4, <2>1, <2>2, <2>3, <3>1
            DEF Tracked, NoCall, Dialled, Accepted, Answered
  <2>4. CASE Received = <<"3">> /\ phase # "talking"
    <3>1. code = "3" /\ outgoing_call_state' = 0
      BY <1>6, <1>10, <2>4, Zenon DEF Outgoing
    <3> QED BY <1>1, <2>1, <2>2, <2>4, <3>1
            DEF Tracked, NoCall, Dialled, Accepted, Answered
  <2> QED BY <2>1, <2>2, <2>3, <2>4, Zenon DEF Accepted
<1>11. CASE Incoming(code)
  <2>1. outgoing_call_state = 0 /\ incomming_call_state = 2 /\ UNCHANGED outgoing_call_state
    BY <1>11, Zenon DEF Incoming
  <2>2. CASE commands # <<>>
    <3>1. code = "x" /\ Received = <<>> /\ UNCHANGED incomming_call_state
      BY <1>6, <1>7, <1>11, <2>1, <2>2 DEF Incoming, Free
    <3>2. CASE Lost
      BY <1>1, <1>4, <2>1, <3>1, <3>2, Zenon DEF Tracked, Lost
    <3>3. CASE Answered
      BY <1>1, <1>4, <2>1, <2>2, <3>1, <3>3
         DEF Tracked, NoCall, Dialled, Accepted, Answered
    <3> QED BY <1>0, <1>7, <3>2, <3>3, Zenon DEF Tracked
  <2>3. CASE commands = <<>>
    <3>1. Answered
      <4>1. ~Lost
        BY <1>0, <1>7, <2>3, ReceivedIs, CommandsAre DEF Lost
      <4> QED BY <1>0, <1>7, <4>1, Zenon DEF Tracked
    <3>2. CASE Received \in {<<>>, <<"0">>} /\ phase = "talking"
      <4>1. code \in {"0", "x"}
        BY <1>6, <2>1, <2>3, <3>1, <3>2, Zenon DEF Answered
      <4>2. UNCHANGED incomming_call_state
        BY <1>11, <4>1, Zenon DEF Incoming
      <4> QED BY <1>1, <1>4, <2>1, <2>3, <3>2, <4>1, <4>2
              DEF Tracked, NoCall, Dialled, Accepted, Answered
    <3>3. CASE Received = <<"3">> /\ phase # "talking"
      <4>1. code = "3" /\ incomming_call_state' = 0
        BY <1>6, <1>11, <3>3, Zenon DEF Incoming
      <4> QED BY <1>1, <2>1, <2>3, <3>3, <4>1
              DEF Tracked, NoCall, Dialled, Accepted, Answered
    <3> QED BY <2>1, <2>3, <3>1, <3>2, <3>3, Zenon DEF Answered
  <2> QED BY <2>2, <2>3
<1> QED BY <1>3, <1>8, <1>9, <1>10, <1>11

\* Every step keeps driver and modem in track.
LEMMA NextTracks == AInv /\ [Next]_vars => AInv'
<1> SUFFICES ASSUME AInv, [Next]_vars PROVE Types' /\ Tracked'
  BY NextKeeps, Zenon DEF AInv
<1>1. ASSUME NEW request \in DOMAIN Requests, ZT_HOOK(request) PROVE Types' /\ Tracked'
  BY <1>1, SethookTracks, Zenon DEF ZT_HOOK, poll, modem
<1>2. ASSUME NEW number \in BOOLEAN, ZT_DIAL(number) PROVE Types' /\ Tracked'
  BY <1>2, DialTracks, AnswerTracks, Zenon DEF ZT_DIAL, poll, modem
<1>3. CASE __rbs_otimer_expire
  <2>1. CASE UNCHANGED <<txstate, txhooksig, rxhooksig, calls, commands>>
    BY <1>3, <2>1, TrackKept, Zenon DEF __rbs_otimer_expire, poll, modem
  <2>2. CASE zt_rbs_sethook(Expiries[txstate])
    BY <1>3, <2>2, SethookTracks, Zenon DEF __rbs_otimer_expire, poll, modem
  <2> QED
    BY <1>3, <2>1, <2>2, Zenon DEF __rbs_otimer_expire
<1>4. CASE rbs_itimer_expire \/ RingTrailer \/ RingDebounced
  BY <1>4, TrackKept DEF rbs_itimer_expire, RingTrailer, RingDebounced, poll, modem
<1>5. CASE wcfxs_gsm_control
  BY <1>5, PollTracks, Zenon
<1>6. CASE FxsOnhook
  BY <1>6, Zenon DEF FxsOnhook, AInv, Types, Tracked, modem
<1>7. CASE Modem(Serves)
  BY <1>7, ServesTracks, Zenon DEF Modem, poll
<1>8. CASE Modem(Rings) \/ Modem(FarEndLeaves)
  BY <1>8, NetworkTracks, Zenon DEF Modem, poll
<1>9. CASE Modem(SendsLineEnd)
  BY <1>9, LineEndTracks DEF Modem, poll
<1>10. CASE UNCHANGED vars
  BY <1>10, TrackKept DEF vars, poll, modem
<1> QED
  BY <1>1, <1>2, <1>3, <1>4, <1>5, <1>6, <1>7, <1>8, <1>9, <1>10, Zenon DEF Next

\* Driver and modem agree on whether there is a call whenever nothing is on its way
\* between them and no code was lost or mistaken, for a FIFO and a command queue of any
\* length.
THEOREM DriverAndModemAgree == Spec => []Agree
<1>1. Init => AInv
  <2>1. Init => IInv
    BY DEF Init, IInv, CallStates, OneCall, Heard, Free
  <2>2. Init => Types
    <3>1. <<>> \in Seq(Codes) /\ <<>> \in Seq({"atd", "ata", "ath"})
      OBVIOUS
    <3> QED BY <3>1, Zenon DEF Init, Types
  <2>3. Init => Tracked
    BY DEF Init, Tracked, NoCall, Dialled, Accepted, Answered
  <2> QED BY <2>1, <2>2, <2>3 DEF AInv
<1>2. AInv => Agree
  <2> SUFFICES ASSUME AInv, commands = <<>>, fifo = <<>>, ~slipped
               PROVE  InCall <=> phase = "talking"
    BY DEF Agree
  <2>1. Types /\ Tracked /\ CallStates /\ OneCall /\ Received = <<>>
    BY DEF AInv, IInv, Received
  <2>2. ~Lost
    BY <2>1, ReceivedIs, CommandsAre DEF Lost
  <2> QED BY <2>1, <2>2 DEF Tracked, NoCall, Dialled, Accepted, Answered, InCall, CallStates, OneCall
<1> QED
  BY <1>1, <1>2, NextTracks, PTL DEF Spec

-----------------------------------------------------------------------------
(* The safety behind RingTold: zaptel reports a ring only when the RING      *)
(* signal has ended, since the trailer runs from its end.                    *)

\* While zaptel sees RING, the driver still has the OFFHOOK that ends it to give, and
\* the trailer that reports the ring has still to run out.
RingReleased == rxhooksig = "RING" => interrupt_count = 1 /\ ringtrailer

\* A ring left by the signal "RING" is never forgotten: whatever the program answers,
\* dials or hangs up in between, interrupt_count stays at the value that makes the next
\* poll of a waiting port end it, and no timer has used up the report.
THEOREM RingIsReleased == Spec => []RingReleased
<1>1. Init => RingReleased
  BY DEF Init, RingReleased
<1>2. ASSUME RingReleased, [Next]_vars PROVE RingReleased'
  <2>1. CASE UNCHANGED <<rxhooksig, interrupt_count, ringtrailer>>
    BY <1>2, <2>1 DEF RingReleased
  <2>2. CASE rxhooksig' # "RING"
    BY <2>2 DEF RingReleased
  <2>3. ASSUME NEW next, zt_rbs_sethook(next) PROVE rxhooksig' = rxhooksig
    BY <2>3, Zenon DEF zt_rbs_sethook, hang_up, answer
  <2>4. ASSUME NEW request \in DOMAIN Requests, ZT_HOOK(request) PROVE RingReleased'
    BY <2>1, <2>3, <2>4, Zenon DEF ZT_HOOK, poll
  <2>5. ASSUME NEW number \in BOOLEAN, ZT_DIAL(number) PROVE RingReleased'
    <3>1. UNCHANGED <<interrupt_count, ringtrailer>>
      BY <2>5, Zenon DEF ZT_DIAL, poll, timers
    <3>2. CASE dial
      BY <2>2, <3>2 DEF dial
    <3>3. CASE answer
      BY <2>1, <3>1, <3>3, Zenon DEF answer
    <3> QED
      BY <2>5, <3>2, <3>3, Zenon DEF ZT_DIAL
  <2>6. CASE __rbs_otimer_expire
    <3>1. UNCHANGED <<interrupt_count, ringtrailer>>
      BY <2>6, Zenon DEF __rbs_otimer_expire, poll
    <3>2. UNCHANGED rxhooksig
      BY <2>3, <2>6, Zenon DEF __rbs_otimer_expire
    <3> QED
      BY <2>1, <3>1, <3>2, Zenon
  <2>7. CASE wcfxs_gsm_control
    <3>1. ASSUME NEW code, ring(code) PROVE RingReleased'
      BY <1>2, <3>1, Zenon DEF ring, zt_hooksig, NoSignal, RingReleased
    <3>2. ASSUME NEW code, Dialling(code) \/ Outgoing(code) \/ Incoming(code)
          PROVE  RingReleased'
      BY <1>2, <3>2 DEF Dialling, Outgoing, Incoming, zt_hooksig, NoSignal, RingReleased
    <3>3. ASSUME NEW code, Ringing(code) PROVE RingReleased'
      BY <1>2, <3>1, <3>3 DEF Ringing, zt_hooksig, RingReleased
    <3>4. ASSUME NEW code, Idle(code) PROVE RingReleased'
      BY <3>1, <3>4, Zenon DEF Idle
    <3> QED
      BY <2>7, <3>2, <3>3, <3>4, Zenon DEF wcfxs_gsm_control
  <2>8. CASE rbs_itimer_expire \/ RingTrailer \/ RingDebounced \/ FxsOnhook
    BY <2>1, <2>2, <2>8, Zenon
    DEF rbs_itimer_expire, RingTrailer, RingDebounced, FxsOnhook, poll, timers
  <2>9. CASE Modem(Serves) \/ Modem(Rings) \/ Modem(FarEndLeaves) \/ Modem(SendsLineEnd)
    BY <2>1, <2>9, Zenon DEF Modem, poll, timers
  <2>10. CASE UNCHANGED vars
    BY <2>1, <2>10, Zenon DEF vars, poll, timers
  <2> QED
    BY <1>2, <2>4, <2>5, <2>6, <2>7, <2>8, <2>9, <2>10, Zenon DEF Next
<1> QED
  BY <1>1, <1>2, PTL DEF Spec
=============================================================================
