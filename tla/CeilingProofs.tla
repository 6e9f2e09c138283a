--------------------------- MODULE CeilingProofs ---------------------------
(***************************************************************************)
(* Proofs about the server programs, for any number of clients, any        *)
(* channel capacity and whatever is sent: why the LED task and movie_main  *)
(* end, and that the white register follows the last command; for every    *)
(* color, that dithering averages out; for every size of the picture, that *)
(* fb_idx of constants.rs and the strings of the FPGA agree where a pixel  *)
(* is.  Then, for all lists of variables, blocks, commands and pixels: the *)
(* types of the data, that commands take effect in order and drawing       *)
(* undoes none, that an image lies as it hangs, that a picture is that of  *)
(* the commands, and that nobody panics without a cause.                   *)
(***************************************************************************)
EXTENDS Ceiling, TLAPS, SequenceTheorems, WellFoundedInduction

-----------------------------------------------------------------------------
(* The tasks and the channels that join them *)

\* What can be in a channel.
Commands ==
    {Message(q.path, q.body.obj) : q \in {p \in UNION {w.requests : w \in Workloads} : Sends(p)}}
        \cup {Config(InitialConfig)}

Channel == [unread : Seq(Commands), lagged : BOOLEAN]

ChannelOK(ch) == ch \in Channel /\ Len(ch.unread) <= Capacity

Newest(q) == q[Len(q)]

NetOK == conn \in [Clients -> {"closed", "open"}]

\* A receiver is told of a loss only if there was one.
ChannelsOK ==
    /\ ChannelOK(mods) /\ ChannelOK(leds)
    /\ mods.lagged => "mods" \in overrun
    /\ leds.lagged => "leds" \in overrun

\* What the receivers still have to work with.
WaitingFit ==
    /\ \A i \in DOMAIN leds.unread : WhiteFits(leds.unread[i]) \/ misfit
    /\ program = "movie_ceiling" =>
           \A i \in DOMAIN mods.unread :
               \/ Variant(mods.unread[i]) = "data" => ImageFits(mods.unread[i].data)
               \/ misfit

LedTyped ==
    /\ led = [at |-> led.at, color |-> led.color, target |-> led.target]
    /\ led.at \in {"recv", "fading", "set", "ended"}

LedEndedForACause == led.at = "ended" => misfit \/ "leds" \in overrun \/ SendersGone

\* The last command accepted is on its way to the register, or there.
LastOnItsWay ==
    "leds" \notin overrun /\ lastWhite # <<>> =>
        /\ leds.unread # <<>> => Newest(leds.unread) = lastWhite
        /\ leds.unread = <<>> /\ led.at \in {"fading", "set"} => led.target = WhiteColor(lastWhite)
        /\ leds.unread = <<>> /\ led.at = "recv" => white = WhiteWord(WhiteColor(lastWhite))

MovieEndedForACause ==
    program = "movie_ceiling" =>
        /\ phase \in {"recv", "exit"}
        /\ phase = "exit" => "mods" \in overrun \/ SendersGone
        /\ proc = "exited" => phase = "exit"
        /\ proc = "dead" => misfit

TasksInv ==
    /\ workload \in Workloads /\ NetOK /\ ChannelsOK /\ WaitingFit
    /\ LedTyped /\ LedEndedForACause /\ LastOnItsWay /\ MovieEndedForACause
-----------------------------------------------------------------------------
\* One message into a channel, one out of it, and a loss that is told.
LEMMA SentOK ==
  ASSUME NEW ch, ChannelOK(ch), NEW msg \in Commands
  PROVE  /\ ChannelOK(Sent(ch, msg))
         /\ Sent(ch, msg).lagged => ch.lagged \/ Full(ch)
         /\ Sent(ch, msg).unread # <<>> /\ Newest(Sent(ch, msg).unread) = msg
         /\ \A i \in DOMAIN Sent(ch, msg).unread :
               \/ Sent(ch, msg).unread[i] = msg
               \/ \E j \in DOMAIN ch.unread : Sent(ch, msg).unread[i] = ch.unread[j]
<1> DEFINE q == ch.unread
<1>1. /\ q \in Seq(Commands) /\ ch.lagged \in BOOLEAN /\ Len(q) <= Capacity
      /\ Len(q) \in Nat /\ DOMAIN q = 1 .. Len(q)
      /\ ch = [unread |-> q, lagged |-> ch.lagged]
  BY LenProperties DEF ChannelOK, Channel
<1> HIDE DEF q
<1>2. ASSUME NEW p \in Seq(Commands)
      PROVE  /\ Append(p, msg) \in Seq(Commands) /\ Len(Append(p, msg)) = Len(p) + 1
             /\ DOMAIN Append(p, msg) = 1 .. Len(p) + 1
             /\ Append(p, msg)[Len(p) + 1] = msg /\ Append(p, msg) # <<>>
             /\ \A i \in 1 .. Len(p) : Append(p, msg)[i] = p[i]
  BY <1>2, AppendProperties, LenProperties
<1>3. CASE Full(ch)
  <2> DEFINE t == Tail(q)
  <2>1. Len(q) = Capacity /\ q # <<>>
    BY <1>1, <1>3, CeilingAssumption, EmptySeq DEF CeilingAssumption, Full, q
  <2>2. /\ t \in Seq(Commands) /\ Len(t) = Len(q) - 1 /\ \A i \in 1 .. Len(t) : t[i] = q[i + 1]
    BY <1>1, <2>1, HeadTailProperties
  <2> HIDE DEF t
  <2>3. Sent(ch, msg) = [unread |-> Append(t, msg), lagged |-> TRUE]
    BY <1>3 DEF Sent, t, q
  <2>4. ChannelOK(Sent(ch, msg))
    BY <1>1, <1>2, <2>2, <2>3 DEF ChannelOK, Channel
  <2>5. ASSUME NEW i \in 1 .. Len(q), Append(t, msg)[i] # msg
        PROVE  \E j \in DOMAIN q : Append(t, msg)[i] = q[j]
    <3>1. i \in 1 .. Len(t) /\ i + 1 \in 1 .. Len(q)
      BY <1>1, <1>2, <2>2, <2>5
    <3>2. Append(t, msg)[i] = q[i + 1]
      BY <1>2, <2>2, <3>1
    <3>3. QED
      BY <1>1, <3>1, <3>2
  <2>6. QED
    BY <1>1, <1>2, <1>3, <2>2, <2>3, <2>4, <2>5 DEF Newest, q
<1>4. CASE ~Full(ch)
  <2>1. Sent(ch, msg) = [unread |-> Append(q, msg), lagged |-> ch.lagged]
    BY <1>1, <1>4 DEF Sent, q
  <2>2. Len(q) < Capacity /\ Capacity \in Nat
    BY <1>1, <1>4, CeilingAssumption DEF CeilingAssumption, Full, q
  <2>3. ChannelOK(Sent(ch, msg))
    BY <1>1, <1>2, <2>1, <2>2 DEF ChannelOK, Channel
  <2>4. ASSUME NEW i \in 1 .. Len(q) + 1, Append(q, msg)[i] # msg
        PROVE  \E j \in DOMAIN q : Append(q, msg)[i] = q[j]
    BY <1>1, <1>2, <2>4
  <2>5. QED
    BY <1>1, <1>2, <1>4, <2>1, <2>3, <2>4 DEF Newest, q
<1>5. QED
  BY <1>3, <1>4

LEMMA TakenOK ==
  ASSUME NEW ch, ChannelOK(ch), HasMessage(ch)
  PROVE  /\ ChannelOK(Taken(ch)) /\ ~Taken(ch).lagged
         /\ 1 \in DOMAIN ch.unread /\ Head(ch.unread) = ch.unread[1]
         /\ \A i \in DOMAIN Taken(ch).unread :
               i + 1 \in DOMAIN ch.unread /\ Taken(ch).unread[i] = ch.unread[i + 1]
         /\ IF Taken(ch).unread = <<>> THEN Newest(ch.unread) = Head(ch.unread)
            ELSE Newest(Taken(ch).unread) = Newest(ch.unread)
<1> DEFINE q == ch.unread
           t == Tail(q)
<1>1. /\ q \in Seq(Commands) /\ ch.lagged \in BOOLEAN /\ Len(q) <= Capacity
      /\ Len(q) \in Nat /\ DOMAIN q = 1 .. Len(q) /\ Capacity \in Nat
      /\ ch = [unread |-> q, lagged |-> ch.lagged] /\ ~ch.lagged /\ q # <<>>
  BY LenProperties, CeilingAssumption DEF ChannelOK, Channel, HasMessage, CeilingAssumption
<1> HIDE DEF q
<1>2. Len(q) > 0 /\ Head(q) = q[1]
  BY <1>1, EmptySeq
<1>3. t \in Seq(Commands) /\ Len(t) = Len(q) - 1 /\ \A i \in 1 .. Len(t) : t[i] = q[i + 1]
  BY <1>1, HeadTailProperties
<1>4. DOMAIN t = 1 .. Len(t) /\ (t = <<>> <=> Len(t) = 0)
  BY <1>3, LenProperties, EmptySeq
<1> HIDE DEF t
<1>5. Taken(ch) = [unread |-> t, lagged |-> ch.lagged]
  <2>1. Taken(ch) = [ch EXCEPT !.unread = t]
    BY DEF Taken, t, q
  <2>2. QED
    BY <1>1, <2>1
<1>6. ChannelOK(Taken(ch))
  BY <1>1, <1>3, <1>5 DEF ChannelOK, Channel
<1>7. IF t = <<>> THEN Newest(q) = Head(q) ELSE Newest(t) = Newest(q)
  <2>1. CASE t = <<>>
    <3>1. Len(t) = 0
      BY <1>4, <2>1
    <3>2. Len(q) = 1
      <4>1. Len(q) \in Nat
        BY <1>1
      <4>2. QED
        BY <1>3, <3>1, <4>1
    <3>3. QED
      BY <1>2, <2>1, <3>2 DEF Newest
  <2>2. CASE t # <<>>
    <3>1. Len(t) \in 1 .. Len(t) /\ Len(t) + 1 = Len(q)
      BY <1>1, <1>2, <1>3, <1>4, <2>2
    <3>2. QED
      BY <1>3, <2>2, <3>1 DEF Newest
  <2>3. QED
    BY <2>1, <2>2
<1>8. \A i \in 1 .. Len(t) : i + 1 \in 1 .. Len(q) /\ t[i] = q[i + 1]
  BY <1>1, <1>3
<1>9. QED
  BY <1>1, <1>2, <1>4, <1>5, <1>6, <1>7, <1>8 DEF q

LEMMA ToldOK ==
  ASSUME NEW ch, ChannelOK(ch)
  PROVE  ChannelOK(Told(ch)) /\ ~Told(ch).lagged /\ Told(ch).unread = ch.unread
<1>1. PICK q \in Seq(Commands), b \in BOOLEAN : ch = [unread |-> q, lagged |-> b]
  BY DEF ChannelOK, Channel
<1>2. \A f : [ch EXCEPT !.lagged = f] = [unread |-> q, lagged |-> f]
  BY <1>1, SMT
<1>3. Told(ch) = [unread |-> q, lagged |-> FALSE]
  BY <1>2, Zenon DEF Told
<1>4. Told(ch).unread = q /\ ~Told(ch).lagged /\ Told(ch) \in Channel
  BY <1>3 DEF Channel
<1>5. QED
  BY <1>1, <1>4 DEF ChannelOK

LEMMA NoSenderComesBack ==
  ASSUME NetOK, SendersGone, [Next]_vars
  PROVE  SendersGone'
<1>1. /\ UNCHANGED netVars
      \/ AcceptFails
      \/ \E c \in Clients : \/ Connect(c) \/ Disconnect(c)
                            \/ \E req \in workload.requests : Handle(c, req)
  BY DEF Next, Network, Main, Led, vars
<1>2. CASE UNCHANGED netVars
  BY <1>2 DEF netVars, SendersGone
<1>3. CASE AcceptFails
  BY <1>3 DEF AcceptFails, SendersGone
<1>4. ASSUME NEW c \in Clients,
             Connect(c) \/ Disconnect(c) \/ \E req \in workload.requests : Handle(c, req)
      PROVE  FALSE
  BY <1>4 DEF Connect, Disconnect, Handle, SendersGone
<1>5. QED
  BY <1>1, <1>2, <1>3, <1>4

\* Steps that neither send nor receive.
LEMMA TasksElsewhere ==
  ASSUME TasksInv, [Next]_vars, NetOK', UNCHANGED <<workload, mods, leds, led, overrun, lastWhite>>,
         led.at = "recv" => UNCHANGED white,
         misfit => misfit',
         program = "movie_ceiling" => UNCHANGED phase /\ (proc' = "dead" => misfit')
                                      /\ (proc' = "exited" => phase = "exit")
  PROVE  TasksInv'
<1>1. program' = program
  BY DEF program
<1>2. ChannelsOK' /\ WaitingFit' /\ LedTyped' /\ LastOnItsWay'
  BY <1>1 DEF TasksInv, ChannelsOK, WaitingFit, LedTyped, LastOnItsWay
<1>3. SendersGone => SendersGone'
  BY NoSenderComesBack DEF TasksInv
<1>4. LedEndedForACause' /\ MovieEndedForACause'
  BY <1>1, <1>3 DEF TasksInv, LedEndedForACause, MovieEndedForACause
<1>5. QED
  BY <1>2, <1>4 DEF TasksInv

LEMMA TasksConnect ==
  ASSUME TasksInv, Next, AcceptFails \/ \E c \in Clients : Connect(c) \/ Disconnect(c)
  PROVE  TasksInv'
<1>1. UNCHANGED <<workload, mods, leds, led, overrun, lastWhite, white, misfit, proc, phase>>
  BY DEF AcceptFails, Connect, Disconnect, ledVars, history, mainVars
<1>2. NetOK'
  BY DEF AcceptFails, Connect, Disconnect, TasksInv, NetOK
<1>3. MovieEndedForACause
  BY DEF TasksInv
<1>4. QED
  BY <1>1, <1>2, <1>3, TasksElsewhere DEF MovieEndedForACause

LEMMA TasksHandle ==
  ASSUME TasksInv, Next, NEW c \in Clients, NEW req \in workload.requests, Handle(c, req)
  PROVE  TasksInv'
<1>1. /\ workload \in Workloads /\ NetOK /\ ChannelsOK /\ WaitingFit
      /\ LedTyped /\ LedEndedForACause /\ LastOnItsWay /\ MovieEndedForACause
      /\ UNCHANGED <<workload, proc, phase, led, white>> /\ program' = program
  BY DEF TasksInv, Handle, mainVars, ledVars, program
<1>2. SendersGone => SendersGone'
  BY <1>1, NoSenderComesBack
<1>3. CASE ~Sends(req)
  <2>1. UNCHANGED <<mods, leds, overrun, lastWhite, misfit>>
        /\ conn' = [conn EXCEPT ![c] = IF Breaks(req) THEN "closed" ELSE @]
    BY <1>3 DEF Handle, history
  <2>2. NetOK'
    BY <1>1, <2>1 DEF NetOK
  <2>3. QED
    BY <1>1, <2>1, <2>2, TasksElsewhere DEF MovieEndedForACause
<1>4. CASE Sends(req)
  <2> DEFINE msg == Message(req.path, req.body.obj)
  <2>1. /\ IF req.path = "set_white_led" THEN SendLed(msg) ELSE SendMod(msg)
        /\ misfit' = (misfit \/ req \in Misfits)
        /\ UNCHANGED conn
    BY <1>4 DEF Handle
  <2>2. msg \in Commands
    <3>1. req \in UNION {w.requests : w \in Workloads}
      BY <1>1
    <3>2. QED
      BY <1>4, <3>1 DEF Commands
  <2>3. ~misfit' => /\ ~misfit
                    /\ req.path = "set_white_led" => WhiteFits(msg)
                    /\ req.path # "set_white_led" /\ program = "movie_ceiling"
                          /\ Variant(msg) = "data" => ImageFits(msg.data)
    BY <1>1, <1>4, <2>1, MisfitsAssumption DEF MisfitsAssumption, program
  <2> HIDE DEF msg
  <2>4. NetOK'
    BY <1>1, <2>1 DEF NetOK
  <2>5. CASE req.path = "set_white_led" /\ led.at # "ended"
    <3>1. /\ leds' = Sent(leds, msg)
          /\ overrun' = overrun \cup (IF Full(leds) THEN {"leds"} ELSE {})
          /\ lastWhite' = msg /\ UNCHANGED mods
      BY <2>1, <2>5 DEF SendLed
    <3>2. /\ ChannelOK(leds') /\ (leds'.lagged => leds.lagged \/ Full(leds))
          /\ leds'.unread # <<>> /\ Newest(leds'.unread) = msg
          /\ \A i \in DOMAIN leds'.unread :
                leds'.unread[i] = msg \/ \E j \in DOMAIN leds.unread : leds'.unread[i] = leds.unread[j]
      BY <1>1, <2>2, <3>1, SentOK DEF ChannelsOK
    <3>3. ChannelsOK'
      BY <1>1, <3>1, <3>2 DEF ChannelsOK
    <3>4. WaitingFit'
      BY <1>1, <2>3, <2>5, <3>1, <3>2 DEF WaitingFit
    <3>5. LedTyped' /\ LedEndedForACause' /\ LastOnItsWay' /\ MovieEndedForACause'
      <4>1. LastOnItsWay'
        BY <3>1, <3>2 DEF LastOnItsWay
      <4>2. LedTyped' /\ LedEndedForACause'
        BY <1>1, <2>5 DEF LedTyped, LedEndedForACause
      <4>3. MovieEndedForACause'
        BY <1>1, <1>2, <2>3, <3>1 DEF MovieEndedForACause
      <4>4. QED
        BY <4>1, <4>2, <4>3
    <3>6. QED
      BY <1>1, <2>4, <3>3, <3>4, <3>5 DEF TasksInv
  <2>6. CASE req.path = "set_white_led" /\ led.at = "ended"
    <3>1. UNCHANGED <<mods, leds, overrun, lastWhite>>
      BY <2>1, <2>6 DEF SendLed
    <3>2. QED
      BY <1>1, <2>3, <2>4, <3>1, TasksElsewhere DEF MovieEndedForACause
  <2>7. CASE req.path # "set_white_led"
    <3>1. /\ mods' = Sent(mods, msg)
          /\ overrun' = overrun \cup (IF Full(mods) THEN {"mods"} ELSE {})
          /\ UNCHANGED <<leds, lastWhite>>
      BY <2>1, <2>7 DEF SendMod
    <3>2. /\ ChannelOK(mods') /\ (mods'.lagged => mods.lagged \/ Full(mods))
          /\ \A i \in DOMAIN mods'.unread :
                mods'.unread[i] = msg \/ \E j \in DOMAIN mods.unread : mods'.unread[i] = mods.unread[j]
      BY <1>1, <2>2, <3>1, SentOK DEF ChannelsOK
    <3>3. ChannelsOK'
      BY <1>1, <3>1, <3>2 DEF ChannelsOK
    <3>4. WaitingFit'
      BY <1>1, <2>3, <2>7, <3>1, <3>2 DEF WaitingFit
    <3>5. LastOnItsWay'
      BY <1>1, <3>1 DEF LastOnItsWay
    <3>6. LedTyped' /\ LedEndedForACause'
      BY <1>1, <1>2, <2>3, <3>1 DEF LedTyped, LedEndedForACause
    <3>7. MovieEndedForACause'
      BY <1>1, <1>2, <2>3, <3>1 DEF MovieEndedForACause
    <3>8. QED
      BY <1>1, <2>4, <3>3, <3>4, <3>5, <3>6, <3>7 DEF TasksInv
  <2>8. QED
    BY <2>5, <2>6, <2>7
<1>5. QED
  BY <1>3, <1>4

LEMMA TasksMain ==
  ASSUME TasksInv, Next, Main
  PROVE  TasksInv'
<1>1. /\ workload \in Workloads /\ NetOK /\ ChannelsOK /\ WaitingFit
      /\ LedTyped /\ LedEndedForACause /\ LastOnItsWay /\ MovieEndedForACause
      /\ UNCHANGED <<workload, leds, led, white, listening, conn, overrun, lastWhite, misfit>>
      /\ program' = program /\ proc = "running"
  BY DEF TasksInv, Main, ledVars, netVars, history, program, Next
<1>2. NetOK' /\ LedTyped' /\ LedEndedForACause' /\ LastOnItsWay' /\ SendersGone' = SendersGone
  BY <1>1 DEF NetOK, LedTyped, LedEndedForACause, LastOnItsWay, SendersGone
<1>3. ChannelsOK' /\ WaitingFit'
  <2>1. CASE TakeCommand \/ ShowImage
    <3>1. HasMessage(mods) /\ mods' = Taken(mods)
      BY <2>1 DEF TakeCommand, ShowImage
    <3>2. /\ ChannelOK(mods') /\ ~mods'.lagged
          /\ \A i \in DOMAIN mods'.unread :
                i + 1 \in DOMAIN mods.unread /\ mods'.unread[i] = mods.unread[i + 1]
      BY <1>1, <3>1, TakenOK DEF ChannelsOK
    <3>3. ChannelsOK'
      BY <1>1, <3>2 DEF ChannelsOK
    <3>4. WaitingFit'
      BY <1>1, <3>2 DEF WaitingFit
    <3>5. QED
      BY <3>3, <3>4
  <2>2. CASE EndDrain \/ EndMovie
    <3>1. mods' = Told(mods)
      BY <2>2 DEF EndDrain, EndMovie
    <3>2. ChannelOK(mods') /\ ~mods'.lagged /\ mods'.unread = mods.unread
      BY <1>1, <3>1, ToldOK DEF ChannelsOK
    <3>3. QED
      BY <1>1, <3>2 DEF ChannelsOK, WaitingFit
  <2>3. CASE Draw \/ Exit
    <3>1. UNCHANGED mods
      BY <2>3 DEF Draw, Exit
    <3>2. QED
      BY <1>1, <3>1 DEF ChannelsOK, WaitingFit
  <2>4. QED
    BY <2>1, <2>2, <2>3 DEF Main
<1>4. MovieEndedForACause'
  <2>1. SUFFICES ASSUME program = "movie_ceiling"
                 PROVE  /\ phase' \in {"recv", "exit"}
                        /\ phase' = "exit" => "mods" \in overrun \/ SendersGone
                        /\ proc' = "exited" => phase' = "exit"
                        /\ proc' = "dead" => misfit
    BY <1>1, <1>2 DEF MovieEndedForACause
  <2>2. /\ phase \in {"recv", "exit"}
        /\ phase = "exit" => "mods" \in overrun \/ SendersGone
    BY <1>1, <2>1 DEF MovieEndedForACause
  <2>3. ~TakeCommand /\ ~EndDrain /\ ~Draw
    BY <2>2 DEF TakeCommand, EndDrain, Draw
  <2>4. CASE ShowImage
    <3>1. HasMessage(mods) /\ UNCHANGED phase /\ phase = "recv"
      BY <2>4 DEF ShowImage
    <3>2. 1 \in DOMAIN mods.unread /\ Head(mods.unread) = mods.unread[1]
      BY <1>1, <3>1, TakenOK DEF ChannelsOK
    <3>3. \/ Variant(mods.unread[1]) = "data" => ImageFits(mods.unread[1].data)
          \/ misfit
      BY <1>1, <2>1, <3>2 DEF WaitingFit
    <3>4. \/ UNCHANGED proc
          \/ /\ Variant(Head(mods.unread)) = "data" /\ ~ImageFits(Head(mods.unread).data)
             /\ proc' = "dead"
      BY <2>4 DEF ShowImage
    <3>5. QED
      BY <1>1, <3>1, <3>2, <3>3, <3>4
  <2>5. CASE EndMovie
    <3>1. phase' = "exit" /\ UNCHANGED proc /\ (mods.lagged \/ SendersGone)
      BY <2>5 DEF EndMovie
    <3>2. QED
      BY <1>1, <3>1 DEF ChannelsOK
  <2>6. CASE Exit
    BY <2>2, <2>6 DEF Exit
  <2>7. QED
    BY <2>3, <2>4, <2>5, <2>6 DEF Main
<1>5. QED
  BY <1>1, <1>2, <1>3, <1>4 DEF TasksInv

LEMMA TasksLed ==
  ASSUME TasksInv, Next, Led
  PROVE  TasksInv'
<1>1. /\ workload \in Workloads /\ NetOK /\ ChannelsOK /\ WaitingFit
      /\ LedTyped /\ LedEndedForACause /\ LastOnItsWay /\ MovieEndedForACause
      /\ UNCHANGED <<workload, proc, phase, mods, listening, conn, overrun, lastWhite, misfit>>
      /\ program' = program
  BY DEF TasksInv, Led, mainVars, netVars, history, program
<1>2. NetOK' /\ MovieEndedForACause' /\ SendersGone' = SendersGone
  BY <1>1 DEF NetOK, MovieEndedForACause, SendersGone
<1>3. PICK a, b, c : led = [at |-> a, color |-> b, target |-> c]
  BY <1>1 DEF LedTyped
<1>4. \A f : [led EXCEPT !.at = f] = [at |-> f, color |-> b, target |-> c]
  BY <1>3, SMT
<1>5. CASE LedTake
  <2> DEFINE msg == Head(leds.unread)
  <2>1. /\ led.at = "recv" /\ HasMessage(leds) /\ leds' = Taken(leds) /\ UNCHANGED white
        /\ led' = IF ~WhiteFits(msg) THEN [led EXCEPT !.at = "ended"]
                  ELSE [led EXCEPT !.at = IF msg.delay > 0 THEN "fading" ELSE "set",
                                   !.target = WhiteColor(msg)]
    BY <1>5 DEF LedTake
  <2>2. /\ ChannelOK(leds') /\ ~leds'.lagged
        /\ 1 \in DOMAIN leds.unread /\ msg = leds.unread[1]
        /\ \A i \in DOMAIN leds'.unread :
              i + 1 \in DOMAIN leds.unread /\ leds'.unread[i] = leds.unread[i + 1]
        /\ IF leds'.unread = <<>> THEN Newest(leds.unread) = msg
           ELSE Newest(leds'.unread) = Newest(leds.unread)
    BY <1>1, <2>1, TakenOK DEF ChannelsOK
  <2> HIDE DEF msg
  <2>3. ChannelsOK' /\ WaitingFit'
    BY <1>1, <2>2 DEF ChannelsOK, WaitingFit
  <2>4. \/ led' = [at |-> "ended", color |-> b, target |-> c] /\ misfit
        \/ \E at \in {"fading", "set"} : led' = [at |-> at, color |-> b, target |-> WhiteColor(msg)]
    <3>1. CASE ~WhiteFits(msg)
      <4>1. misfit
        BY <1>1, <2>2, <3>1 DEF WaitingFit
      <4>2. QED
        BY <1>4, <2>1, <3>1, <4>1
    <3>2. CASE WhiteFits(msg)
      <4>1. PICK at \in {"fading", "set"} : at = IF msg.delay > 0 THEN "fading" ELSE "set"
        OBVIOUS
      <4>2. led' = [led EXCEPT !.at = at, !.target = WhiteColor(msg)]
        BY <2>1, <3>2, <4>1
      <4>3. led' = [at |-> at, color |-> b, target |-> WhiteColor(msg)]
        BY <1>3, <4>2
      <4>4. QED
        BY <4>3
    <3>3. QED
      BY <3>1, <3>2
  <2>5. LedTyped' /\ LedEndedForACause'
    BY <1>1, <1>2, <2>4 DEF LedTyped, LedEndedForACause
  <2>6. LastOnItsWay'
    <3>1. SUFFICES ASSUME "leds" \notin overrun, lastWhite # <<>>
                   PROVE  /\ leds'.unread # <<>> => Newest(leds'.unread) = lastWhite
                          /\ leds'.unread = <<>> /\ led'.at \in {"fading", "set"}
                                => led'.target = WhiteColor(lastWhite)
                          /\ led'.at # "recv"
      BY <1>1 DEF LastOnItsWay
    <3>2. Newest(leds.unread) = lastWhite
      BY <1>1, <2>1, <3>1 DEF LastOnItsWay, HasMessage
    <3>3. QED
      BY <2>2, <2>4, <3>2
  <2>7. QED
    BY <1>1, <1>2, <2>3, <2>5, <2>6 DEF TasksInv
<1>6. CASE LedSet
  <2>1. /\ led.at \in {"fading", "set"} /\ white' = WhiteWord(led.target)
        /\ led' = [at |-> "recv", color |-> led.target, target |-> Dark] /\ UNCHANGED leds
    BY <1>6 DEF LedSet
  <2>2. ChannelsOK' /\ WaitingFit' /\ LedTyped' /\ LedEndedForACause'
    BY <1>1, <2>1 DEF ChannelsOK, WaitingFit, LedTyped, LedEndedForACause
  <2>3. LastOnItsWay'
    BY <1>1, <2>1 DEF LastOnItsWay
  <2>4. QED
    BY <1>1, <1>2, <2>2, <2>3 DEF TasksInv
<1>7. CASE LedEnd
  <2>1. /\ leds.lagged \/ SendersGone
        /\ led' = [led EXCEPT !.at = "ended"] /\ leds' = Told(leds) /\ UNCHANGED white
    BY <1>7 DEF LedEnd
  <2>2. ChannelOK(leds') /\ ~leds'.lagged /\ leds'.unread = leds.unread
    BY <1>1, <2>1, ToldOK DEF ChannelsOK
  <2>3. led' = [at |-> "ended", color |-> b, target |-> c]
    BY <1>4, <2>1
  <2>4. ChannelsOK' /\ WaitingFit'
    BY <1>1, <2>2 DEF ChannelsOK, WaitingFit
  <2>5. LedTyped' /\ LedEndedForACause'
    BY <1>1, <1>2, <2>1, <2>3 DEF LedTyped, LedEndedForACause, ChannelsOK
  <2>6. LastOnItsWay'
    BY <1>1, <2>2, <2>3 DEF LastOnItsWay
  <2>7. QED
    BY <1>1, <1>2, <2>4, <2>5, <2>6 DEF TasksInv
<1>8. CASE \E alpha \in Alphas : LedFade(alpha)
  <2>1. led.at = "fading" /\ UNCHANGED <<led, leds>>
    BY <1>8 DEF LedFade
  <2>2. QED
    BY <1>1, <1>2, <2>1, TasksElsewhere DEF MovieEndedForACause
<1>9. QED
  BY <1>5, <1>6, <1>7, <1>8 DEF Led

LEMMA TasksStep ==
  ASSUME TasksInv, [Next]_vars
  PROVE  TasksInv'
<1>1. CASE UNCHANGED vars
  <2>1. UNCHANGED <<workload, mods, leds, led, white, overrun, lastWhite, misfit, proc, phase, conn>>
    BY <1>1 DEF vars, mainVars, ledVars, netVars, history
  <2>2. NetOK' /\ MovieEndedForACause
    BY <2>1 DEF TasksInv, NetOK
  <2>3. QED
    BY <2>1, <2>2, TasksElsewhere DEF MovieEndedForACause
<1>2. CASE Next
  BY <1>2, TasksConnect, TasksHandle, TasksMain, TasksLed DEF Next, Network
<1>3. QED
  BY <1>1, <1>2

LEMMA TasksInit ==
  ASSUME Init
  PROVE  TasksInv
<1>1. /\ workload \in Workloads /\ conn = [c \in Clients |-> "closed"]
      /\ leds = Idle /\ overrun = {} /\ lastWhite = <<>> /\ proc = "running"
      /\ led = [at |-> "recv", color |-> Dark, target |-> Dark]
      /\ IF program = "cloud_ceiling" THEN mods = Sent(Idle, Config(InitialConfig))
         ELSE mods = Idle /\ phase = "recv"
  BY DEF Init
<1>2. ChannelOK(Idle) /\ ~Idle.lagged /\ Idle.unread = <<>> /\ ~Full(Idle)
  <2>1. <<>> \in Seq(Commands) /\ Len(<<>>) = 0
    BY EmptySeq
  <2>2. ChannelOK(Idle)
    BY <2>1, CeilingAssumption DEF ChannelOK, Channel, Idle, CeilingAssumption
  <2>3. QED
    BY <2>1, <2>2, CeilingAssumption DEF Idle, Full, CeilingAssumption
<1>3. ChannelOK(mods) /\ ~mods.lagged
  <2>1. Config(InitialConfig) \in Commands
    BY DEF Commands
  <2>2. QED
    BY <1>1, <1>2, <2>1, SentOK
<1>4. ChannelsOK /\ NetOK
  BY <1>1, <1>2, <1>3 DEF ChannelsOK, NetOK
<1>5. program \in {"cloud_ceiling", "movie_ceiling"}
  BY <1>1, CeilingAssumption DEF program, CeilingAssumption
<1>6. WaitingFit
  <2>1. DOMAIN <<>> = {}
    BY EmptySeq, LenProperties
  <2>2. program = "movie_ceiling" => mods.unread = <<>>
    BY <1>1, <1>2
  <2>3. QED
    BY <1>1, <1>2, <2>1, <2>2 DEF WaitingFit
<1>7. LedTyped /\ LedEndedForACause /\ LastOnItsWay
  BY <1>1 DEF LedTyped, LedEndedForACause, LastOnItsWay
<1>8. MovieEndedForACause
  BY <1>1 DEF MovieEndedForACause
<1>9. QED
  BY <1>1, <1>4, <1>6, <1>7, <1>8 DEF TasksInv

\* What the tasks rest on: the channels are bounded and lag only after a loss, what waits in
\* them fits or a misfit was accepted, and the last white command is in the channel, in the
\* LED task or in the register (server.rs:98,136,156, led_ctrl.rs:33-74, movie_ctrl.rs:26-62).
THEOREM TasksInvariant == Spec => []TasksInv
<1>1. TasksInv /\ [Next]_vars => TasksInv'
  BY TasksStep
<1>2. Init => TasksInv
  BY TasksInit
<1>3. QED
  BY <1>1, <1>2, PTL DEF Spec

\* The LED task ends only over a command that does not fit, over a burst that the channel
\* could not hold, or when nobody can send any more: never over an order of events
\* (led_ctrl.rs:32-56).
THEOREM LedTaskEndsForACause ==
  Spec => [](led.at = "ended" => misfit \/ "leds" \in overrun \/ SendersGone)
<1>1. TasksInv => (led.at = "ended" => misfit \/ "leds" \in overrun \/ SendersGone)
  BY DEF TasksInv, LedEndedForACause
<1>2. QED
  BY <1>1, TasksInvariant, PTL

\* movie_main panics only over an image that is too short, and returns only after a burst
\* or when nobody can send any more (movie_ctrl.rs:26-62).
THEOREM MovieEndsForACause ==
  Spec => [](program = "movie_ceiling" => /\ proc = "dead" => misfit
                                          /\ proc = "exited" => "mods" \in overrun \/ SendersGone)
<1>1. TasksInv => (program = "movie_ceiling" =>
                       /\ proc = "dead" => misfit
                       /\ proc = "exited" => "mods" \in overrun \/ SendersGone)
  BY DEF TasksInv, MovieEndedForACause
<1>2. QED
  BY <1>1, TasksInvariant, PTL

\* When the LED task has caught up, the register holds the word of the last white command the
\* server accepted, whichever way requests, fades and steps of fades interleaved, unless the
\* channel has lost a command (server.rs:140-177, led_ctrl.rs:32-74).
THEOREM WhiteIsTheLastAccepted ==
  Spec => [](led.at = "recv" /\ leds.unread = <<>> /\ "leds" \notin overrun /\ lastWhite # <<>>
                 => white = WhiteWord(WhiteColor(lastWhite)))
<1>1. TasksInv =>
        (led.at = "recv" /\ leds.unread = <<>> /\ "leds" \notin overrun /\ lastWhite # <<>>
             => white = WhiteWord(WhiteColor(lastWhite)))
  BY DEF TasksInv, LastOnItsWay
<1>2. QED
  BY <1>1, TasksInvariant, PTL

-----------------------------------------------------------------------------
(* Dithering *)

LEMMA QuotientIs ==
  ASSUME NEW d \in Nat \ {0}, NEW q \in Int, NEW rest \in 0 .. d - 1
  PROVE  (d * q + rest) \div d = q
  BY SMT

LEMMA Divided ==
  ASSUME NEW a \in Int, NEW d \in Nat \ {0}
  PROVE  \E q \in Int, rest \in 0 .. d - 1 : a = d * q + rest
<1>1. a % d \in 0 .. d - 1 /\ a \div d \in Int /\ a = d * (a \div d) + (a % d)
  BY SMT
<1>2. QED
  BY <1>1

LEMMA WholeNumber ==
  ASSUME NEW n \in Nat
  PROVE  Floor(n * ONE) = n /\ Round(n * ONE) = n /\ (n < Mantissa => F32(n * ONE) = n * ONE)
<1>1. ONE \in Nat \ {0} /\ n * ONE \in Nat
  BY OneAssumption DEF OneAssumption
<1>2. Floor(n * ONE) = n
  <2>1. n * ONE = ONE * n + 0
    BY <1>1
  <2>2. QED
    BY <1>1, <2>1, QuotientIs DEF Floor
<1>3. Round(n * ONE) = n
  <2>1. 2 * (n * ONE) + ONE = (2 * ONE) * n + ONE
    BY <1>1
  <2>2. 2 * ONE \in Nat \ {0} /\ ONE \in 0 .. 2 * ONE - 1 /\ 2 * (n * ONE) + ONE \in Int
    BY <1>1
  <2>3. (2 * (n * ONE) + ONE) \div (2 * ONE) = n
    BY <2>1, <2>2, QuotientIs
  <2>4. QED
    BY <1>1, <2>3 DEF Round
<1>4. QED
  BY <1>2, <1>3 DEF F32

\* Eight floors, spread over one step of the output, make up the eighth (Hermite).
LEMMA EightFloors ==
  ASSUME ONE % 8 = 0, NEW e \in Int, NEW h,
         \A a \in 0 .. 7 : h[a] = Clamp(Floor(e + (ONE * a) \div 8), 0, 255)
  PROVE  h[0] + h[1] + h[2] + h[3] + h[4] + h[5] + h[6] + h[7] = Clamp(Floor(8 * e), 0, 255 * 8)
<1>1. PICK u \in Nat \ {0} : ONE = 8 * u
  <2>1. ONE \in Nat \ {0}
    BY OneAssumption DEF OneAssumption
  <2>2. ONE = 8 * (ONE \div 8) /\ ONE \div 8 \in Nat \ {0}
    BY <2>1
  <2>3. QED
    BY <2>2
<1>2. PICK q \in Int, rest \in 0 .. 8 * u - 1 : e = (8 * u) * q + rest
  <2>1. 8 * u \in Nat \ {0}
    BY <1>1
  <2>2. QED
    BY <2>1, Divided
<1>3. PICK j \in 0 .. 7, s \in 0 .. u - 1 : rest = j * u + s
  <2>1. rest \in Int
    BY <1>1, <1>2
  <2>2. PICK k \in Int, t \in 0 .. u - 1 : rest = u * k + t
    BY <1>1, <2>1, Divided
  <2>3. k \in 0 .. 7
    <3>1. CASE k >= 8
      <4>1. u * k >= u * 8
        BY <1>1, <3>1
      <4>2. QED
        BY <1>1, <1>2, <2>2, <4>1
    <3>2. CASE k <= -1
      <4>1. u * k <= -u
        BY <1>1, <3>2
      <4>2. QED
        BY <1>1, <1>2, <2>2, <4>1
    <3>3. QED
      BY <3>1, <3>2
  <2>4. QED
    BY <1>1, <2>2, <2>3
<1>4. \A a \in 0 .. 7 : Floor(e + (ONE * a) \div 8) = IF j + a >= 8 THEN q + 1 ELSE q
  <2>1. TAKE a \in 0 .. 7
  <2>2. (ONE * a) \div 8 = u * a
    BY <1>1
  <2>3. PICK w \in Int : w = e + u * a
    BY <1>1, <1>2
  <2>4. ONE \in Nat \ {0} /\ j * u + a * u = (j + a) * u
    BY <1>1
  <2>5. CASE j + a >= 8
    <3>1. w = ONE * (q + 1) + ((j + a - 8) * u + s)
      BY <1>1, <1>2, <1>3, <2>3, <2>4
    <3>2. (j + a - 8) * u + s \in 0 .. ONE - 1
      <4>1. j + a - 8 \in 0 .. 6
        BY <2>5
      <4>2. QED
        BY <1>1, <1>3, <4>1
    <3>3. w \div ONE = q + 1
      <4>1. PICK z \in 0 .. ONE - 1 : z = (j + a - 8) * u + s
        BY <3>2
      <4>2. w = ONE * (q + 1) + z /\ q + 1 \in Int
        BY <3>1, <4>1
      <4>3. QED
        BY <2>4, <4>1, <4>2, QuotientIs
    <3>4. QED
      BY <2>2, <2>3, <2>5, <3>3 DEF Floor
  <2>6. CASE j + a < 8
    <3>1. w = ONE * q + ((j + a) * u + s)
      BY <1>1, <1>2, <1>3, <2>3, <2>4
    <3>2. (j + a) * u + s \in 0 .. ONE - 1
      <4>1. j + a \in 0 .. 7
        BY <2>6
      <4>2. QED
        BY <1>1, <1>3, <4>1
    <3>3. w \div ONE = q
      <4>1. PICK z \in 0 .. ONE - 1 : z = (j + a) * u + s
        BY <3>2
      <4>2. w = ONE * q + z /\ q \in Int
        BY <3>1, <4>1
      <4>3. QED
        BY <2>4, <4>1, <4>2, QuotientIs
    <3>4. QED
      BY <2>2, <2>3, <2>6, <3>3 DEF Floor
  <2>7. QED
    BY <2>5, <2>6
<1>5. Floor(8 * e) = 8 * q + j
  <2>1. 8 * e = ONE * (8 * q + j) + 8 * s
    <3>1. ONE * (8 * q + j) = 8 * ((8 * u) * q) + 8 * (j * u)
      BY <1>1
    <3>2. QED
      BY <1>1, <1>2, <1>3, <3>1
  <2>2. 8 * s \in 0 .. ONE - 1 /\ ONE \in Nat \ {0} /\ 8 * e \in Int /\ 8 * q + j \in Int
    BY <1>1, <1>3
  <2>3. QED
    BY <2>1, <2>2, QuotientIs DEF Floor
<1>6. \A a \in 0 .. 7 : h[a] = Clamp(IF j + a >= 8 THEN q + 1 ELSE q, 0, 255)
  BY <1>4
<1>7. QED
  BY <1>5, <1>6 DEF Clamp

\* The phase of an LED moves by three with every frame.
LEMMA PhaseInFrame ==
  ASSUME NEW st, NEW b, NEW x \in Nat, NEW y \in Nat, NEW f \in Nat,
         In(st, b, "x") = x * ONE, In(st, b, "y") = y * ONE, Get(st, "scalar", 0) = f * ONE,
         x + 5 * y + 3 * f < Mantissa
  PROVE  DitherPhase(st, b) = (x + 5 * y + 3 * f) % 8
<1>1. ONE \in Nat \ {0} /\ Mantissa \in Nat
  BY OneAssumption, MantissaAssumption DEF OneAssumption, MantissaAssumption
<1>2. \A n \in Nat : n < Mantissa => F32(n * ONE) = n * ONE
  BY WholeNumber
<1>3. F32(5 * In(st, b, "y")) = (5 * y) * ONE
  <2>1. 5 * (y * ONE) = (5 * y) * ONE /\ 5 * y \in Nat /\ 5 * y < Mantissa
    BY <1>1
  <2>2. QED
    BY <1>2, <2>1
<1>4. F32(In(st, b, "x") + F32(5 * In(st, b, "y"))) = (x + 5 * y) * ONE
  <2>1. x * ONE + (5 * y) * ONE = (x + 5 * y) * ONE /\ x + 5 * y \in Nat /\ x + 5 * y < Mantissa
    BY <1>1
  <2>2. QED
    BY <1>2, <1>3, <2>1
<1>5. F32(3 * Get(st, "scalar", 0)) = (3 * f) * ONE
  <2>1. 3 * (f * ONE) = (3 * f) * ONE /\ 3 * f \in Nat /\ 3 * f < Mantissa
    BY <1>1
  <2>2. QED
    BY <1>2, <2>1
<1>6. PICK n \in Nat : n = x + 5 * y + 3 * f
  OBVIOUS
<1>7. F32((x + 5 * y) * ONE + (3 * f) * ONE) = n * ONE
  <2>1. (x + 5 * y) * ONE + (3 * f) * ONE = n * ONE /\ n < Mantissa
    BY <1>1, <1>6
  <2>2. QED
    BY <1>2, <2>1
<1>8. Round(n * ONE) = n /\ Len(dither_add) = 8
  BY WholeNumber DEF dither_add
<1>9. DitherPhase(st, b) = n % 8
  <2>1. DitherPhase(st, b) = (IF n < 0 THEN 0 ELSE n) % 8
    BY <1>4, <1>5, <1>7, <1>8, Zenon DEF DitherPhase
  <2>2. QED
    BY <2>1
<1>10. QED
  BY <1>6, <1>9

\* Eight phases that differ by three are all phases.
LEMMA AllPhases ==
  ASSUME NEW n \in Nat
  PROVE  \E d \in [0 .. 7 -> 0 .. 7] :
            /\ \A i \in 0 .. 7 : d[i] = dither_add[((n + 3 * i) % 8) + 1]
            /\ \A g \in [0 .. 7 -> Int] :
                   g[d[0]] + g[d[1]] + g[d[2]] + g[d[3]] + g[d[4]] + g[d[5]] + g[d[6]] + g[d[7]]
                       = g[0] + g[1] + g[2] + g[3] + g[4] + g[5] + g[6] + g[7]
<1>1. PICK m \in Nat, j \in 0 .. 7 : n = 8 * m + j
  <2>1. n = 8 * (n \div 8) + (n % 8) /\ n \div 8 \in Nat /\ n % 8 \in 0 .. 7
    OBVIOUS
  <2>2. QED
    BY <2>1
<1> DEFINE d == [i \in 0 .. 7 |-> dither_add[((n + 3 * i) % 8) + 1]]
<1>2. \A i \in 0 .. 7 : (n + 3 * i) % 8 = (j + 3 * i) % 8
  BY <1>1
<1>3. d \in [0 .. 7 -> 0 .. 7]
  BY DEF dither_add
<1>4. \A i \in 0 .. 7 : d[i] = dither_add[((j + 3 * i) % 8) + 1]
  BY <1>2
<1> HIDE DEF d
<1>5. ASSUME NEW g \in [0 .. 7 -> Int]
      PROVE  g[d[0]] + g[d[1]] + g[d[2]] + g[d[3]] + g[d[4]] + g[d[5]] + g[d[6]] + g[d[7]]
                 = g[0] + g[1] + g[2] + g[3] + g[4] + g[5] + g[6] + g[7]
  <2>1. CASE j = 0
    <3>1. /\ d[0] = 0 /\ d[1] = 6 /\ d[2] = 3 /\ d[3] = 4
          /\ d[4] = 1 /\ d[5] = 7 /\ d[6] = 2 /\ d[7] = 5
      BY <1>4, <2>1 DEF dither_add
    <3>2. QED
      BY <3>1
  <2>2. CASE j = 1
    <3>1. /\ d[0] = 4 /\ d[1] = 1 /\ d[2] = 7 /\ d[3] = 2
          /\ d[4] = 5 /\ d[5] = 0 /\ d[6] = 6 /\ d[7] = 3
      BY <1>4, <2>2 DEF dither_add
    <3>2. QED
      BY <3>1
  <2>3. CASE j = 2
    <3>1. /\ d[0] = 2 /\ d[1] = 5 /\ d[2] = 0 /\ d[3] = 6
          /\ d[4] = 3 /\ d[5] = 4 /\ d[6] = 1 /\ d[7] = 7
      BY <1>4, <2>3 DEF dither_add
    <3>2. QED
      BY <3>1
  <2>4. CASE j = 3
    <3>1. /\ d[0] = 6 /\ d[1] = 3 /\ d[2] = 4 /\ d[3] = 1
          /\ d[4] = 7 /\ d[5] = 2 /\ d[6] = 5 /\ d[7] = 0
      BY <1>4, <2>4 DEF dither_add
    <3>2. QED
      BY <3>1
  <2>5. CASE j = 4
    <3>1. /\ d[0] = 1 /\ d[1] = 7 /\ d[2] = 2 /\ d[3] = 5
          /\ d[4] = 0 /\ d[5] = 6 /\ d[6] = 3 /\ d[7] = 4
      BY <1>4, <2>5 DEF dither_add
    <3>2. QED
      BY <3>1
  <2>6. CASE j = 5
    <3>1. /\ d[0] = 5 /\ d[1] = 0 /\ d[2] = 6 /\ d[3] = 3
          /\ d[4] = 4 /\ d[5] = 1 /\ d[6] = 7 /\ d[7] = 2
      BY <1>4, <2>6 DEF dither_add
    <3>2. QED
      BY <3>1
  <2>7. CASE j = 6
    <3>1. /\ d[0] = 3 /\ d[1] = 4 /\ d[2] = 1 /\ d[3] = 7
          /\ d[4] = 2 /\ d[5] = 5 /\ d[6] = 0 /\ d[7] = 6
      BY <1>4, <2>7 DEF dither_add
    <3>2. QED
      BY <3>1
  <2>8. CASE j = 7
    <3>1. /\ d[0] = 7 /\ d[1] = 2 /\ d[2] = 5 /\ d[3] = 0
          /\ d[4] = 6 /\ d[5] = 3 /\ d[6] = 4 /\ d[7] = 1
      BY <1>4, <2>8 DEF dither_add
    <3>2. QED
      BY <3>1
  <2>9. QED
    BY <2>1, <2>2, <2>3, <2>4, <2>5, <2>6, <2>7, <2>8
<1>6. QED
  BY <1>3, <1>5 DEF d

\* Over eight frames in a row an LED emits the color it was asked for, to within an eighth
\* of a step: the phases of the eight frames are all different, and eight floors spread over
\* one step make up the eighth.  The phase has to be exact in an f32, and the color must not
\* change meanwhile (dither.rs:104-113, dither.rs:130-165).
THEOREM DitherAveragesOut ==
  ASSUME ONE % 8 = 0, NEW st, NEW b, NEW k \in Channels, NEW e \in Int,
         NEW x \in Nat, NEW y \in Nat, NEW f \in Nat, x + 5 * y + 3 * (f + 7) < Mantissa,
         \A i \in 0 .. 7 : /\ In(st[i], b, "x") = x * ONE /\ In(st[i], b, "y") = y * ONE
                           /\ Get(st[i], "scalar", 0) = (f + i) * ONE
                           /\ Curve(st[i], b, k) = e
  PROVE  LET emitted == [i \in 0 .. 7 |-> Dither(st[i], b)[k]]
         IN  emitted[0] + emitted[1] + emitted[2] + emitted[3]
                 + emitted[4] + emitted[5] + emitted[6] + emitted[7] = Clamp(Floor(8 * e), 0, 255 * 8)
<1> DEFINE emitted == [i \in 0 .. 7 |-> Dither(st[i], b)[k]]
           h == [a \in 0 .. 7 |-> Clamp(Floor(e + (ONE * a) \div 8), 0, 255)]
<1>1. PICK n \in Nat : n = x + 5 * y + 3 * f
  OBVIOUS
<1>2. PICK d \in [0 .. 7 -> 0 .. 7] :
        /\ \A i \in 0 .. 7 : d[i] = dither_add[((n + 3 * i) % 8) + 1]
        /\ \A g \in [0 .. 7 -> Int] :
               g[d[0]] + g[d[1]] + g[d[2]] + g[d[3]] + g[d[4]] + g[d[5]] + g[d[6]] + g[d[7]]
                   = g[0] + g[1] + g[2] + g[3] + g[4] + g[5] + g[6] + g[7]
  BY AllPhases
<1>3. \A i \in 0 .. 7 : emitted[i] = h[d[i]]
  <2>1. TAKE i \in 0 .. 7
  <2>2. DitherPhase(st[i], b) = (n + 3 * i) % 8
    <3>1. /\ f + i \in Nat /\ x + 5 * y + 3 * (f + i) < Mantissa
          /\ x + 5 * y + 3 * (f + i) = n + 3 * i
      BY <1>1, MantissaAssumption DEF MantissaAssumption
    <3>2. PICK v : v = st[i]
      OBVIOUS
    <3>3. PICK fr \in Nat : fr = f + i
      BY <3>1
    <3>4. In(v, b, "x") = x * ONE /\ In(v, b, "y") = y * ONE /\ Get(v, "scalar", 0) = fr * ONE
      BY <3>2, <3>3, Zenon
    <3>5. x + 5 * y + 3 * fr < Mantissa /\ x + 5 * y + 3 * fr = n + 3 * i
      BY <3>1, <3>3
    <3>6. DitherPhase(v, b) = (x + 5 * y + 3 * fr) % 8
      BY <3>4, <3>5, PhaseInFrame
    <3>7. QED
      BY <3>2, <3>5, <3>6
  <2>3. Len(dither_add) = 8
    BY DEF dither_add
  <2>4. Dither(st[i], b)[k] = Clamp(Floor(Curve(st[i], b, k) + (ONE * d[i]) \div 8), 0, 255)
    BY <1>2, <2>2, <2>3, Zenon DEF Dither, Quantised
  <2>5. d[i] \in 0 .. 7
    BY <1>2
  <2>6. QED
    BY <2>4, <2>5, Zenon
<1>4. h \in [0 .. 7 -> Int]
  <2>1. \A v \in Int : Clamp(v, 0, 255) \in Int
    BY DEF Clamp
  <2>2. \A a \in 0 .. 7 : Floor(e + (ONE * a) \div 8) \in Int
    BY OneAssumption DEF OneAssumption, Floor
  <2>3. QED
    BY <2>1, <2>2
<1>5. h[0] + h[1] + h[2] + h[3] + h[4] + h[5] + h[6] + h[7] = Clamp(Floor(8 * e), 0, 255 * 8)
  <2>1. \A a \in 0 .. 7 : h[a] = Clamp(Floor(e + (ONE * a) \div 8), 0, 255)
    OBVIOUS
  <2> HIDE DEF h
  <2>2. QED
    BY <2>1, EightFloors
<1> HIDE DEF h, emitted
<1>6. emitted[0] + emitted[1] + emitted[2] + emitted[3] + emitted[4] + emitted[5] + emitted[6] + emitted[7]
        = h[0] + h[1] + h[2] + h[3] + h[4] + h[5] + h[6] + h[7]
  BY <1>2, <1>3, <1>4
<1>7. QED
  BY <1>5, <1>6 DEF emitted

-----------------------------------------------------------------------------
(* The layout of the frame buffer *)

USE LayoutAssumption DEF LayoutAssumption

LEMMA RowsArePairs == Strings \in Nat /\ STRING_COUNT = 2 * Strings
  BY SMT DEF Strings

\* BufferRow never leaves the buffer, and its row and column are those of the LED.
LEMMA BufferRowType ==
  ASSUME NEW x \in Columns, NEW y \in Rows
  PROVE  BufferRow(x, y) \in Positions
  BY SMT DEF BufferRow, Columns, Rows, Positions

\* Without the division: a pixel of the buffer is a pixel of string y \div 2.
LEMMA fb_idxOfString ==
  ASSUME NEW x \in Columns, NEW y \in Rows
  PROVE  /\ y \div 2 \in 0 .. Strings - 1
         /\ fb_idx(x, y) = LedByte(y \div 2, BufferRow(x, y), 0)
  <1>1. y \div 2 \in 0 .. Strings - 1
    BY RowsArePairs, SMT DEF Rows
  <1>2. BufferRow(x, y) \in Nat
    BY BufferRowType, SMT DEF Positions
  <1>3. BufferRow(x, y) * STRING_COUNT = 2 * (BufferRow(x, y) * Strings)
    BY <1>2, RowsArePairs, SMT
  <1>4. BufferRow(x, y) * Strings \in Nat
    BY <1>2, RowsArePairs, SMT
  <1>5. (BufferRow(x, y) * STRING_COUNT) \div 2 = BufferRow(x, y) * Strings
    BY <1>3, <1>4, SMT
  <1> QED
    BY <1>1, <1>2, <1>4, <1>5, SMT DEF fb_idx, LedByte, BYTES_PER_LED

-----------------------------------------------------------------------------
(* The three bytes the n-th LED of string s shows are those that fb_idx gives *)
(* the place where it hangs: nothing is mirrored, shifted or transposed,      *)
(* whatever the size (constants.rs:23-37).                                    *)
THEOREM LedsShowTheirPlace ==
  ASSUME NEW s \in 0 .. Strings - 1, NEW n \in Positions, NEW b \in 0 .. 2
  PROVE  /\ HangsAtColumn(n) \in Columns
         /\ HangsAtRow(s, n) \in Rows
         /\ LedByte(s, n, b) = fb_idx(HangsAtColumn(n), HangsAtRow(s, n)) + b
  <1> DEFINE x == HangsAtColumn(n)
             y == HangsAtRow(s, n)
  <1>1. x \in Columns /\ y \in Rows
    BY RowsArePairs, SMT DEF HangsAtColumn, HangsAtRow, Columns, Rows, Positions
  <1>2. y \div 2 = s
    BY RowsArePairs, SMT DEF HangsAtRow
  <1>3. BufferRow(x, y) = n
    BY RowsArePairs, SMT DEF BufferRow, HangsAtColumn, HangsAtRow, Positions
  <1>4. fb_idx(x, y) = LedByte(s, n, 0)
    BY <1>1, <1>2, <1>3, fb_idxOfString
  <1>5. n * Strings \in Nat
    BY RowsArePairs, SMT DEF Positions
  <1> QED
    BY <1>1, <1>4, <1>5, RowsArePairs, SMT DEF LedByte, BYTES_PER_LED

(* No two places share a byte, and none is outside the frame: distinct       *)
(* places are three bytes or more apart, below FRAME_SIZE_BYTES, so drawing  *)
(* never indexes out of the slice that borrow_fb returns                     *)
(* (constants.rs:23-37, display.rs:132-139, mod_ctrl.rs:80-85).              *)
THEOREM PlacesAreApart ==
  ASSUME NEW x \in Columns, NEW y \in Rows, NEW x2 \in Columns, NEW y2 \in Rows,
         x # x2 \/ y # y2
  PROVE  /\ fb_idx(x, y) \in 0 .. FRAME_SIZE_BYTES - 3
         /\ fb_idx(x, y) + 3 <= fb_idx(x2, y2) \/ fb_idx(x2, y2) + 3 <= fb_idx(x, y)
  <1> DEFINE s == y \div 2
             n == BufferRow(x, y)
             s2 == y2 \div 2
             n2 == BufferRow(x2, y2)
  <1>1. /\ s \in 0 .. Strings - 1 /\ n \in Positions
        /\ s2 \in 0 .. Strings - 1 /\ n2 \in Positions
    BY fb_idxOfString, BufferRowType
  <1>2. /\ fb_idx(x, y) = LedByte(s, n, 0)
        /\ fb_idx(x2, y2) = LedByte(s2, n2, 0)
    BY fb_idxOfString
  <1>3. s # s2 \/ n # n2
    BY SMT DEF BufferRow, Columns, Rows
  <1> HIDE DEF s, n, s2, n2
  <1>4. FRAME_SIZE_BYTES = 3 * (2 * LED_COUNT * Strings)
    BY RowsArePairs, SMT DEF FRAME_SIZE_BYTES, PIXEL_COUNT, BYTES_PER_LED
  <1>5. n * Strings \in Nat /\ n2 * Strings \in Nat
    BY <1>1, RowsArePairs, SMT DEF Positions
  <1>6. n * Strings <= 2 * LED_COUNT * Strings - Strings
    <2>1. n \in Nat /\ n + 1 <= 2 * LED_COUNT
      BY <1>1, SMT DEF Positions
    <2> QED
      BY <2>1, RowsArePairs, SMT
  <1>7. \/ n = n2
        \/ n * Strings + Strings <= n2 * Strings
        \/ n2 * Strings + Strings <= n * Strings
    <2>1. n \in Nat /\ n2 \in Nat
      BY <1>1, SMT DEF Positions
    <2>2. CASE n < n2
      BY <2>1, <2>2, RowsArePairs, SMT
    <2>3. CASE n2 < n
      BY <2>1, <2>3, RowsArePairs, SMT
    <2> QED
      BY <2>1, <2>2, <2>3, SMT
  <1> QED
    BY <1>1, <1>2, <1>3, <1>4, <1>5, <1>6, <1>7, RowsArePairs, SMT DEF LedByte, BYTES_PER_LED

-----------------------------------------------------------------------------
(* Folds.  A fold over a list is the end of the iteration it stands for: a
   chain of values, one for each element, in which each follows from the one
   before.  FoldLeft is defined by CHOOSE of a function on sets of indices that
   removes the largest; that such a function exists is shown here, once. *)

\* A set of numbers that is not empty has a least element.
LEMMA LeastElement ==
  ASSUME NEW T \in SUBSET Nat, T # {}
  PROVE  \E m \in T : \A k \in T : m <= k
<1>1. IsWellFoundedOn(OpToRel(<, Nat), Nat)
  BY NatLessThanWellFounded
<1>2. PICK m \in T : \A k \in T : <<k, m>> \notin OpToRel(<, Nat)
  BY <1>1, WFMin
<1>3. \A k \in T : ~(k < m)
  BY <1>2 DEF OpToRel
<1>4. QED
  BY <1>3

\* What holds at 0, and of each number after one it holds of, holds up to n.
LEMMA UpTo ==
  ASSUME NEW n \in Nat, NEW T, 0 \in T, \A k \in 0 .. n - 1 : k \in T => k + 1 \in T
  PROVE  \A k \in 0 .. n : k \in T
<1> DEFINE Rest == 0 .. n \ T
<1>1. SUFFICES ASSUME Rest # {}
               PROVE  FALSE
  OBVIOUS
<1>2. Rest \in SUBSET Nat
  OBVIOUS
<1>3. PICK m \in Rest : \A k \in Rest : m <= k
  BY <1>1, <1>2, LeastElement
<1>4. m - 1 \in 0 .. n - 1 /\ m - 1 \in T
  BY <1>3
<1>5. m - 1 + 1 = m
  BY <1>3
<1>6. QED
  BY <1>3, <1>4, <1>5

\* Max is the largest element of a set that has elements and a bound.
LEMMA Largest ==
  ASSUME NEW n \in Nat, NEW s \in SUBSET (1 .. n), s # {}
  PROVE  Max(s) \in s /\ \A k \in s : k <= Max(s)
<1> DEFINE Below == {n - k : k \in s}
<1>1. Below \in SUBSET Nat /\ Below # {}
  <2>1. \A k \in s : n - k \in Nat
    OBVIOUS
  <2>2. QED
    BY <2>1
<1>2. PICK m \in Below : \A k \in Below : m <= k
  BY <1>1, LeastElement
<1>3. PICK x \in s : m = n - x
  BY <1>2
<1>4. ASSUME NEW k \in s
      PROVE  x >= k
  <2>1. n - k \in Below /\ x \in Int /\ k \in Int
    OBVIOUS
  <2>2. n - x <= n - k
    BY <1>2, <1>3, <2>1
  <2>3. QED
    BY <2>1, <2>2
<1>5. \E y \in s : \A k \in s : y >= k
  BY <1>4
<1>6. Max(s) \in s /\ \A k \in s : Max(s) >= k
  BY <1>5, Zenon DEF Max
<1>7. QED
  BY <1>6

\* The largest of the numbers up to n is n.
LEMMA LargestUpTo ==
  ASSUME NEW n \in Nat \ {0}
  PROVE  Max(1 .. n) = n /\ (1 .. n) \ {n} = 1 .. n - 1
<1>1. n \in Nat /\ 1 .. n \in SUBSET (1 .. n) /\ 1 .. n # {}
  OBVIOUS
<1>2. Max(1 .. n) \in 1 .. n /\ \A k \in 1 .. n : k <= Max(1 .. n)
  BY <1>1, Largest
<1>3. QED
  BY <1>2

LEMMA UpToParts ==
  ASSUME NEW n \in Nat, NEW k \in 1 .. n
  PROVE  /\ 1 .. k \in SUBSET (1 .. n) /\ 1 .. k # {}
         /\ Max(1 .. k) = k /\ (1 .. k) \ {k} = 1 .. k - 1
<1>1. k \in Nat \ {0} /\ k \in 1 .. k /\ \A j \in 1 .. k : j \in 1 .. n
  OBVIOUS
<1>2. QED
  BY <1>1, LargestUpTo

\* The functions FoldLeft chooses from: defined on every set of indices, from the
\* value for the set without its largest index.
Iterations(F, V, base, q, n) ==
    {it \in [SUBSET (1 .. n) -> V] :
        \A s \in SUBSET (1 .. n) : it[s] = IF s = {} THEN base ELSE F[it[s \ {Max(s)}]][q[Max(s)]]}

\* A step F that takes values V and elements W of the list to values.
FoldOf(F, V, W, base, q, n) ==
    F \in [V -> [W -> V]] /\ base \in V /\ n \in Nat /\ \A i \in 1 .. n : q[i] \in W

\* There is one, so FoldLeft chooses it.
LEMMA FoldExists ==
  ASSUME NEW F, NEW V, NEW W, NEW base, NEW q, NEW n, FoldOf(F, V, W, base, q, n)
  PROVE  Iterations(F, V, base, q, n) # {}
<1> F \in [V -> [W -> V]] /\ base \in V /\ n \in Nat /\ \A i \in 1 .. n : q[i] \in W
  BY DEF FoldOf
<1> DEFINE T == {m \in 0 .. n : Iterations(F, V, base, q, m) # {}}
<1>1. Iterations(F, V, base, q, 0) # {}
  <2> DEFINE it == [s \in SUBSET (1 .. 0) |-> base]
  <2>1. SUBSET (1 .. 0) = {{}}
    OBVIOUS
  <2>2. it \in [SUBSET (1 .. 0) -> V] /\ \A s \in SUBSET (1 .. 0) : it[s] = base /\ s = {}
    BY <2>1
  <2>3. it \in Iterations(F, V, base, q, 0)
    BY <2>2 DEF Iterations
  <2>4. QED
    BY <2>3
<1>2. ASSUME NEW m \in 0 .. n - 1, Iterations(F, V, base, q, m) # {}
      PROVE  Iterations(F, V, base, q, m + 1) # {}
  <2>1. PICK g \in [SUBSET (1 .. m) -> V] : \A s \in SUBSET (1 .. m) :
            g[s] = IF s = {} THEN base ELSE F[g[s \ {Max(s)}]][q[Max(s)]]
    BY <1>2 DEF Iterations
  <2> DEFINE it == [s \in SUBSET (1 .. m + 1) |->
                      IF m + 1 \in s THEN F[g[s \ {m + 1}]][q[m + 1]] ELSE g[s]]
  <2>2. m \in Nat /\ m + 1 \in Nat /\ m + 1 \in 1 .. n /\ q[m + 1] \in W
    OBVIOUS
  <2>3. ASSUME NEW s \in SUBSET (1 .. m + 1)
        PROVE  /\ it[s] \in V
               /\ it[s] = IF s = {} THEN base ELSE F[it[s \ {Max(s)}]][q[Max(s)]]
    <3>1. CASE m + 1 \in s
      <4>1. s # {} /\ Max(s) = m + 1
        <5>1. s # {}
          BY <3>1
        <5>2. Max(s) \in s /\ \A k \in s : k <= Max(s)
          BY <2>2, <5>1, Largest
        <5>3. PICK x \in 1 .. m + 1 : x = Max(s)
          BY <5>2
        <5>4. m + 1 <= x
          BY <3>1, <5>2, <5>3
        <5>5. x = m + 1
          BY <2>2, <5>4
        <5>6. QED
          BY <5>1, <5>3, <5>5
      <4>2. PICK t : t = s \ {m + 1}
        OBVIOUS
      <4>3. t \in SUBSET (1 .. m) /\ t \in SUBSET (1 .. m + 1) /\ m + 1 \notin t
        BY <4>2
      <4>4. it[t] = g[t] /\ it[s] = F[g[t]][q[m + 1]]
        BY <3>1, <4>2, <4>3
      <4>5. g[t] \in V
        BY <2>1, <4>3
      <4>6. F[g[t]][q[m + 1]] \in V
        BY <2>2, <4>5
      <4>7. QED
        BY <4>1, <4>2, <4>4, <4>6
    <3>2. CASE m + 1 \notin s
      <4>1. s \in SUBSET (1 .. m)
        <5>1. \A k \in s : k \in 1 .. m + 1 /\ k # m + 1
          BY <3>2
        <5>2. \A k \in s : k \in 1 .. m
          BY <5>1
        <5>3. QED
          BY <5>2
      <4>2. it[s] = g[s] /\ g[s] \in V
        BY <2>1, <3>2, <4>1
      <4>3. s # {} => it[s \ {Max(s)}] = g[s \ {Max(s)}]
        <5>1. s \ {Max(s)} \in SUBSET (1 .. m + 1) /\ m + 1 \notin s \ {Max(s)}
          BY <3>2
        <5>2. QED
          BY <5>1
      <4>4. QED
        BY <2>1, <4>1, <4>2, <4>3
    <3>3. QED
      BY <3>1, <3>2
  <2>4. it \in [SUBSET (1 .. m + 1) -> V]
    BY <2>3
  <2>5. it \in Iterations(F, V, base, q, m + 1)
    <3> HIDE DEF it
    <3>1. QED
      BY <2>3, <2>4 DEF Iterations
  <2>6. QED
    BY <2>5
<1>3. 0 \in T /\ \A k \in 0 .. n - 1 : k \in T => k + 1 \in T
  BY <1>1, <1>2
<1>4. \A k \in 0 .. n : k \in T
  <2> HIDE DEF T
  <2>1. QED
    BY <1>3, UpTo, Zenon
<1>5. n \in 0 .. n
  OBVIOUS
<1>6. n \in T
  BY <1>4, <1>5, Zenon
<1>7. QED
  BY <1>6

\* The values a fold goes through.
Chains(F, V, base, q, n) ==
    {h \in [0 .. n -> V] : h[0] = base /\ \A k \in 1 .. n : h[k] = F[h[k - 1]][q[k]]}

\* The value such an iteration ends with.
EndsIn(F, V, base, q, n, v) == \E h \in Chains(F, V, base, q, n) : h[n] = v

\* What is defined on all sets of indices, taken along the first ones.
Climbs(F, V, base, q, n, g) ==
    /\ g[1 .. 0] = base
    /\ \A k \in 1 .. n : g[1 .. k - 1] \in V => g[1 .. k] = F[g[1 .. k - 1]][q[k]]

\* A fold ends where such a chain ends.
LEMMA FoldChain ==
  ASSUME NEW F, NEW V, NEW W, NEW base, NEW q, NEW n, NEW g,
         FoldOf(F, V, W, base, q, n), Climbs(F, V, base, q, n, g)
  PROVE  EndsIn(F, V, base, q, n, g[1 .. n])
<1>1. F \in [V -> [W -> V]] /\ base \in V /\ n \in Nat /\ \A i \in 1 .. n : q[i] \in W
  BY DEF FoldOf
<1> g[1 .. 0] = base /\ \A k \in 1 .. n : g[1 .. k - 1] \in V => g[1 .. k] = F[g[1 .. k - 1]][q[k]]
  BY DEF Climbs
<1> DEFINE h == [k \in 0 .. n |-> g[1 .. k]]
           T == {k \in 0 .. n : h[k] \in V}
<1>2. h[0] = base /\ h[n] = g[1 .. n]
  BY <1>1
<1>3. \A k \in 1 .. n : h[k - 1] \in V => h[k] = F[h[k - 1]][q[k]]
  <2>1. \A k \in 1 .. n : k - 1 \in 0 .. n /\ k \in 0 .. n
    BY <1>1
  <2>2. QED
    BY <1>1, <2>1
<1>4. \A k \in 0 .. n : k \in T
  <2> HIDE DEF h
  <2>1. 0 \in T
    BY <1>1, <1>2
  <2>2. ASSUME NEW k \in 0 .. n - 1, k \in T
        PROVE  k + 1 \in T
    <3>1. k + 1 \in 1 .. n /\ k + 1 - 1 = k /\ k + 1 \in 0 .. n
      BY <1>1
    <3>2. h[k + 1] = F[h[k]][q[k + 1]] /\ h[k] \in V /\ q[k + 1] \in W
      BY <1>1, <1>3, <2>2, <3>1
    <3>3. F[h[k]][q[k + 1]] \in V
      BY <1>1, <3>2
    <3>4. QED
      BY <3>1, <3>2, <3>3
  <2> HIDE DEF T
  <2>3. \A k \in 0 .. n - 1 : k \in T => k + 1 \in T
    BY <2>2
  <2>4. QED
    BY <1>1, <2>1, <2>3, UpTo, Zenon
<1>5. h \in [0 .. n -> V]
  BY <1>4
<1>6. h \in Chains(F, V, base, q, n)
  <2>1. \A k \in 1 .. n : h[k] = F[h[k - 1]][q[k]]
    <3> HIDE DEF h
    <3>1. \A k \in 1 .. n : k - 1 \in 0 .. n
      BY <1>1
    <3>2. QED
      BY <1>3, <1>5, <3>1
  <2> HIDE DEF h
  <2>2. QED
    BY <1>2, <1>5, <2>1 DEF Chains
<1> HIDE DEF h
<1>7. QED
  BY <1>2, <1>6 DEF EndsIn

\* Two iterations that start alike and step alike are alike.
LEMMA SameIterations ==
  ASSUME NEW n \in Nat, NEW h, NEW g, h[0] = g[0],
         \A k \in 1 .. n : h[k - 1] = g[k - 1] => h[k] = g[k]
  PROVE  \A k \in 0 .. n : h[k] = g[k]
<1> DEFINE T == {k \in 0 .. n : h[k] = g[k]}
<1>1. 0 \in T
  OBVIOUS
<1>2. \A k \in 0 .. n - 1 : k \in T => k + 1 \in T
  <2>1. ASSUME NEW k \in 0 .. n - 1, k \in T
        PROVE  k + 1 \in T
    <3>1. k + 1 \in 1 .. n /\ k + 1 - 1 = k /\ k + 1 \in 0 .. n
      OBVIOUS
    <3>2. QED
      BY <2>1, <3>1
  <2>2. QED
    BY <2>1
<1>3. \A k \in 0 .. n : k \in T
  <2> HIDE DEF T
  <2>1. QED
    BY <1>1, <1>2, UpTo, Zenon
<1>4. QED
  BY <1>3

-----------------------------------------------------------------------------
(* Types of the variables (var_types.rs) and of what the blocks compute *)

\* The arithmetic of var_types.rs stays within the integers, and clamps to bytes.
LEMMA Arithmetic ==
  /\ \A v \in Int, lo \in Int, hi \in Int : lo <= hi => Clamp(v, lo, hi) \in lo .. hi
  /\ \A v \in Int : Clamp(v, 0, 255) \in Byte
  /\ \A v \in Int, w \in Int : Times(v, w) \in Int /\ Plus(v, w) \in Int
  /\ \A v \in Int : Floor(v) \in Int /\ Round(v) \in Int /\ Abs(v) \in Int /\ F32(v) \in Int
<1>1. \A v \in Int, lo \in Int, hi \in Int : lo <= hi => Clamp(v, lo, hi) \in lo .. hi
  BY DEF Clamp
<1>2. \A v \in Int, w \in Int : Times(v, w) \in Int /\ Plus(v, w) \in Int
  BY OneAssumption DEF OneAssumption, Times, Plus
<1>3. ASSUME NEW v \in Int
      PROVE  Floor(v) \in Int /\ Round(v) \in Int /\ Abs(v) \in Int
  <2>1. ONE \in Nat /\ ONE > 0 /\ 2 * ONE \in Int /\ 2 * ONE > 0
    BY OneAssumption DEF OneAssumption
  <2>2. \A u \in Int : u \div (2 * ONE) \in Int /\ u \div ONE \in Int
    BY <2>1
  <2>3. ONE - 2 * v \in Int /\ 2 * v + ONE \in Int
    BY <2>1
  <2>4. (ONE - 2 * v) \div (2 * ONE) \in Int /\ (2 * v + ONE) \div (2 * ONE) \in Int
    BY <2>2, <2>3
  <2>5. QED
    BY <2>2, <2>4 DEF Floor, Round, Abs
<1>4. ASSUME NEW v \in Int
      PROVE  F32(v) \in Int
  <2>1. ONE \in Int /\ Floor(v) \in Int
    BY <1>3, OneAssumption DEF OneAssumption
  <2>2. PICK n \in Int : n = Floor(v)
    BY <2>1
  <2>3. \A m \in Int : ONE * m \in Int
    BY <2>1
  <2>4. ONE * n \in Int /\ ONE * (n - 1) \in Int /\ ONE * (n + 1) \in Int
    BY <2>3
  <2>5. F32(v) \in {v, ONE * n, ONE * (n - 1), ONE * (n + 1)}
    BY <2>2 DEF F32
  <2>6. QED
    BY <2>4, <2>5
<1>5. \A v \in Int : Clamp(v, 0, 255) \in Byte
  BY DEF Clamp, Byte
<1>6. QED
  BY <1>1, <1>2, <1>3, <1>4, <1>5

\* The arithmetic of colors makes bytes.
LEMMA ColorArithmetic ==
  /\ \A c \in [Channels -> Byte], d \in [Channels -> Byte] : ColorAdd(c, d) \in [Channels -> Byte]
  /\ \A c \in [Channels -> Byte], m \in Int : ColorScale(c, m) \in [Channels -> Byte]
  /\ Black \in [Channels -> Byte]
<1>1. ASSUME NEW c \in [Channels -> Byte], NEW d \in [Channels -> Byte], NEW k \in Channels
      PROVE  Clamp(c[k] + d[k], 0, 255) \in Byte
  <2>1. c[k] \in Byte /\ d[k] \in Byte
    OBVIOUS
  <2>2. c[k] + d[k] \in Int
    <3>1. \A u \in Byte, v \in Byte : u + v \in Int
      BY DEF Byte
    <3>2. QED
      BY <2>1, <3>1
  <2>3. QED
    BY <2>2, Arithmetic
<1>2. ASSUME NEW c \in [Channels -> Byte], NEW m \in Int, NEW k \in Channels
      PROVE  Clamp(Round(m * c[k]), 0, 255) \in Byte
  <2>1. c[k] \in Byte
    OBVIOUS
  <2>2. m * c[k] \in Int
    BY <2>1 DEF Byte
  <2>3. Round(m * c[k]) \in Int
    BY <2>2, Arithmetic
  <2>4. QED
    BY <2>3, Arithmetic
<1>3. Black \in [Channels -> Byte]
  BY DEF Black, Byte
<1>4. QED
  BY <1>1, <1>2, <1>3 DEF ColorAdd, ColorScale

\* The variables of a kind are a list of values of that kind.
LEMMA VariablesOfKind ==
  ASSUME NEW st \in Variables, NEW kind \in Kinds
  PROVE  /\ st[kind] \in Seq(Values[kind]) /\ Len(st[kind]) \in Nat
         /\ DOMAIN st[kind] = 1 .. Len(st[kind])
         /\ \A i \in Nat : InRange(st, kind, i) => Get(st, kind, i) \in Values[kind]
         /\ kind \in DOMAIN st /\ kind # "panicked"
<1>1. kind \in DOMAIN st /\ kind # "panicked"
  BY DEF Kinds, Variables
<1>2. st[kind] \in Seq(Values[kind])
  <2>1. CASE kind = "scalar"
    BY <2>1 DEF Variables, Values
  <2>2. CASE kind = "position"
    BY <2>2 DEF Variables, Values
  <2>3. CASE kind = "color"
    BY <2>3 DEF Variables, Values
  <2>4. CASE kind = "rcolor"
    BY <2>4 DEF Variables, Values
  <2>5. CASE kind = "data"
    BY <2>5 DEF Variables, Values
  <2>6. QED
    BY <2>1, <2>2, <2>3, <2>4, <2>5 DEF Kinds
<1>3. PICK s \in Seq(Values[kind]) : s = st[kind]
  BY <1>2
<1>4. Len(s) \in Nat /\ DOMAIN s = 1 .. Len(s) /\ \A i \in Nat : i < Len(s) => s[i + 1] \in Values[kind]
  <2>1. Len(s) \in Nat /\ DOMAIN s = 1 .. Len(s) /\ \A i \in 1 .. Len(s) : s[i] \in Values[kind]
    BY LenProperties, ElementOfSeq
  <2>2. \A i \in Nat : i < Len(s) => i + 1 \in 1 .. Len(s)
    BY <2>1
  <2>3. QED
    BY <2>1, <2>2
<1>5. QED
  BY <1>1, <1>3, <1>4 DEF InRange, Get

\* The first n elements are all there is, and are numbers.
IntList(q, n) == n \in Nat /\ DOMAIN q = 1 .. n /\ \A k \in 1 .. n : q[k] \in Int

\* The folds of the model: first-order names for them.
Product(base, q) == FoldLeft(Times, base, q)
Sum(base, q) == FoldLeft(Plus, base, q)

\* What ends in the product is a chain of numbers; the same for the sum.
ProductBySteps(base, q, n) ==
    \E h \in [0 .. n -> Int] :
        /\ h[0] = base
        /\ \A k \in 1 .. n : h[k] = Times(h[k - 1], q[k])
        /\ Product(base, q) = h[n]

LEMMA ProductSteps ==
  ASSUME NEW base \in Int, NEW q, NEW n, IntList(q, n)
  PROVE  ProductBySteps(base, q, n)
<1> n \in Nat /\ DOMAIN q = 1 .. n /\ \A k \in 1 .. n : q[k] \in Int
  BY DEF IntList
<1>1. PICK F \in [Int -> [Int -> Int]] : \A v \in Int, w \in Int : F[v][w] = Times(v, w)
  <2> DEFINE F == [v \in Int |-> [w \in Int |-> Times(v, w)]]
  <2>1. \A v \in Int, w \in Int : Times(v, w) \in Int
    BY Arithmetic
  <2>2. F \in [Int -> [Int -> Int]] /\ \A v \in Int, w \in Int : F[v][w] = Times(v, w)
    BY <2>1
  <2> HIDE DEF F
  <2>3. QED
    BY <2>2
<1>2. FoldOf(F, Int, Int, base, q, n)
  BY <1>1 DEF FoldOf
<1>3. PICK it \in [SUBSET (1 .. n) -> Int] : \A s \in SUBSET (1 .. n) :
             it[s] = IF s = {} THEN base ELSE F[it[s \ {Max(s)}]][q[Max(s)]]
  <2>1. Iterations(F, Int, base, q, n) # {}
    BY <1>2, FoldExists
  <2>2. QED
    BY <2>1 DEF Iterations
<1>4. it = [s \in SUBSET (1 .. n) |->
               IF s = {} THEN base ELSE Times(it[s \ {Max(s)}], q[Max(s)])]
  <2>1. \A s \in SUBSET (1 .. n) : s # {} => it[s \ {Max(s)}] \in Int /\ q[Max(s)] \in Int
    BY <1>3, Largest
  <2>2. \A s \in SUBSET (1 .. n) : s # {} =>
            F[it[s \ {Max(s)}]][q[Max(s)]] = Times(it[s \ {Max(s)}], q[Max(s)])
    BY <1>1, <2>1
  <2>3. QED
    BY <1>3, <2>2
<1>5. PICK g : /\ g = [s \in SUBSET (1 .. n) |->
                          IF s = {} THEN base ELSE Times(g[s \ {Max(s)}], q[Max(s)])]
               /\ Product(base, q) = g[1 .. n]
  BY <1>4, Zenon DEF Product, FoldLeft, MapThenFoldSet
<1>6. g[1 .. 0] = base
  BY <1>5
<1>7. \A k \in 1 .. n : g[1 .. k] = Times(g[1 .. k - 1], q[k])
  <2>1. ASSUME NEW k \in 1 .. n
        PROVE  g[1 .. k] = Times(g[1 .. k - 1], q[k])
    <3>1. PICK s \in SUBSET (1 .. n) : s = 1 .. k /\ s # {} /\ Max(s) = k /\ s \ {k} = 1 .. k - 1
      BY UpToParts
    <3>2. g[s] = Times(g[s \ {Max(s)}], q[Max(s)])
      BY <1>5, <3>1, Zenon
    <3>3. QED
      BY <3>1, <3>2
  <2>2. QED
    BY <2>1
<1>8. Climbs(F, Int, base, q, n, g)
  <2>1. \A k \in 1 .. n : g[1 .. k - 1] \in Int => g[1 .. k] = F[g[1 .. k - 1]][q[k]]
    BY <1>1, <1>7
  <2>2. QED
    BY <1>6, <2>1 DEF Climbs
<1>9. PICK h \in Chains(F, Int, base, q, n) : h[n] = g[1 .. n]
  <2>1. EndsIn(F, Int, base, q, n, g[1 .. n])
    BY <1>2, <1>8, FoldChain
  <2>2. QED
    BY <2>1 DEF EndsIn
<1>10. /\ h \in [0 .. n -> Int] /\ h[0] = base
       /\ \A k \in 1 .. n : h[k] = F[h[k - 1]][q[k]]
  BY <1>9 DEF Chains
<1>11. \A k \in 1 .. n : h[k] = Times(h[k - 1], q[k])
  <2>1. \A k \in 1 .. n : k - 1 \in 0 .. n
    OBVIOUS
  <2>2. QED
    BY <1>1, <1>10, <2>1
<1>12. QED
  BY <1>5, <1>9, <1>10, <1>11 DEF ProductBySteps

SumBySteps(base, q, n) ==
    \E h \in [0 .. n -> Int] :
        /\ h[0] = base
        /\ \A k \in 1 .. n : h[k] = Plus(h[k - 1], q[k])
        /\ Sum(base, q) = h[n]

LEMMA SumSteps ==
  ASSUME NEW base \in Int, NEW q, NEW n, IntList(q, n)
  PROVE  SumBySteps(base, q, n)
<1> n \in Nat /\ DOMAIN q = 1 .. n /\ \A k \in 1 .. n : q[k] \in Int
  BY DEF IntList
<1>1. PICK F \in [Int -> [Int -> Int]] : \A v \in Int, w \in Int : F[v][w] = Plus(v, w)
  <2> DEFINE F == [v \in Int |-> [w \in Int |-> Plus(v, w)]]
  <2>1. \A v \in Int, w \in Int : Plus(v, w) \in Int
    BY Arithmetic
  <2>2. F \in [Int -> [Int -> Int]] /\ \A v \in Int, w \in Int : F[v][w] = Plus(v, w)
    BY <2>1
  <2> HIDE DEF F
  <2>3. QED
    BY <2>2
<1>2. FoldOf(F, Int, Int, base, q, n)
  BY <1>1 DEF FoldOf
<1>3. PICK it \in [SUBSET (1 .. n) -> Int] : \A s \in SUBSET (1 .. n) :
             it[s] = IF s = {} THEN base ELSE F[it[s \ {Max(s)}]][q[Max(s)]]
  <2>1. Iterations(F, Int, base, q, n) # {}
    BY <1>2, FoldExists
  <2>2. QED
    BY <2>1 DEF Iterations
<1>4. it = [s \in SUBSET (1 .. n) |->
               IF s = {} THEN base ELSE Plus(it[s \ {Max(s)}], q[Max(s)])]
  <2>1. \A s \in SUBSET (1 .. n) : s # {} => it[s \ {Max(s)}] \in Int /\ q[Max(s)] \in Int
    BY <1>3, Largest
  <2>2. \A s \in SUBSET (1 .. n) : s # {} =>
            F[it[s \ {Max(s)}]][q[Max(s)]] = Plus(it[s \ {Max(s)}], q[Max(s)])
    BY <1>1, <2>1
  <2>3. QED
    BY <1>3, <2>2
<1>5. PICK g : /\ g = [s \in SUBSET (1 .. n) |->
                          IF s = {} THEN base ELSE Plus(g[s \ {Max(s)}], q[Max(s)])]
               /\ Sum(base, q) = g[1 .. n]
  BY <1>4, Zenon DEF Sum, FoldLeft, MapThenFoldSet
<1>6. g[1 .. 0] = base
  BY <1>5
<1>7. \A k \in 1 .. n : g[1 .. k] = Plus(g[1 .. k - 1], q[k])
  <2>1. ASSUME NEW k \in 1 .. n
        PROVE  g[1 .. k] = Plus(g[1 .. k - 1], q[k])
    <3>1. PICK s \in SUBSET (1 .. n) : s = 1 .. k /\ s # {} /\ Max(s) = k /\ s \ {k} = 1 .. k - 1
      BY UpToParts
    <3>2. g[s] = Plus(g[s \ {Max(s)}], q[Max(s)])
      BY <1>5, <3>1, Zenon
    <3>3. QED
      BY <3>1, <3>2
  <2>2. QED
    BY <2>1
<1>8. Climbs(F, Int, base, q, n, g)
  <2>1. \A k \in 1 .. n : g[1 .. k - 1] \in Int => g[1 .. k] = F[g[1 .. k - 1]][q[k]]
    BY <1>1, <1>7
  <2>2. QED
    BY <1>6, <2>1 DEF Climbs
<1>9. PICK h \in Chains(F, Int, base, q, n) : h[n] = g[1 .. n]
  <2>1. EndsIn(F, Int, base, q, n, g[1 .. n])
    BY <1>2, <1>8, FoldChain
  <2>2. QED
    BY <2>1 DEF EndsIn
<1>10. /\ h \in [0 .. n -> Int] /\ h[0] = base
       /\ \A k \in 1 .. n : h[k] = F[h[k - 1]][q[k]]
  BY <1>9 DEF Chains
<1>11. \A k \in 1 .. n : h[k] = Plus(h[k - 1], q[k])
  <2>1. \A k \in 1 .. n : k - 1 \in 0 .. n
    OBVIOUS
  <2>2. QED
    BY <1>1, <1>10, <2>1
<1>12. QED
  BY <1>5, <1>9, <1>10, <1>11 DEF SumBySteps

\* The fields of a block are those of its signature.
LEMMA BlockFields ==
  ASSUME NEW b, IsBlock(b)
  PROVE  /\ b.type \in Types /\ b.o \in Nat
         /\ b.i \in [DOMAIN Signatures[b.type].inputs -> Nat]
         /\ b.l \in [Signatures[b.type].lists -> Seq(Nat)]
         /\ b.p \in [Signatures[b.type].params -> Int]
         /\ b.type = "scalar_macc" => Len(b.l.m) = Len(b.l.x)
BY DEF IsBlock

\* Every kind of output is one of the kinds of variables.
LEMMA OutputKinds ==
  ASSUME NEW t \in Types
  PROVE  Signatures[t].output \in {"scalar", "color", "rcolor"}
BY DEF Types, Signatures, Signature, ColorInterpSig, DitherSig, GammaSig, ImageLookupSig, ScalarAddSig,
       ScalarHsv2RgbSig, ScalarMaccSig, ScalarRampSig, ScalarTriangleSig

\* What Readable says of the inputs.
LEMMA InputsRead ==
  ASSUME NEW st \in Variables, NEW b, IsBlock(b), Readable(st, b),
         NEW k \in DOMAIN Signatures[b.type].inputs, NEW kind \in Kinds,
         Signatures[b.type].inputs[k] = kind
  PROVE  /\ b.i[k] \in Nat /\ InRange(st, kind, b.i[k])
         /\ Get(st, kind, b.i[k]) \in Values[kind]
         /\ kind = "scalar" => In(st, b, k) \in Int
<1>1. b.i[k] \in Nat /\ DOMAIN b.i = DOMAIN Signatures[b.type].inputs
  BY BlockFields
<1>2. kind # "unread"
  BY DEF Kinds
<1>3. <<kind, b.i[k]>> \in Reads(b)
  BY <1>1, <1>2 DEF Reads
<1>4. InRange(st, kind, b.i[k])
  BY <1>3 DEF Readable
<1>5. Get(st, kind, b.i[k]) \in Values[kind]
  BY <1>1, <1>4, VariablesOfKind
<1>6. QED
  BY <1>1, <1>4, <1>5 DEF In, Values

\* The scalars a block reads, by its type.
LEMMA ScalarInputs ==
  ASSUME NEW st \in Variables, NEW b, IsBlock(b), Readable(st, b)
  PROVE  /\ b.type = "scalar_add" => In(st, b, "a") \in Int /\ In(st, b, "b") \in Int
         /\ b.type \in {"scalar_ramp", "scalar_triangle"} =>
                \A k \in {"f", "min", "max", "i"} : In(st, b, k) \in Int
         /\ b.type = "scalar_hsv2rgb" => \A k \in {"h", "s", "v"} : In(st, b, k) \in Int
         /\ b.type = "image_lookup" => \A k \in {"width", "height", "x", "y", "mode"} : In(st, b, k) \in Int
         /\ b.type = "dither" => In(st, b, "x") \in Int /\ In(st, b, "y") \in Int
         /\ b.type = "color_interp" => In(st, b, "val") \in Int
<1>1. "scalar" \in Kinds
  BY DEF Kinds
<1>2. ASSUME NEW k \in DOMAIN Signatures[b.type].inputs, Signatures[b.type].inputs[k] = "scalar"
      PROVE  In(st, b, k) \in Int
  BY <1>1, <1>2, InputsRead
<1>3. ASSUME b.type = "scalar_add"
      PROVE  In(st, b, "a") \in Int /\ In(st, b, "b") \in Int
  <2>1. Signatures[b.type].inputs = [a |-> "scalar", b |-> "scalar"]
    BY <1>3 DEF Signatures, Signature, ScalarAddSig
  <2>2. QED
    BY <1>2, <2>1
<1>4. ASSUME b.type \in {"scalar_ramp", "scalar_triangle"}, NEW k \in {"f", "min", "max", "i"}
      PROVE  In(st, b, k) \in Int
  <2>1. Signatures[b.type].inputs = [j \in {"f", "min", "max", "i"} |-> "scalar"]
    BY <1>4 DEF Signatures, Signature, ScalarRampSig, ScalarTriangleSig, Wave
  <2>2. QED
    BY <1>2, <2>1
<1>5. ASSUME b.type = "scalar_hsv2rgb", NEW k \in {"h", "s", "v"}
      PROVE  In(st, b, k) \in Int
  <2>1. Signatures[b.type].inputs = [j \in {"h", "s", "v"} |-> "scalar"]
    BY <1>5 DEF Signatures, Signature, ScalarHsv2RgbSig
  <2>2. QED
    BY <1>2, <2>1
<1>6. ASSUME b.type = "image_lookup", NEW k \in {"width", "height", "x", "y", "mode"}
      PROVE  In(st, b, k) \in Int
  <2>1. Signatures[b.type].inputs = [j \in {"width", "height", "x", "y", "mode", "data"} |->
                                        IF j = "data" THEN "data" ELSE "scalar"]
    BY <1>6 DEF Signatures, Signature, ImageLookupSig
  <2>2. QED
    BY <1>2, <2>1
<1>7. ASSUME b.type = "dither"
      PROVE  In(st, b, "x") \in Int /\ In(st, b, "y") \in Int
  <2>1. Signatures[b.type].inputs = [i |-> "rcolor", x |-> "scalar", y |-> "scalar"]
    BY <1>7 DEF Signatures, Signature, DitherSig
  <2>2. QED
    BY <1>2, <2>1
<1>8. ASSUME b.type = "color_interp"
      PROVE  In(st, b, "val") \in Int
  <2>1. Signatures[b.type].inputs = [val |-> "scalar"]
    BY <1>8 DEF Signatures, Signature, ColorInterpSig
  <2>2. QED
    BY <1>2, <2>1
<1>9. QED
  BY <1>3, <1>4, <1>5, <1>6, <1>7, <1>8

\* A product of any number of factors.
LEMMA PowIsInt ==
  ASSUME NEW v \in Int, NEW g \in Int
  PROVE  Pow(v, g) \in Int
<1> DEFINE n == IF Floor(g) < 0 THEN 0 ELSE Floor(g)
           q == [k \in 1 .. Floor(g) |-> v]
<1>1. n \in Nat /\ DOMAIN q = 1 .. n /\ \A k \in 1 .. n : q[k] \in Int
  <2>1. Floor(g) \in Int
    BY Arithmetic
  <2>2. n \in Nat /\ 1 .. n = 1 .. Floor(g)
    BY <2>1
  <2>3. DOMAIN q = 1 .. Floor(g) /\ \A k \in 1 .. Floor(g) : q[k] = v
    OBVIOUS
  <2>4. QED
    BY <2>2, <2>3
<1>2. ONE \in Int /\ \A u \in Int, w \in Int : Times(u, w) \in Int
  BY Arithmetic, OneAssumption DEF OneAssumption
<1> HIDE DEF n, q
<1>3. PICK h \in [0 .. n -> Int] : Product(ONE, q) = h[n]
  <2>1. IntList(q, n)
    BY <1>1 DEF IntList
  <2>2. ProductBySteps(ONE, q, n)
    BY <1>2, <2>1, ProductSteps
  <2>3. QED
    BY <2>2 DEF ProductBySteps
<1>4. h[n] \in Int
  BY <1>1, n \in 0 .. n
<1>5. QED
  BY <1>3, <1>4 DEF Pow, Product, q

\* What the blocks with a scalar output compute is a scalar.
LEMMA ScalarsComputed ==
  ASSUME NEW st \in Variables, NEW b, IsBlock(b), Readable(st, b)
  PROVE  /\ b.type = "scalar_add" => ScalarAdd(st, b) \in Int
         /\ b.type = "scalar_ramp" => ScalarRamp(st, b) \in Int
         /\ b.type = "scalar_triangle" => ScalarTriangle(st, b) \in Int
<1>1. ASSUME b.type = "scalar_add"
      PROVE  ScalarAdd(st, b) \in Int
  BY <1>1, ScalarInputs DEF ScalarAdd
<1>2. ASSUME b.type \in {"scalar_ramp", "scalar_triangle"}
      PROVE  Fraction(st, b) \in Int /\ Magnitude(st, b) \in Int /\ In(st, b, "min") \in Int
  <2>1. \A k \in {"f", "min", "max", "i"} : In(st, b, k) \in Int
    BY <1>2, ScalarInputs
  <2>2. Times(In(st, b, "i"), In(st, b, "f")) \in Int
    BY <2>1, Arithmetic
  <2>3. Fraction(st, b) \in Int
    BY <2>2, OneAssumption DEF OneAssumption, Fraction
  <2>4. QED
    BY <2>1, <2>3 DEF Magnitude
<1>3. ASSUME b.type = "scalar_ramp"
      PROVE  ScalarRamp(st, b) \in Int
  <2>1. Times(Fraction(st, b), Magnitude(st, b)) \in Int /\ In(st, b, "min") \in Int
    BY <1>2, <1>3, Arithmetic
  <2>2. QED
    BY <2>1 DEF ScalarRamp
<1>4. ASSUME b.type = "scalar_triangle"
      PROVE  ScalarTriangle(st, b) \in Int
  <2>1. Fraction(st, b) \in Int /\ Magnitude(st, b) \in Int /\ In(st, b, "min") \in Int
    BY <1>2, <1>4
  <2>2. ONE \div 2 \in Int
    BY OneAssumption DEF OneAssumption
  <2>3. Fraction(st, b) - ONE \div 2 \in Int
    BY <2>1, <2>2
  <2>4. Abs(Fraction(st, b) - ONE \div 2) \in Int
    BY <2>3, Arithmetic
  <2>5. 2 * Abs(Fraction(st, b) - ONE \div 2) \in Int
    BY <2>4
  <2>6. Times(2 * Abs(Fraction(st, b) - ONE \div 2), Magnitude(st, b)) \in Int
    BY <2>1, <2>5, Arithmetic
  <2>7. QED
    BY <2>1, <2>6 DEF ScalarTriangle
<1>5. QED
  BY <1>1, <1>3, <1>4

LEMMA ReadSomewhere ==
  ASSUME NEW st \in Variables, NEW kind \in Kinds, NEW i \in Nat, InRange(st, kind, i)
  PROVE  Get(st, kind, i) \in Values[kind]
BY VariablesOfKind

\* A sum of products of scalars is a scalar, however many there are.
LEMMA MaccComputed ==
  ASSUME NEW st \in Variables, NEW b, IsBlock(b), Readable(st, b), b.type = "scalar_macc"
  PROVE  ScalarMacc(st, b) \in Int
<1>1. Signatures[b.type].lists = {"m", "x"}
  BY DEF Signatures, Signature, ScalarMaccSig
<1>2. b.l.m \in Seq(Nat) /\ b.l.x \in Seq(Nat) /\ Len(b.l.m) = Len(b.l.x)
  BY <1>1, BlockFields
<1>3. PICK m \in Seq(Nat), x \in Seq(Nat) : m = b.l.m /\ x = b.l.x /\ Len(m) = Len(x)
  BY <1>2
<1>4. /\ Len(m) \in Nat /\ DOMAIN m = 1 .. Len(m) /\ \A k \in 1 .. Len(m) : m[k] \in Nat
      /\ DOMAIN x = 1 .. Len(m) /\ \A k \in 1 .. Len(m) : x[k] \in Nat
  BY <1>3, LenProperties, ElementOfSeq
<1>5. \A k \in 1 .. Len(m) : m[k] \in Range(m) \cup Range(x) /\ x[k] \in Range(m) \cup Range(x)
  BY <1>4 DEF Range
<1>6. \A i \in Range(m) \cup Range(x) : <<"scalar", i>> \in Reads(b)
  BY <1>3 DEF Reads
<1>7. \A i \in Range(m) \cup Range(x) : InRange(st, "scalar", i)
  BY <1>6 DEF Readable
<1>8. \A i \in Nat : InRange(st, "scalar", i) => Get(st, "scalar", i) \in Int
  BY ReadSomewhere DEF Kinds, Values
<1>9. \A k \in 1 .. Len(m) : Get(st, "scalar", m[k]) \in Int /\ Get(st, "scalar", x[k]) \in Int
  BY <1>4, <1>5, <1>7, <1>8
<1> DEFINE q == [k \in DOMAIN m |-> Times(Get(st, "scalar", m[k]), Get(st, "scalar", x[k]))]
<1>10. IntList(q, Len(m))
  <2>1. \A k \in 1 .. Len(m) : Times(Get(st, "scalar", m[k]), Get(st, "scalar", x[k])) \in Int
    BY <1>9, Arithmetic
  <2>2. QED
    BY <1>4, <2>1 DEF IntList
<1>11. ScalarMacc(st, b) = Sum(0, q)
  BY <1>3 DEF ScalarMacc, Sum
<1> HIDE DEF q
<1>12. SumBySteps(0, q, Len(m))
  BY <1>10, SumSteps
<1>13. PICK h \in [0 .. Len(m) -> Int] : Sum(0, q) = h[Len(m)]
  BY <1>12 DEF SumBySteps
<1>14. h[Len(m)] \in Int
  BY <1>4, Len(m) \in 0 .. Len(m)
<1>15. QED
  BY <1>11, <1>13, <1>14

\* One of the six sectors applies to every hue.
LEMMA HsvComputed ==
  ASSUME NEW st \in Variables, NEW b, IsBlock(b), Readable(st, b), b.type = "scalar_hsv2rgb"
  PROVE  ScalarHsv2Rgb(st, b) \in [Channels -> Int]
<1>1. In(st, b, "h") \in Int /\ In(st, b, "s") \in Int /\ In(st, b, "v") \in Int
  BY ScalarInputs
<1>2. \A u \in Int : Clamp(u, 0, ONE) \in Int
  BY OneAssumption DEF OneAssumption, Clamp
<1>3. PICK v \in Int : v = Clamp(In(st, b, "v"), 0, ONE)
  BY <1>1, <1>2
<1>4. PICK c \in Int : c = Times(v, Clamp(In(st, b, "s"), 0, ONE))
  BY <1>1, <1>2, Arithmetic
<1>5. PICK hp \in Int : hp = 6 * In(st, b, "h")
  BY <1>1
<1>6. PICK x \in Int : x = SecondChannel(c, hp)
  <2>1. ONE \in Nat \ {0} /\ 2 * ONE \in Nat \ {0}
    BY OneAssumption DEF OneAssumption
  <2>2. hp % (2 * ONE) \in Int
    BY <2>1
  <2>3. Abs((hp % (2 * ONE)) - ONE) \in Int
    BY <2>1, <2>2, Arithmetic
  <2>4. ONE - Abs((hp % (2 * ONE)) - ONE) \in Int
    BY <2>1, <2>3
  <2>5. SecondChannel(c, hp) \in Int
    BY <2>4, Arithmetic DEF SecondChannel
  <2>6. QED
    BY <2>5
<1>7. Floor(hp) % 6 \in 0 .. 5
  <2>1. Floor(hp) \in Int
    BY Arithmetic
  <2>2. QED
    BY <2>1
<1> DEFINE m == v - c
           Rgb(red, green, blue) == [r |-> red, g |-> green, b |-> blue]
<1>8. m \in Int
  OBVIOUS
<1>9. c + m \in Int /\ x + m \in Int
  BY <1>8
<1>10. ScalarHsv2Rgb(st, b) \in {Rgb(c + m, x + m, m), Rgb(x + m, c + m, m), Rgb(m, c + m, x + m),
                                 Rgb(m, x + m, c + m), Rgb(x + m, m, c + m), Rgb(c + m, m, x + m)}
  <2>1. CASE Floor(hp) % 6 = 0
    BY <1>3, <1>4, <1>5, <1>6, <2>1 DEF ScalarHsv2Rgb
  <2>2. CASE Floor(hp) % 6 = 1
    BY <1>3, <1>4, <1>5, <1>6, <2>2 DEF ScalarHsv2Rgb
  <2>3. CASE Floor(hp) % 6 = 2
    BY <1>3, <1>4, <1>5, <1>6, <2>3 DEF ScalarHsv2Rgb
  <2>4. CASE Floor(hp) % 6 = 3
    BY <1>3, <1>4, <1>5, <1>6, <2>4 DEF ScalarHsv2Rgb
  <2>5. CASE Floor(hp) % 6 = 4
    BY <1>3, <1>4, <1>5, <1>6, <2>5 DEF ScalarHsv2Rgb
  <2>6. CASE Floor(hp) % 6 = 5
    BY <1>3, <1>4, <1>5, <1>6, <2>6 DEF ScalarHsv2Rgb
  <2>7. QED
    BY <1>7, <2>1, <2>2, <2>3, <2>4, <2>5, <2>6
<1>11. \A red \in Int, green \in Int, blue \in Int : Rgb(red, green, blue) \in [Channels -> Int]
  BY DEF Channels
<1>12. PICK low \in Int, top \in Int, mid \in Int : low = m /\ top = c + m /\ mid = x + m
  BY <1>8, <1>9
<1> HIDE DEF m, Rgb
<1>13. /\ Rgb(top, mid, low) \in [Channels -> Int] /\ Rgb(mid, top, low) \in [Channels -> Int]
       /\ Rgb(low, top, mid) \in [Channels -> Int] /\ Rgb(low, mid, top) \in [Channels -> Int]
       /\ Rgb(mid, low, top) \in [Channels -> Int] /\ Rgb(top, low, mid) \in [Channels -> Int]
  BY <1>11
<1>14. QED
  BY <1>10, <1>12, <1>13

\* The gamma curve, to whole steps of the output.
LEMMA QuantisedComputed ==
  ASSUME NEW st \in Variables, NEW b, IsBlock(b), Readable(st, b), b.type \in {"gamma", "dither"}
  PROVE  /\ \A k \in Channels : Curve(st, b, k) \in Int
         /\ \A offset \in Int : Quantised(st, b, offset) \in [Channels -> Byte]
<1>1. Signatures[b.type].inputs["i"] = "rcolor" /\ "i" \in DOMAIN Signatures[b.type].inputs
      /\ Signatures[b.type].params = Curved
  BY DEF Signatures, Signature, GammaSig, DitherSig
<1>2. Get(st, "rcolor", b.i.i) \in [Channels -> Int]
  <2>1. "rcolor" \in Kinds
    BY DEF Kinds
  <2>2. Get(st, "rcolor", b.i["i"]) \in Values["rcolor"]
    BY <1>1, <2>1, InputsRead
  <2>3. QED
    BY <2>2 DEF Values
<1>3. b.p.gamma \in Int /\ \A k \in Channels : b.p[Coefficient[k]] \in Int
  <2>1. b.p \in [Curved -> Int]
    BY <1>1, BlockFields
  <2>2. "gamma" \in Curved /\ \A k \in Channels : Coefficient[k] \in Curved
    BY DEF Curved, Channels, Coefficient
  <2>3. QED
    BY <2>1, <2>2
<1>4. ASSUME NEW k \in Channels
      PROVE  Curve(st, b, k) \in Int
  <2>1. PICK v \in Int : v = Get(st, "rcolor", b.i.i)[k]
    BY <1>2
  <2>2. Pow(v, b.p.gamma) \in Int
    BY <1>3, PowIsInt
  <2>3. b.p[Coefficient[k]] \in Int
    BY <1>3
  <2>4. Times(b.p[Coefficient[k]], Pow(v, b.p.gamma)) \in Int
    BY <2>2, <2>3, Arithmetic
  <2>5. QED
    BY <2>1, <2>4 DEF Curve
<1>5. ASSUME NEW offset \in Int, NEW k \in Channels
      PROVE  Clamp(Floor(Curve(st, b, k) + offset), 0, 255) \in Byte
  <2>1. Curve(st, b, k) + offset \in Int
    BY <1>4
  <2>2. Floor(Curve(st, b, k) + offset) \in Int
    BY <2>1, Arithmetic
  <2>3. QED
    BY <2>2, Arithmetic
<1>6. QED
  BY <1>4, <1>5 DEF Quantised

LEMMA GammaComputed ==
  ASSUME NEW st \in Variables, NEW b, IsBlock(b), Readable(st, b), b.type = "gamma"
  PROVE  Gamma(st, b) \in [Channels -> Byte]
BY QuantisedComputed, 0 \in Int DEF Gamma

\* The phase is an index into dither_add for every place and frame.
LEMMA DitherComputed ==
  ASSUME NEW st \in Variables, NEW b, IsBlock(b), Readable(st, b), b.type = "dither"
  PROVE  Dither(st, b) \in [Channels -> Byte]
<1>1. Len(dither_add) = 8 /\ \A k \in 0 .. 7 : dither_add[k + 1] \in 0 .. 7
  BY DEF dither_add
<1>2. In(st, b, "x") \in Int /\ In(st, b, "y") \in Int
  BY ScalarInputs
<1>3. Get(st, "scalar", 0) \in Int
  <2>1. <<"scalar", 0>> \in Reads(b)
    BY DEF Reads
  <2>2. InRange(st, "scalar", 0)
    BY <2>1 DEF Readable
  <2>3. Get(st, "scalar", 0) \in Values["scalar"]
    BY <2>2, VariablesOfKind, "scalar" \in Kinds, 0 \in Nat DEF Kinds
  <2>4. QED
    BY <2>3 DEF Values
<1>4. DitherPhase(st, b) \in 0 .. 7
  <2>1. 5 * In(st, b, "y") \in Int
    BY <1>2
  <2>2. F32(5 * In(st, b, "y")) \in Int
    BY <2>1, Arithmetic
  <2>3. In(st, b, "x") + F32(5 * In(st, b, "y")) \in Int
    BY <1>2, <2>2
  <2>4. PICK place \in Int : place = F32(In(st, b, "x") + F32(5 * In(st, b, "y")))
    BY <2>3, Arithmetic
  <2>5. 3 * Get(st, "scalar", 0) \in Int
    BY <1>3
  <2>6. F32(3 * Get(st, "scalar", 0)) \in Int
    BY <2>5, Arithmetic
  <2>7. place + F32(3 * Get(st, "scalar", 0)) \in Int
    BY <2>6
  <2>8. F32(place + F32(3 * Get(st, "scalar", 0))) \in Int
    BY <2>7, Arithmetic
  <2>9. PICK sum \in Int : sum = Round(F32(place + F32(3 * Get(st, "scalar", 0))))
    BY <2>8, Arithmetic
  <2>10. DitherPhase(st, b) = (IF sum < 0 THEN 0 ELSE sum) % 8
    BY <1>1, <2>4, <2>9 DEF DitherPhase
  <2>11. QED
    BY <2>10
<1>5. PICK d \in 0 .. 7 : d = dither_add[DitherPhase(st, b) + 1]
  BY <1>1, <1>4
<1>6. (ONE * d) \div 8 \in Int
  <2>1. ONE * d \in Int
    BY OneAssumption DEF OneAssumption
  <2>2. QED
    BY <2>1
<1>7. QED
  BY <1>1, <1>5, <1>6, QuantisedComputed DEF Dither

LEMMA RatioIsInt ==
  ASSUME NEW a \in Int, NEW d \in Int
  PROVE  Ratio(a, d) \in Int
<1>1. ONE \in Int
  BY OneAssumption DEF OneAssumption
<1>2. a * ONE \in Int /\ (-a) * ONE \in Int /\ Infinity \in Int /\ -Infinity \in Int
  BY <1>1 DEF Infinity
<1>3. \A u \in Int : d > 0 => u \div d \in Int
  OBVIOUS
<1>4. \A u \in Int : d < 0 => u \div (-d) \in Int
  OBVIOUS
<1>5. CASE d > 0
  BY <1>2, <1>3, <1>5 DEF Ratio
<1>6. CASE d < 0
  BY <1>2, <1>4, <1>6 DEF Ratio
<1>7. CASE d = 0
  BY <1>2, <1>7 DEF Ratio
<1>8. QED
  BY <1>5, <1>6, <1>7

\* At most one segment is found.
LEMMA OneSegment ==
  ASSUME NEW st \in Variables, NEW b, IsBlock(b), Readable(st, b), b.type = "color_interp",
         NEW j \in Segments(st, b), NEW k \in Segments(st, b)
  PROVE  j = k /\ j \in Nat
<1>1. Signatures[b.type].lists = {"color", "point"}
  BY DEF Signatures, Signature, ColorInterpSig
<1>2. PICK p \in Seq(Nat) : p = b.l.point
  BY <1>1, BlockFields
<1>3. DOMAIN p = 1 .. Len(p) /\ Len(p) \in Nat /\ \A i \in 1 .. Len(p) : p[i] \in Nat
  BY LenProperties, ElementOfSeq
<1>4. In(st, b, "val") \in Int
  BY ScalarInputs
<1>5. \A i \in Nat : InRange(st, "scalar", i) => Get(st, "scalar", i) \in Int
  BY ReadSomewhere DEF Kinds, Values
<1>6. ASSUME NEW i \in Segments(st, b)
      PROVE  /\ i \in 1 .. Len(p) /\ Get(st, "scalar", p[i]) \in Int
             /\ In(st, b, "val") <= Get(st, "scalar", p[i])
             /\ \A n \in 1 .. i - 1 : In(st, b, "val") > Get(st, "scalar", p[n])
  <2>1. /\ i \in DOMAIN p /\ \A n \in 1 .. i : InRange(st, "scalar", p[n])
        /\ In(st, b, "val") <= Get(st, "scalar", p[i])
        /\ \A n \in 1 .. i - 1 : In(st, b, "val") > Get(st, "scalar", p[n])
    BY <1>2 DEF Segments
  <2>2. i \in 1 .. i /\ p[i] \in Nat
    BY <1>3, <2>1
  <2>3. QED
    BY <1>3, <1>5, <2>1, <2>2
<1>7. ASSUME NEW i \in Segments(st, b), NEW n \in Segments(st, b), i < n
      PROVE  FALSE
  <2>1. i \in 1 .. n - 1
    BY <1>3, <1>6, <1>7
  <2>2. In(st, b, "val") > Get(st, "scalar", p[i])
    BY <1>6, <2>1
  <2>3. In(st, b, "val") <= Get(st, "scalar", p[i]) /\ Get(st, "scalar", p[i]) \in Int
    BY <1>6
  <2>4. QED
    BY <1>4, <2>2, <2>3
<1>8. j \in Nat /\ k \in Nat
  BY <1>3, <1>6
<1>9. QED
  BY <1>7, <1>8

\* Where interpolation finds two colors, it makes a color.
LEMMA InterpComputed ==
  ASSUME NEW st \in Variables, NEW b, IsBlock(b), Readable(st, b), b.type = "color_interp",
         Interpolates(st, b)
  PROVE  ColorInterp(st, b) \in [Channels -> Byte]
<1>1. PICK j \in Segments(st, b) : j > 1 /\ InRange(st, "scalar", j - 1) /\ InRange(st, "color", j - 1)
  BY DEF Interpolates
<1>2. j \in Nat /\ (CHOOSE k \in Segments(st, b) : TRUE) = j
  BY OneSegment
<1>3. PICK i \in Nat : i = j - 2 /\ j - 1 = i + 1
  BY <1>1, <1>2
<1>4. /\ InRange(st, "scalar", i) /\ InRange(st, "scalar", i + 1)
      /\ InRange(st, "color", i) /\ InRange(st, "color", i + 1)
  <2>1. Len(st["scalar"]) \in Nat /\ Len(st["color"]) \in Nat
    BY VariablesOfKind DEF Kinds
  <2>2. QED
    BY <1>1, <1>3, <2>1 DEF InRange
<1>5. PICK from \in Int, to \in Int : from = Get(st, "scalar", i) /\ to = Get(st, "scalar", i + 1)
  BY <1>4, ReadSomewhere, i + 1 \in Nat DEF Kinds, Values
<1>6. Get(st, "color", i) \in [Channels -> Byte] /\ Get(st, "color", i + 1) \in [Channels -> Byte]
  BY <1>4, ReadSomewhere, i + 1 \in Nat DEF Kinds, Values
<1>7. PICK alpha \in Int : alpha = Ratio(In(st, b, "val") - from, to - from)
  <2>1. In(st, b, "val") - from \in Int /\ to - from \in Int
    BY ScalarInputs
  <2>2. QED
    BY <2>1, RatioIsInt
<1>8. ONE - alpha \in Int
  BY OneAssumption DEF OneAssumption
<1>9. ColorAdd(ColorScale(Get(st, "color", i), ONE - alpha), ColorScale(Get(st, "color", i + 1), alpha))
          \in [Channels -> Byte]
  BY <1>6, <1>7, <1>8, ColorArithmetic
<1>10. ColorInterp(st, b) \in
          {Black, ColorAdd(ColorScale(Get(st, "color", i), ONE - alpha), ColorScale(Get(st, "color", i + 1), alpha))}
  BY <1>2, <1>3, <1>5, <1>7 DEF ColorInterp
<1>11. QED
  BY <1>9, <1>10, ColorArithmetic

\* A lookup makes a color, whether it hits the image or not.
LEMMA LookupComputed ==
  ASSUME NEW st \in Variables, NEW b, IsBlock(b), Readable(st, b), b.type = "image_lookup"
  PROVE  ImageLookup(st, b) \in [Channels -> Byte]
<1>1. \A k \in {"width", "height", "x", "y", "mode"} : In(st, b, k) \in Int
  BY ScalarInputs
<1>2. PICK data \in Seq(Byte) : data = Get(st, "data", b.i.data)
  <2>1. Signatures[b.type].inputs["data"] = "data" /\ "data" \in DOMAIN Signatures[b.type].inputs
    BY DEF Signatures, Signature, ImageLookupSig
  <2>2. Get(st, "data", b.i["data"]) \in Values["data"]
    BY <2>1, InputsRead, "data" \in Kinds DEF Kinds
  <2>3. QED
    BY <2>2 DEF Values
<1>3. ASSUME NEW k \in {"width", "height"}
      PROVE  Extent(st, b, k) \in Nat \ {0}
  <2>1. \A u \in Int : Clamp(u, 1, 1024) \in Nat \ {0}
    BY DEF Clamp
  <2>2. Round(In(st, b, k)) \in Int
    BY <1>1, Arithmetic
  <2>3. QED
    BY <2>1, <2>2 DEF Extent
<1>4. ASSUME NEW at \in Int, NEW extent \in Nat \ {0}
      PROVE  Cell(st, b, at, extent) \in Int
  <2>1. extent * ONE \in Nat \ {0}
    <3>1. ONE \in Nat \ {0}
      BY OneAssumption DEF OneAssumption
    <3>2. QED
      BY <3>1
  <2>2. at % (extent * ONE) \in Int
    BY <2>1
  <2>3. Round(at % (extent * ONE)) \in Int /\ Round(at) \in Int
    BY <2>2, Arithmetic
  <2>4. QED
    BY <2>3 DEF Cell
<1>5. PICK width \in Nat \ {0} : width = Extent(st, b, "width")
  BY <1>3
<1>6. PICK i \in Int : i = Cell(st, b, In(st, b, "x"), width)
  BY <1>1, <1>4
<1>7. PICK j \in Int : j = Cell(st, b, (22 * In(st, b, "y")) \div 10, Extent(st, b, "height"))
  <2>1. (22 * In(st, b, "y")) \div 10 \in Int
    BY <1>1
  <2>2. QED
    BY <1>3, <1>4, <2>1
<1>8. PICK idx \in Int : idx = 3 * (i + j * width)
  <2>1. j * width \in Int
    OBVIOUS
  <2>2. QED
    BY <2>1
<1>9. ASSUME i >= 0, j >= 0
      PROVE  idx >= 0
  <2>1. j * width >= 0 /\ j * width \in Int
    BY <1>9
  <2>2. QED
    BY <1>8, <1>9, <2>1
<1>10. ImageLookup(st, b) = IF i >= 0 /\ j >= 0 /\ idx + 2 < Len(data)
                            THEN [r |-> data[idx + 1], g |-> data[idx + 2], b |-> data[idx + 3]]
                            ELSE Black
  BY <1>2, <1>5, <1>6, <1>7, <1>8 DEF ImageLookup
<1>11. CASE i >= 0 /\ j >= 0 /\ idx + 2 < Len(data)
  <2>1. Len(data) \in Nat /\ \A n \in 1 .. Len(data) : data[n] \in Byte
    BY LenProperties, ElementOfSeq
  <2>2. idx + 1 \in 1 .. Len(data) /\ idx + 2 \in 1 .. Len(data) /\ idx + 3 \in 1 .. Len(data)
    BY <1>9, <1>11, <2>1
  <2>3. PICK red \in Byte, green \in Byte, blue \in Byte :
            red = data[idx + 1] /\ green = data[idx + 2] /\ blue = data[idx + 3]
    BY <2>1, <2>2
  <2>4. ImageLookup(st, b) = [r |-> red, g |-> green, b |-> blue]
    BY <1>10, <1>11, <2>3
  <2>5. QED
    BY <2>4 DEF Channels
<1>12. CASE ~(i >= 0 /\ j >= 0 /\ idx + 2 < Len(data))
  BY <1>10, <1>12, ColorArithmetic
<1>13. QED
  BY <1>11, <1>12

\* What a block computes is of the kind of its output.
LEMMA ComputedTyped ==
  ASSUME NEW st \in Variables, NEW b, IsBlock(b), Computes(st, b)
  PROVE  Computed(st, b) \in Values[Signatures[b.type].output]
<1>1. b.type \in Types /\ Readable(st, b)
  BY BlockFields DEF Computes
<1>2. CASE b.type = "color_interp"
  <2>1. ColorInterp(st, b) \in [Channels -> Byte]
    BY <1>1, <1>2, InterpComputed DEF Computes
  <2>2. Signatures[b.type].output = "color"
    BY <1>2 DEF Signatures, Signature, ColorInterpSig
  <2>3. QED
    BY <1>2, <2>1, <2>2 DEF Computed, Values
<1>3. CASE b.type = "dither"
  <2>1. Dither(st, b) \in [Channels -> Byte]
    BY <1>1, <1>3, DitherComputed
  <2>2. Signatures[b.type].output = "color"
    BY <1>3 DEF Signatures, Signature, DitherSig
  <2>3. QED
    BY <1>3, <2>1, <2>2 DEF Computed, Values
<1>4. CASE b.type = "gamma"
  <2>1. Gamma(st, b) \in [Channels -> Byte]
    BY <1>1, <1>4, GammaComputed
  <2>2. Signatures[b.type].output = "color"
    BY <1>4 DEF Signatures, Signature, GammaSig
  <2>3. QED
    BY <1>4, <2>1, <2>2 DEF Computed, Values
<1>5. CASE b.type = "image_lookup"
  <2>1. ImageLookup(st, b) \in [Channels -> Byte]
    BY <1>1, <1>5, LookupComputed
  <2>2. Signatures[b.type].output = "color"
    BY <1>5 DEF Signatures, Signature, ImageLookupSig
  <2>3. QED
    BY <1>5, <2>1, <2>2 DEF Computed, Values
<1>6. CASE b.type = "scalar_add"
  <2>1. ScalarAdd(st, b) \in Int
    BY <1>1, <1>6, ScalarsComputed
  <2>2. Signatures[b.type].output = "scalar"
    BY <1>6 DEF Signatures, Signature, ScalarAddSig
  <2>3. QED
    BY <1>6, <2>1, <2>2 DEF Computed, Values
<1>7. CASE b.type = "scalar_hsv2rgb"
  <2>1. ScalarHsv2Rgb(st, b) \in [Channels -> Int]
    BY <1>1, <1>7, HsvComputed
  <2>2. Signatures[b.type].output = "rcolor"
    BY <1>7 DEF Signatures, Signature, ScalarHsv2RgbSig
  <2>3. QED
    BY <1>7, <2>1, <2>2 DEF Computed, Values
<1>8. CASE b.type = "scalar_macc"
  <2>1. ScalarMacc(st, b) \in Int
    BY <1>1, <1>8, MaccComputed
  <2>2. Signatures[b.type].output = "scalar"
    BY <1>8 DEF Signatures, Signature, ScalarMaccSig
  <2>3. QED
    BY <1>8, <2>1, <2>2 DEF Computed, Values
<1>9. CASE b.type = "scalar_ramp"
  <2>1. ScalarRamp(st, b) \in Int
    BY <1>1, <1>9, ScalarsComputed
  <2>2. Signatures[b.type].output = "scalar"
    BY <1>9 DEF Signatures, Signature, ScalarRampSig
  <2>3. QED
    BY <1>9, <2>1, <2>2 DEF Computed, Values
<1>10. CASE b.type = "scalar_triangle"
  <2>1. ScalarTriangle(st, b) \in Int
    BY <1>1, <1>10, ScalarsComputed
  <2>2. Signatures[b.type].output = "scalar"
    BY <1>10 DEF Signatures, Signature, ScalarTriangleSig
  <2>3. QED
    BY <1>10, <2>1, <2>2 DEF Computed, Values
<1>11. QED
  BY <1>1, <1>2, <1>3, <1>4, <1>5, <1>6, <1>7, <1>8, <1>9, <1>10 DEF Types, Signatures

\* One variable more or less changes nothing of the types, nor does a panic.
LEMMA OneVariableSet ==
  ASSUME NEW st \in Variables, NEW kind \in Kinds, NEW n \in Nat, NEW v \in Values[kind]
  PROVE  [st EXCEPT ![kind][n] = v] \in Variables
<1> DEFINE list == [st[kind] EXCEPT ![n] = v]
<1>1. list \in Seq(Values[kind])
  <2>1. PICK s \in Seq(Values[kind]) : s = st[kind]
    BY VariablesOfKind
  <2>2. [s EXCEPT ![n] = v] \in Seq(Values[kind])
    BY ExceptSeq
  <2>3. QED
    BY <2>1, <2>2
<1>2. [st EXCEPT ![kind][n] = v] = [st EXCEPT ![kind] = list]
  OBVIOUS
<1>3. DOMAIN st = Kinds \cup {"panicked"}
  BY DEF Variables, Kinds
<1> HIDE DEF list
<1>4. [st EXCEPT ![kind] = list] \in Variables
  <2>1. CASE kind = "scalar"
    BY <1>1, <2>1 DEF Variables, Values
  <2>2. CASE kind = "position"
    BY <1>1, <2>2 DEF Variables, Values
  <2>3. CASE kind = "color"
    BY <1>1, <2>3 DEF Variables, Values
  <2>4. CASE kind = "rcolor"
    BY <1>1, <2>4 DEF Variables, Values
  <2>5. CASE kind = "data"
    BY <1>1, <2>5 DEF Variables, Values
  <2>6. QED
    BY <2>1, <2>2, <2>3, <2>4, <2>5 DEF Kinds
<1>5. QED
  BY <1>2, <1>4

LEMMA PanickedTyped ==
  ASSUME NEW st \in Variables
  PROVE  Panicked(st) \in Variables /\ Panicked(st).panicked
BY DEF Panicked, Variables

LEMMA SetVariableTyped ==
  ASSUME NEW st \in Variables, NEW kind \in Kinds, NEW i \in Nat, NEW v \in Values[kind]
  PROVE  SetVariable(st, kind, i, v) \in Variables
<1>1. [st EXCEPT ![kind][i + 1] = v] \in Variables
  BY OneVariableSet, i + 1 \in Nat
<1>2. CASE kind = "scalar"
  <2>1. [st EXCEPT !.scalar[i + 1] = v] = [st EXCEPT ![kind][i + 1] = v]
    BY <1>2
  <2>2. QED
    BY <1>1, <1>2, <2>1 DEF SetVariable, set_scalar
<1>3. CASE kind # "scalar"
  BY <1>1, <1>3, PanickedTyped DEF SetVariable
<1>4. QED
  BY <1>2, <1>3

\* The setters and execute keep the types.
LEMMA set_scalarTyped ==
  ASSUME NEW st \in Variables, NEW i \in Nat, NEW v \in Int
  PROVE  set_scalar(st, i, v) \in Variables
<1>1. set_scalar(st, i, v) = SetVariable(st, "scalar", i, v)
  BY DEF SetVariable
<1>2. "scalar" \in Kinds /\ v \in Values["scalar"]
  BY DEF Kinds, Values
<1>3. QED
  BY <1>1, <1>2, SetVariableTyped

LEMMA executeTyped ==
  ASSUME NEW st \in Variables, NEW b, IsBlock(b)
  PROVE  execute(st, b) \in Variables
<1>1. CASE st.panicked \/ ~Computes(st, b)
  BY <1>1, PanickedTyped DEF execute
<1>2. CASE ~st.panicked /\ Computes(st, b)
  <2>1. Signatures[b.type].output \in Kinds /\ b.o \in Nat
    BY BlockFields, OutputKinds DEF Kinds
  <2>2. Computed(st, b) \in Values[Signatures[b.type].output]
    BY <1>2, ComputedTyped
  <2>3. execute(st, b) = SetVariable(st, Signatures[b.type].output, b.o, Computed(st, b))
    BY <1>2 DEF execute
  <2>4. QED
    BY <2>1, <2>2, <2>3, SetVariableTyped
<1>3. QED
  BY <1>1, <1>2

-----------------------------------------------------------------------------
(* The blocks of a pixel, and the pixels of a frame *)

\* The first n elements are all there is, and are blocks.
BlockList(q, n) == n \in Nat /\ DOMAIN q = 1 .. n /\ \A k \in 1 .. n : IsBlock(q[k])

\* The blocks of one pixel, one after the other.
Executed(base, q) == FoldLeft(execute, base, q)

\* Executing the blocks goes through a chain of variables.
ExecutedBySteps(base, q, n) ==
    \E h \in [0 .. n -> Variables] :
        /\ h[0] = base
        /\ \A k \in 1 .. n : h[k] = execute(h[k - 1], q[k])
        /\ Executed(base, q) = h[n]

LEMMA ExecutedSteps ==
  ASSUME NEW base \in Variables, NEW q, NEW n, BlockList(q, n)
  PROVE  ExecutedBySteps(base, q, n)
<1> /\ n \in Nat /\ DOMAIN q = 1 .. n /\ \A w \in Range(q) : IsBlock(w)
    /\ \A k \in 1 .. n : q[k] \in Range(q)
  BY DEF BlockList, Range
<1>1. PICK F \in [Variables -> [Range(q) -> Variables]] : \A v \in Variables, w \in Range(q) : F[v][w] = execute(v, w)
  <2> DEFINE F == [v \in Variables |-> [w \in Range(q) |-> execute(v, w)]]
  <2>1. \A v \in Variables, w \in Range(q) : execute(v, w) \in Variables
    BY executeTyped
  <2>2. F \in [Variables -> [Range(q) -> Variables]] /\ \A v \in Variables, w \in Range(q) : F[v][w] = execute(v, w)
    BY <2>1
  <2> HIDE DEF F
  <2>3. QED
    BY <2>2
<1>2. FoldOf(F, Variables, Range(q), base, q, n)
  BY <1>1 DEF FoldOf
<1>3. PICK it \in [SUBSET (1 .. n) -> Variables] : \A s \in SUBSET (1 .. n) :
             it[s] = IF s = {} THEN base ELSE F[it[s \ {Max(s)}]][q[Max(s)]]
  <2>1. Iterations(F, Variables, base, q, n) # {}
    BY <1>2, FoldExists
  <2>2. QED
    BY <2>1 DEF Iterations
<1>4. it = [s \in SUBSET (1 .. n) |->
               IF s = {} THEN base ELSE execute(it[s \ {Max(s)}], q[Max(s)])]
  <2>1. \A s \in SUBSET (1 .. n) : s # {} => it[s \ {Max(s)}] \in Variables /\ q[Max(s)] \in Range(q)
    BY <1>3, Largest
  <2>2. \A s \in SUBSET (1 .. n) : s # {} =>
            F[it[s \ {Max(s)}]][q[Max(s)]] = execute(it[s \ {Max(s)}], q[Max(s)])
    BY <1>1, <2>1
  <2>3. QED
    BY <1>3, <2>2
<1>5. PICK g : /\ g = [s \in SUBSET (1 .. n) |->
                          IF s = {} THEN base ELSE execute(g[s \ {Max(s)}], q[Max(s)])]
               /\ Executed(base, q) = g[1 .. n]
  BY <1>4, Zenon DEF Executed, FoldLeft, MapThenFoldSet
<1>6. g[1 .. 0] = base
  BY <1>5
<1>7. \A k \in 1 .. n : g[1 .. k] = execute(g[1 .. k - 1], q[k])
  <2>1. ASSUME NEW k \in 1 .. n
        PROVE  g[1 .. k] = execute(g[1 .. k - 1], q[k])
    <3>1. PICK s \in SUBSET (1 .. n) : s = 1 .. k /\ s # {} /\ Max(s) = k /\ s \ {k} = 1 .. k - 1
      BY UpToParts
    <3>2. g[s] = execute(g[s \ {Max(s)}], q[Max(s)])
      BY <1>5, <3>1, Zenon
    <3>3. QED
      BY <3>1, <3>2
  <2>2. QED
    BY <2>1
<1>8. Climbs(F, Variables, base, q, n, g)
  <2>1. \A k \in 1 .. n : g[1 .. k - 1] \in Variables => g[1 .. k] = F[g[1 .. k - 1]][q[k]]
    BY <1>1, <1>7
  <2>2. QED
    BY <1>6, <2>1 DEF Climbs
<1>9. PICK h \in Chains(F, Variables, base, q, n) : h[n] = g[1 .. n]
  <2>1. EndsIn(F, Variables, base, q, n, g[1 .. n])
    BY <1>2, <1>8, FoldChain
  <2>2. QED
    BY <2>1 DEF EndsIn
<1>10. /\ h \in [0 .. n -> Variables] /\ h[0] = base
       /\ \A k \in 1 .. n : h[k] = F[h[k - 1]][q[k]]
  BY <1>9 DEF Chains
<1>11. \A k \in 1 .. n : h[k] = execute(h[k - 1], q[k])
  <2>1. \A k \in 1 .. n : k - 1 \in 0 .. n
    OBVIOUS
  <2>2. QED
    BY <1>1, <1>10, <2>1
<1>12. QED
  BY <1>5, <1>9, <1>10, <1>11 DEF ExecutedBySteps

LEMMA ExecutedTyped ==
  ASSUME NEW st \in Variables, NEW q, NEW n, BlockList(q, n)
  PROVE  Executed(st, q) \in Variables
<1>1. ExecutedBySteps(st, q, n)
  BY ExecutedSteps
<1>2. n \in Nat /\ n \in 0 .. n
  BY DEF BlockList
<1>3. PICK h \in [0 .. n -> Variables] : Executed(st, q) = h[n]
  BY <1>1 DEF ExecutedBySteps
<1>4. QED
  BY <1>2, <1>3

\* The contents of the frame buffer, and the places of the picture.
Frames == [0 .. FRAME_SIZE_BYTES - 1 -> Byte]
Places == Columns \X Rows

\* The sizes of the picture are those the drivers were built for.
LEMMA Layout ==
  /\ LED_COUNT \in Nat \ {0} /\ STRING_COUNT \in Nat \ {0}
  /\ PIXEL_COUNT \in Nat \ {0} /\ FRAME_SIZE_BYTES \in Nat
<1>1. LED_COUNT \in Nat \ {0} /\ STRING_COUNT \in Nat \ {0}
  BY LayoutAssumption DEF LayoutAssumption
<1>2. LED_COUNT * STRING_COUNT \in Nat \ {0}
  BY <1>1
<1>3. PICK n \in Nat \ {0} : n = PIXEL_COUNT
  BY <1>2 DEF PIXEL_COUNT
<1>4. QED
  BY <1>1, <1>3 DEF FRAME_SIZE_BYTES, BYTES_PER_LED

\* Drawing visits each place, column by column.
LEMMA VisitedPlaces ==
  /\ DOMAIN DrawingOrder = 1 .. PIXEL_COUNT
  /\ \A k \in 1 .. PIXEL_COUNT : /\ DrawingOrder[k] = Pixel(k - 1)
                                 /\ DrawingOrder[k] \in Places
                                 /\ DrawingOrder[k][1] \in Columns /\ DrawingOrder[k][2] \in Rows
<1>1. DOMAIN DrawingOrder = 1 .. PIXEL_COUNT /\ \A k \in 1 .. PIXEL_COUNT : DrawingOrder[k] = Pixel(k - 1)
  BY DEF DrawingOrder
<1>2. ASSUME NEW k \in 1 .. PIXEL_COUNT
      PROVE  Pixel(k - 1) \in Places /\ Pixel(k - 1)[1] \in Columns /\ Pixel(k - 1)[2] \in Rows
  <2>1. STRING_COUNT \in Nat \ {0} /\ LED_COUNT \in Nat \ {0} /\ k - 1 \in Nat /\ k - 1 < LED_COUNT * STRING_COUNT
    BY Layout DEF PIXEL_COUNT
  <2>2. PICK x \in Nat, y \in 0 .. STRING_COUNT - 1 :
            x = (k - 1) \div STRING_COUNT /\ y = (k - 1) % STRING_COUNT /\ k - 1 = x * STRING_COUNT + y
    BY <2>1
  <2>3. x < LED_COUNT
    <3>1. SUFFICES ASSUME x >= LED_COUNT
                   PROVE  FALSE
      BY <2>1
    <3>2. x * STRING_COUNT >= LED_COUNT * STRING_COUNT /\ x * STRING_COUNT \in Nat /\ LED_COUNT * STRING_COUNT \in Nat
      BY <2>1, <3>1
    <3>3. QED
      BY <2>1, <2>2, <3>2
  <2>4. Pixel(k - 1) = <<x, y>> /\ x \in Columns /\ y \in Rows
    BY <2>1, <2>2, <2>3 DEF Pixel, Columns, Rows
  <2>5. QED
    BY <2>4 DEF Places
<1>3. QED
  BY <1>1, <1>2

\* Coordinates, blocks, the color read and the bytes put keep the types.
LEMMA PlacedTyped ==
  ASSUME NEW st \in Variables, NEW num \in Int, NEW x \in Int, NEW y \in Int
  PROVE  Placed(st, num, x, y) \in Variables
<1>1. ONE \in Int
  BY OneAssumption DEF OneAssumption
<1>2. num * ONE \in Int /\ x * ONE \in Int /\ y * ONE \in Int
  BY <1>1
<1>3. PICK a \in Int, b \in Int, c \in Int : a = F32(num * ONE) /\ b = x * ONE /\ c = y * ONE
  BY <1>2, Arithmetic
<1>4. PICK framed \in Variables : framed = IF x = 0 /\ y = 0 THEN set_scalar(st, 0, a) ELSE st
  BY set_scalarTyped
<1>5. PICK column \in Variables : column = IF y = 0 THEN set_scalar(framed, 1, b) ELSE framed
  BY set_scalarTyped
<1>6. set_scalar(column, 2, c) \in Variables
  BY set_scalarTyped
<1>7. Placed(st, num, x, y) = set_scalar(column, 2, c)
  BY <1>3, <1>4, <1>5 DEF Placed
<1>8. QED
  BY <1>6, <1>7

\* What is known of the list of a renderer's blocks.
LEMMA RendererParts ==
  ASSUME NEW x, IsRenderer(x)
  PROVE  /\ x.st \in Variables /\ BlockList(x.blocks, Len(x.blocks))
         /\ x = [st |-> x.st, blocks |-> x.blocks]
         /\ \A st \in Variables : IsRenderer([st |-> st, blocks |-> x.blocks])
<1>1. /\ x \in [st : Variables, blocks : Seq(Range(x.blocks))]
      /\ \A b \in Range(x.blocks) : IsBlock(b)
  BY DEF IsRenderer
<1>2. PICK q \in Seq(Range(x.blocks)) : q = x.blocks
  BY <1>1
<1>3. Len(q) \in Nat /\ DOMAIN q = 1 .. Len(q) /\ \A k \in 1 .. Len(q) : q[k] \in Range(x.blocks)
  BY LenProperties, ElementOfSeq
<1>4. BlockList(q, Len(q))
  BY <1>1, <1>3 DEF BlockList
<1>5. ASSUME NEW st \in Variables
      PROVE  IsRenderer([st |-> st, blocks |-> x.blocks])
  BY <1>1 DEF IsRenderer
<1>6. QED
  BY <1>1, <1>2, <1>4, <1>5

LEMMA PixelStateTyped ==
  ASSUME NEW x, IsRenderer(x), NEW num \in Int, NEW col \in Int, NEW row \in Int
  PROVE  /\ PixelState(x, num, col, row) \in Variables
         /\ ~PixelState(x, num, col, row).panicked =>
               /\ PixelState(x, num, col, row) = Executed(Placed(x.st, num, col, row), x.blocks)
               /\ Get(PixelState(x, num, col, row), "color", 0) \in [Channels -> Byte]
<1>1. x.st \in Variables /\ BlockList(x.blocks, Len(x.blocks))
  BY RendererParts
<1>2. Placed(x.st, num, col, row) \in Variables
  BY <1>1, PlacedTyped
<1>3. PICK st \in Variables : st = Executed(Placed(x.st, num, col, row), x.blocks)
  BY <1>1, <1>2, ExecutedTyped
<1>4. PixelState(x, num, col, row) = IF InRange(st, "color", 0) THEN st ELSE Panicked(st)
  BY <1>3 DEF PixelState, Executed
<1>5. InRange(st, "color", 0) => Get(st, "color", 0) \in [Channels -> Byte]
  BY VariablesOfKind, "color" \in Kinds, 0 \in Nat DEF Kinds, Values
<1>6. QED
  BY <1>3, <1>4, <1>5, PanickedTyped

LEMMA PutPixelTyped ==
  ASSUME NEW buffer \in Frames, NEW x, NEW y, NEW c \in [Channels -> Byte]
  PROVE  PutPixel(buffer, x, y, c) \in Frames
<1>1. c.r \in Byte /\ c.g \in Byte /\ c.b \in Byte
  BY DEF Channels
<1>2. QED
  BY <1>1 DEF PutPixel, Frames

\* What drawing a frame carries from one pixel to the next.
Drawings == [st : Variables, fb : Frames]

LEMMA DrawPixelTyped ==
  ASSUME NEW x, IsRenderer(x), NEW buffer \in Frames, NEW num \in Int, NEW col \in Int, NEW row \in Int
  PROVE  DrawPixel(x, buffer, num, col, row) \in Drawings
<1>1. PICK st \in Variables : st = PixelState(x, num, col, row)
  BY PixelStateTyped
<1>2. ~st.panicked => Get(st, "color", 0) \in [Channels -> Byte]
  BY <1>1, PixelStateTyped
<1>3. ~st.panicked => PutPixel(buffer, col, row, Get(st, "color", 0)) \in Frames
  BY <1>2, PutPixelTyped
<1>4. DrawPixel(x, buffer, num, col, row)
        = [st |-> st, fb |-> IF st.panicked THEN buffer ELSE PutPixel(buffer, col, row, Get(st, "color", 0))]
  BY <1>1 DEF DrawPixel
<1>5. QED
  BY <1>3, <1>4 DEF Drawings

LEMMA DrawNthTyped ==
  ASSUME NEW x, IsRenderer(x), NEW num \in Int, NEW drawn \in Drawings, NEW at \in Places
  PROVE  DrawNth(x, num, drawn, at) \in Drawings
<1>1. drawn.st \in Variables /\ drawn.fb \in Frames
  BY DEF Drawings
<1>2. at[1] \in Int /\ at[2] \in Int
  BY Layout DEF Places, Columns, Rows
<1>3. PICK z : z = [x EXCEPT !.st = drawn.st]
  OBVIOUS
<1>4. IsRenderer(z)
  <2>1. z = [st |-> drawn.st, blocks |-> x.blocks]
    BY <1>3, RendererParts
  <2>2. QED
    BY <1>1, <2>1, RendererParts
<1>5. DrawPixel(z, drawn.fb, num, at[1], at[2]) \in Drawings
  BY <1>1, <1>2, <1>4, DrawPixelTyped
<1>6. QED
  BY <1>3, <1>5 DEF DrawNth

\* The pixels of one frame, one after the other.
FrameBySteps(x, buffer, num) ==
    \E h \in [0 .. PIXEL_COUNT -> Drawings] :
        /\ h[0] = [st |-> x.st, fb |-> buffer]
        /\ \A k \in 1 .. PIXEL_COUNT : h[k] = DrawNth(x, num, h[k - 1], DrawingOrder[k])
        /\ DrawFrame(x, buffer, num) = h[PIXEL_COUNT]

LEMMA FrameSteps ==
  ASSUME NEW x, IsRenderer(x), NEW buffer \in Frames, NEW num \in Int
  PROVE  FrameBySteps(x, buffer, num)
<1> PIXEL_COUNT \in Nat /\ \A k \in 1 .. PIXEL_COUNT : DrawingOrder[k] \in Places
  BY Layout, VisitedPlaces
<1> DOMAIN DrawingOrder = 1 .. PIXEL_COUNT
  BY VisitedPlaces
<1> [st |-> x.st, fb |-> buffer] \in Drawings
  BY RendererParts DEF Drawings
<1>1. PICK F \in [Drawings -> [Places -> Drawings]] : \A v \in Drawings, w \in Places : F[v][w] = DrawNth(x, num, v, w)
  <2> DEFINE F == [v \in Drawings |-> [w \in Places |-> DrawNth(x, num, v, w)]]
  <2>1. \A v \in Drawings, w \in Places : DrawNth(x, num, v, w) \in Drawings
    BY DrawNthTyped
  <2>2. F \in [Drawings -> [Places -> Drawings]] /\ \A v \in Drawings, w \in Places : F[v][w] = DrawNth(x, num, v, w)
    BY <2>1
  <2> HIDE DEF F
  <2>3. QED
    BY <2>2
<1>2. FoldOf(F, Drawings, Places, [st |-> x.st, fb |-> buffer], DrawingOrder, PIXEL_COUNT)
  BY <1>1 DEF FoldOf
<1>3. PICK it \in [SUBSET (1 .. PIXEL_COUNT) -> Drawings] : \A s \in SUBSET (1 .. PIXEL_COUNT) :
             it[s] = IF s = {} THEN [st |-> x.st, fb |-> buffer] ELSE F[it[s \ {Max(s)}]][DrawingOrder[Max(s)]]
  <2>1. Iterations(F, Drawings, [st |-> x.st, fb |-> buffer], DrawingOrder, PIXEL_COUNT) # {}
    BY <1>2, FoldExists
  <2>2. QED
    BY <2>1 DEF Iterations
<1>4. it = [s \in SUBSET (1 .. PIXEL_COUNT) |->
               IF s = {} THEN [st |-> x.st, fb |-> buffer] ELSE DrawNth(x, num, it[s \ {Max(s)}], DrawingOrder[Max(s)])]
  <2>1. \A s \in SUBSET (1 .. PIXEL_COUNT) : s # {} => it[s \ {Max(s)}] \in Drawings /\ DrawingOrder[Max(s)] \in Places
    BY <1>3, Largest
  <2>2. \A s \in SUBSET (1 .. PIXEL_COUNT) : s # {} =>
            F[it[s \ {Max(s)}]][DrawingOrder[Max(s)]] = DrawNth(x, num, it[s \ {Max(s)}], DrawingOrder[Max(s)])
    BY <1>1, <2>1
  <2>3. QED
    BY <1>3, <2>2
<1>5. PICK g : /\ g = [s \in SUBSET (1 .. PIXEL_COUNT) |->
                          IF s = {} THEN [st |-> x.st, fb |-> buffer] ELSE DrawNth(x, num, g[s \ {Max(s)}], DrawingOrder[Max(s)])]
               /\ DrawFrame(x, buffer, num) = g[1 .. PIXEL_COUNT]
  BY <1>4, Zenon DEF DrawFrame, FoldLeft, MapThenFoldSet
<1>6. g[1 .. 0] = [st |-> x.st, fb |-> buffer]
  BY <1>5
<1>7. \A k \in 1 .. PIXEL_COUNT : g[1 .. k] = DrawNth(x, num, g[1 .. k - 1], DrawingOrder[k])
  <2>1. ASSUME NEW k \in 1 .. PIXEL_COUNT
        PROVE  g[1 .. k] = DrawNth(x, num, g[1 .. k - 1], DrawingOrder[k])
    <3>1. PICK s \in SUBSET (1 .. PIXEL_COUNT) : s = 1 .. k /\ s # {} /\ Max(s) = k /\ s \ {k} = 1 .. k - 1
      BY UpToParts
    <3>2. g[s] = DrawNth(x, num, g[s \ {Max(s)}], DrawingOrder[Max(s)])
      BY <1>5, <3>1, Zenon
    <3>3. QED
      BY <3>1, <3>2
  <2>2. QED
    BY <2>1
<1>8. Climbs(F, Drawings, [st |-> x.st, fb |-> buffer], DrawingOrder, PIXEL_COUNT, g)
  <2>1. \A k \in 1 .. PIXEL_COUNT : g[1 .. k - 1] \in Drawings => g[1 .. k] = F[g[1 .. k - 1]][DrawingOrder[k]]
    BY <1>1, <1>7
  <2>2. QED
    BY <1>6, <2>1 DEF Climbs
<1>9. PICK h \in Chains(F, Drawings, [st |-> x.st, fb |-> buffer], DrawingOrder, PIXEL_COUNT) : h[PIXEL_COUNT] = g[1 .. PIXEL_COUNT]
  <2>1. EndsIn(F, Drawings, [st |-> x.st, fb |-> buffer], DrawingOrder, PIXEL_COUNT, g[1 .. PIXEL_COUNT])
    BY <1>2, <1>8, FoldChain
  <2>2. QED
    BY <2>1 DEF EndsIn
<1>10. /\ h \in [0 .. PIXEL_COUNT -> Drawings] /\ h[0] = [st |-> x.st, fb |-> buffer]
       /\ \A k \in 1 .. PIXEL_COUNT : h[k] = F[h[k - 1]][DrawingOrder[k]]
  BY <1>9 DEF Chains
<1>11. \A k \in 1 .. PIXEL_COUNT : h[k] = DrawNth(x, num, h[k - 1], DrawingOrder[k])
  <2>1. \A k \in 1 .. PIXEL_COUNT : k - 1 \in 0 .. PIXEL_COUNT
    OBVIOUS
  <2>2. QED
    BY <1>1, <1>10, <2>1
<1>12. QED
  BY <1>5, <1>9, <1>10, <1>11 DEF FrameBySteps

-----------------------------------------------------------------------------
(* What is made of JSON: variables, blocks, commands *)

\* A value and its members, which is as deep as a variable goes.
Shallow(v) == JsonShape(v) /\ (Is(v, "obj") => \A k \in DOMAIN v.obj : JsonShape(v.obj[k]))

\* The members of an array, and of an object.
LEMMA MembersOf ==
  ASSUME NEW v
  PROVE  /\ Is(v, "arr") => \A m \in Range(v.arr) : m \in Members(v)
         /\ Is(v, "obj") => \A k \in DOMAIN v.obj : v.obj[k] \in Members(v)
BY Zenon DEF Members

\* What a value of each depth has at its levels.
LEMMA JsonLevels ==
  ASSUME NEW v
  PROVE  /\ Json1(v) => JsonShape(v)
         /\ Json2(v) => /\ JsonShape(v)
                        /\ Is(v, "arr") => \A m \in Range(v.arr) : Json1(m)
                        /\ Is(v, "obj") => \A k \in DOMAIN v.obj : Json1(v.obj[k])
         /\ Json3(v) => /\ JsonShape(v)
                        /\ Is(v, "arr") => \A m \in Range(v.arr) : Json2(m)
                        /\ Is(v, "obj") => \A k \in DOMAIN v.obj : Json2(v.obj[k])
         /\ Json4(v) => /\ JsonShape(v)
                        /\ Is(v, "arr") => \A m \in Range(v.arr) : Json3(m)
                        /\ Is(v, "obj") => \A k \in DOMAIN v.obj : Json3(v.obj[k])
         /\ Json5(v) => /\ JsonShape(v)
                        /\ Is(v, "arr") => \A m \in Range(v.arr) : Json4(m)
                        /\ Is(v, "obj") => \A k \in DOMAIN v.obj : Json4(v.obj[k])
         /\ Json(v) => /\ JsonShape(v)
                       /\ Is(v, "arr") => \A m \in Range(v.arr) : Json5(m)
                       /\ Is(v, "obj") => \A k \in DOMAIN v.obj : Json5(v.obj[k])
<1>1. Json1(v) => JsonShape(v)
  BY Zenon DEF Json1
<1>2. Json2(v) => /\ JsonShape(v)
                  /\ Is(v, "arr") => \A m \in Range(v.arr) : Json1(m)
                  /\ Is(v, "obj") => \A k \in DOMAIN v.obj : Json1(v.obj[k])
  BY MembersOf, Zenon DEF Json2
<1>3. Json3(v) => /\ JsonShape(v)
                  /\ Is(v, "arr") => \A m \in Range(v.arr) : Json2(m)
                  /\ Is(v, "obj") => \A k \in DOMAIN v.obj : Json2(v.obj[k])
  BY MembersOf, Zenon DEF Json3
<1>4. Json4(v) => /\ JsonShape(v)
                  /\ Is(v, "arr") => \A m \in Range(v.arr) : Json3(m)
                  /\ Is(v, "obj") => \A k \in DOMAIN v.obj : Json3(v.obj[k])
  BY MembersOf, Zenon DEF Json4
<1>5. Json5(v) => /\ JsonShape(v)
                  /\ Is(v, "arr") => \A m \in Range(v.arr) : Json4(m)
                  /\ Is(v, "obj") => \A k \in DOMAIN v.obj : Json4(v.obj[k])
  BY MembersOf, Zenon DEF Json5
<1>6. Json(v) => /\ JsonShape(v)
                 /\ Is(v, "arr") => \A m \in Range(v.arr) : Json5(m)
                 /\ Is(v, "obj") => \A k \in DOMAIN v.obj : Json5(v.obj[k])
  BY MembersOf, Zenon DEF Json
<1>7. QED
  BY <1>1, <1>2, <1>3, <1>4, <1>5, <1>6

\* as_usize makes a natural number of what it accepts.
LEMMA UsizeIsNat ==
  ASSUME NEW v, JsonShape(v), IsUsize(v)
  PROVE  AsUsize(v) \in Nat
<1>1. v.num \in Int /\ v.num >= 0
  BY DEF JsonShape, IsUsize
<1>2. PICK u \in Nat : u = v.num
  BY <1>1
<1>3. u \div ONE \in Nat
  BY OneAssumption DEF OneAssumption
<1>4. QED
  BY <1>2, <1>3 DEF AsUsize, Floor

\* What from_obj of each type makes is of the type.
LEMMA FromJsonTyped ==
  ASSUME NEW kind \in Kinds, NEW v, Fits(kind, v), Shallow(v)
  PROVE  FromJson(kind, v) \in Values[kind]
<1>1. JsonShape(v) /\ (Is(v, "obj") => \A k \in DOMAIN v.obj : JsonShape(v.obj[k]))
  BY DEF Shallow
<1>2. ASSUME NEW keys, HasNumbers(v, keys), NEW k \in keys
      PROVE  v.obj[k].num \in Int
  BY <1>1, <1>2 DEF HasNumbers, Has, JsonShape
<1>3. CASE kind = "scalar"
  BY <1>1, <1>3 DEF Fits, FromJson, Values, JsonShape
<1>4. CASE kind = "position"
  BY <1>2, <1>4 DEF Fits, FromJson, Values, PositionFits
<1>5. CASE kind = "color"
  BY <1>5 DEF Fits, FromJson, Values, ColorFits
<1>6. CASE kind = "rcolor"
  BY <1>2, <1>6 DEF Fits, FromJson, Values, RealColorFits
<1>7. CASE kind = "data"
  BY <1>1, <1>7 DEF Fits, FromJson, Values, DataFits, JsonShape
<1>8. QED
  BY <1>3, <1>4, <1>5, <1>6, <1>7 DEF Kinds

\* A list made element by element is a list.
LEMMA SequenceOf ==
  ASSUME NEW a, a \in Seq(Range(a))
  PROVE  /\ Len(a) \in Nat /\ DOMAIN a = 1 .. Len(a)
         /\ \A i \in 1 .. Len(a) : a[i] \in Range(a)
BY LenProperties, ElementOfSeq

\* from_obj of RenderState makes lists of the five types.
LEMMA from_objTyped ==
  ASSUME NEW st \in Variables, NEW stanzas, Json5(stanzas)
  PROVE  from_obj(st, stanzas) \in Variables
<1>1. CASE ~StanzasFit(stanzas)
  BY <1>1, PanickedTyped DEF from_obj
<1>2. CASE StanzasFit(stanzas)
  <2> DEFINE list(kind) == stanzas.obj[Stanza[kind]].arr
             made(kind) == [i \in DOMAIN list(kind) |-> FromJson(kind, list(kind)[i])]
  <2>1. ASSUME NEW kind \in Kinds
        PROVE  made(kind) \in Seq(Values[kind])
    <3>1. /\ Is(stanzas, "obj") /\ Has(stanzas.obj, Stanza[kind]) /\ Is(stanzas.obj[Stanza[kind]], "arr")
          /\ \A v \in Range(stanzas.obj[Stanza[kind]].arr) : Fits(kind, v)
      BY <1>2 DEF StanzasFit
    <3>2. Json4(stanzas.obj[Stanza[kind]])
      BY <3>1, JsonLevels DEF Has
    <3>3. PICK a : a = list(kind)
      OBVIOUS
    <3>4. a \in Seq(Range(a)) /\ \A v \in Range(a) : Shallow(v) /\ Fits(kind, v)
      <4>1. a \in Seq(Range(a)) /\ \A v \in Range(a) : Json3(v) /\ Fits(kind, v)
        BY <3>1, <3>2, <3>3, JsonLevels DEF JsonShape
      <4>2. QED
        BY <4>1, JsonLevels DEF Shallow
    <3>5. \A i \in 1 .. Len(a) : FromJson(kind, a[i]) \in Values[kind]
      BY <3>4, SequenceOf, FromJsonTyped
    <3>6. [i \in DOMAIN a |-> FromJson(kind, a[i])] \in Seq(Values[kind])
      BY <3>4, <3>5, SequenceOf
    <3>7. QED
      BY <3>3, <3>6
  <2>2. from_obj(st, stanzas) = [k \in DOMAIN st |-> IF k = "panicked" THEN st.panicked ELSE made(k)]
    BY <1>2 DEF from_obj
  <2>3. /\ made("scalar") \in Seq(Int) /\ made("position") \in Seq(Values.position)
        /\ made("color") \in Seq(Values.color) /\ made("rcolor") \in Seq(Values.rcolor)
        /\ made("data") \in Seq(Values.data)
    <3> HIDE DEF made
    <3>1. QED
      BY <2>1 DEF Kinds, Values
  <2> HIDE DEF made
  <2>4. DOMAIN st = {"scalar", "position", "color", "rcolor", "data", "panicked"} /\ st.panicked \in BOOLEAN
    BY DEF Variables
  <2>5. QED
    BY <2>2, <2>3, <2>4 DEF Variables, Values
<1>3. QED
  BY <1>1, <1>2

\* A section with a member is there.
LEMMA SectionThere ==
  ASSUME NEW obj, NEW name, NEW k, Has(Section(obj, name), k)
  PROVE  Section(obj, name) = obj[name].obj /\ Has(obj, name) /\ Is(obj[name], "obj")
BY DEF Section, Has

\* What block_factory makes is a block.
LEMMA block_factoryTyped ==
  ASSUME NEW v, BlockFits(v), Json4(v)
  PROVE  IsBlock(block_factory(v))
<1> DEFINE t == v.obj.type.str
           sig == Signatures[t]
           in == Section(v.obj, "inputs")
<1>1. Is(v, "obj") /\ t \in Types
  BY DEF BlockFits
<1>2. /\ \A k \in DOMAIN sig.inputs : Has(in, k) /\ IsUsize(in[k])
      /\ \A k \in sig.lists : /\ Has(in, k) /\ Is(in[k], "arr")
                              /\ \A x \in Range(in[k].arr) : IsUsize(x)
      /\ t = "scalar_macc" => Len(in["m"].arr) = Len(in["x"].arr)
      /\ \A k \in sig.params : Has(Section(v.obj, "params"), k) /\ Is(v.obj.params.obj[k], "num")
      /\ Has(Section(v.obj, "outputs"), "o") /\ IsUsize(v.obj.outputs.obj.o)
  BY DEF BlockFits
<1>3. \A name \in DOMAIN v.obj : Json3(v.obj[name])
  BY <1>1, JsonLevels
<1> HIDE DEF t
<1>4. ASSUME NEW name, NEW k, Has(Section(v.obj, name), k)
      PROVE  Section(v.obj, name) = v.obj[name].obj /\ Json2(v.obj[name].obj[k])
  <2>1. Section(v.obj, name) = v.obj[name].obj /\ name \in DOMAIN v.obj /\ Is(v.obj[name], "obj")
    BY <1>4, SectionThere DEF Has
  <2>2. Json3(v.obj[name]) /\ k \in DOMAIN v.obj[name].obj
    BY <1>3, <1>4, <2>1 DEF Has
  <2>3. QED
    BY <2>1, <2>2, JsonLevels
<1>5. ASSUME NEW k \in DOMAIN sig.inputs
      PROVE  AsUsize(v.obj.inputs.obj[k]) \in Nat
  <2>1. in[k] = v.obj.inputs.obj[k] /\ JsonShape(in[k]) /\ IsUsize(in[k])
    BY <1>2, <1>4, JsonLevels
  <2>2. QED
    BY <2>1, UsizeIsNat
<1>6. ASSUME NEW k \in sig.lists
      PROVE  /\ in[k] = v.obj.inputs.obj[k]
             /\ v.obj.inputs.obj[k].arr \in Seq(Range(v.obj.inputs.obj[k].arr))
             /\ [n \in DOMAIN v.obj.inputs.obj[k].arr |-> AsUsize(v.obj.inputs.obj[k].arr[n])] \in Seq(Nat)
  <2>1. in[k] = v.obj.inputs.obj[k] /\ Json2(in[k]) /\ Is(in[k], "arr") /\ \A x \in Range(in[k].arr) : IsUsize(x)
    BY <1>2, <1>4
  <2>2. PICK a : a = in[k].arr
    OBVIOUS
  <2>3. a \in Seq(Range(a)) /\ \A x \in Range(a) : JsonShape(x) /\ IsUsize(x)
    BY <2>1, <2>2, JsonLevels DEF JsonShape
  <2>4. \A n \in 1 .. Len(a) : AsUsize(a[n]) \in Nat
    BY <2>3, SequenceOf, UsizeIsNat
  <2>5. [n \in DOMAIN a |-> AsUsize(a[n])] \in Seq(Nat)
    BY <2>3, <2>4, SequenceOf
  <2>6. QED
    BY <2>1, <2>2, <2>3, <2>5
<1>7. ASSUME NEW k \in sig.params
      PROVE  v.obj.params.obj[k].num \in Int
  <2>1. Json2(v.obj["params"].obj[k]) /\ Is(v.obj.params.obj[k], "num")
    BY <1>2, <1>4
  <2>2. QED
    BY <2>1, JsonLevels DEF JsonShape
<1>8. AsUsize(v.obj.outputs.obj.o) \in Nat
  <2>1. Json2(v.obj["outputs"].obj["o"]) /\ IsUsize(v.obj.outputs.obj.o)
    BY <1>2, <1>4
  <2>2. JsonShape(v.obj.outputs.obj.o)
    BY <2>1, JsonLevels
  <2>3. QED
    BY <2>1, <2>2, UsizeIsNat
<1> DEFINE made(k) == [n \in DOMAIN v.obj.inputs.obj[k].arr |-> AsUsize(v.obj.inputs.obj[k].arr[n])]
<1>9. ASSUME t = "scalar_macc"
      PROVE  "m" \in sig.lists /\ "x" \in sig.lists /\ Len(made("m")) = Len(made("x"))
  <2>1. "m" \in sig.lists /\ "x" \in sig.lists
    BY <1>9 DEF Signatures, Signature, ScalarMaccSig
  <2>2. PICK a : a = v.obj.inputs.obj["m"].arr
    OBVIOUS
  <2>3. PICK c : c = v.obj.inputs.obj["x"].arr
    OBVIOUS
  <2>4. a \in Seq(Range(a)) /\ c \in Seq(Range(c)) /\ Len(a) = Len(c)
    BY <1>2, <1>6, <1>9, <2>1, <2>2, <2>3
  <2>5. [n \in DOMAIN a |-> AsUsize(a[n])] \in Seq(Nat) /\ [n \in DOMAIN c |-> AsUsize(c[n])] \in Seq(Nat)
    BY <1>6, <2>1, <2>2, <2>3
  <2>6. Len([n \in DOMAIN a |-> AsUsize(a[n])]) = Len([n \in DOMAIN c |-> AsUsize(c[n])])
    BY <2>4, <2>5, SequenceOf, LenProperties
  <2>7. QED
    BY <2>1, <2>2, <2>3, <2>6
<1> HIDE DEF made
<1>10. PICK b : b = block_factory(v)
  OBVIOUS
<1>11. b = [type |-> t, i |-> [k \in DOMAIN sig.inputs |-> AsUsize(v.obj.inputs.obj[k])],
            l |-> [k \in sig.lists |-> made(k)],
            p |-> [k \in sig.params |-> v.obj.params.obj[k].num],
            o |-> AsUsize(v.obj.outputs.obj.o)]
  BY <1>10 DEF block_factory, t, made
<1>12. \A k \in sig.lists : made(k) \in Seq(Nat)
  BY <1>6 DEF made
<1>13. PICK inputs : inputs = [k \in DOMAIN sig.inputs |-> AsUsize(v.obj.inputs.obj[k])]
  OBVIOUS
<1>14. PICK lists : lists = [k \in sig.lists |-> made(k)]
  OBVIOUS
<1>15. PICK params : params = [k \in sig.params |-> v.obj.params.obj[k].num]
  OBVIOUS
<1>16. /\ inputs \in [DOMAIN sig.inputs -> Nat] /\ lists \in [sig.lists -> Seq(Nat)]
       /\ params \in [sig.params -> Int]
       /\ t = "scalar_macc" => Len(lists["m"]) = Len(lists["x"])
  BY <1>5, <1>7, <1>9, <1>12, <1>13, <1>14, <1>15
<1>17. b = [type |-> t, i |-> inputs, l |-> lists, p |-> params, o |-> AsUsize(v.obj.outputs.obj.o)]
  BY <1>11, <1>13, <1>14, <1>15
<1> HIDE DEF sig
<1>18. IsBlock(b)
  <2>1. b.type = t /\ b.l = lists
    BY <1>17
  <2>2. b \in [type : {t}, i : [DOMAIN sig.inputs -> Nat], l : [sig.lists -> Seq(Nat)],
               p : [sig.params -> Int], o : Nat]
    BY <1>8, <1>16, <1>17
  <2>3. QED
    BY <1>1, <1>16, <2>1, <2>2 DEF IsBlock, sig
<1>19. QED
  BY <1>10, <1>18

\* A configuration, whether it fits or panics halfway, makes a renderer.
LEMMA update_cfgTyped ==
  ASSUME NEW x, IsRenderer(x), NEW obj, Json([obj |-> obj])
  PROVE  IsRenderer(update_cfg(x, obj))
<1>1. x.st \in Variables /\ x = [st |-> x.st, blocks |-> x.blocks]
      /\ \A st \in Variables : IsRenderer([st |-> st, blocks |-> x.blocks])
  BY RendererParts
<1>2. CASE ~ConfigFits(obj)
  <2>1. update_cfg(x, obj) = [st |-> Panicked(x.st), blocks |-> x.blocks]
    BY <1>1, <1>2 DEF update_cfg
  <2>2. QED
    BY <1>1, <2>1, PanickedTyped
<1>3. CASE ConfigFits(obj)
  <2>1. /\ Has(obj, "vars") /\ Has(obj, "primitives") /\ Is(obj.primitives, "arr")
        /\ \A b \in Range(obj.primitives.arr) : BlockFits(b)
    BY <1>3 DEF ConfigFits
  <2>2. Json5(obj["vars"]) /\ Json5(obj["primitives"])
    <3>1. PICK w : w = [obj |-> obj]
      OBVIOUS
    <3>2. Is(w, "obj") /\ w.obj = obj /\ Json(w)
      BY <3>1 DEF Is
    <3>3. \A k \in DOMAIN obj : Json5(obj[k])
      BY <3>2, JsonLevels
    <3>4. QED
      BY <2>1, <3>3 DEF Has
  <2>3. PICK a : a = obj.primitives.arr
    OBVIOUS
  <2>4. a \in Seq(Range(a)) /\ \A v \in Range(a) : Json4(v) /\ BlockFits(v)
    BY <2>1, <2>2, <2>3, JsonLevels DEF JsonShape
  <2>5. \A i \in 1 .. Len(a) : IsBlock(block_factory(a[i]))
    BY <2>4, SequenceOf, block_factoryTyped
  <2>6. PICK q : q = [i \in DOMAIN a |-> block_factory(a[i])]
    OBVIOUS
  <2>7. q \in Seq(Range(q)) /\ \A b \in Range(q) : IsBlock(b)
    <3>1. Len(a) \in Nat /\ DOMAIN a = 1 .. Len(a)
      BY <2>4, SequenceOf
    <3>2. DOMAIN q = 1 .. Len(a) /\ \A i \in 1 .. Len(a) : IsBlock(q[i])
      BY <2>5, <2>6, <3>1
    <3>3. q \in [1 .. Len(a) -> Range(q)] /\ \A b \in Range(q) : IsBlock(b)
      BY <2>6, <3>1, <3>2 DEF Range
    <3>4. QED
      BY <3>1, <3>3
  <2>8. from_obj(x.st, obj.vars) \in Variables
    <3>1. PICK stanzas : stanzas = obj.vars
      OBVIOUS
    <3>2. QED
      BY <1>1, <2>2, <3>1, from_objTyped
  <2>9. update_cfg(x, obj) = [st |-> from_obj(x.st, obj.vars), blocks |-> q]
    BY <1>3, <2>3, <2>6 DEF update_cfg
  <2>10. QED
    BY <2>7, <2>8, <2>9 DEF IsRenderer
<1>4. QED
  BY <1>2, <1>3

\* What the server can send to the renderer, and to the LED task.
IsConfig(m) == \E obj : m = Config(obj) /\ Json([obj |-> obj])
IsSetting(m) == \E kind \in Kinds, i \in Nat : \E v \in Values[kind] : m = VarMsg(kind, i, v)
IsCommand(m) == IsConfig(m) \/ IsSetting(m)
IsWhite(m) == m \in [temp : Int, value : Int, delay : Int]

\* A request that is sent on is a command for the renderer or for the LED task.
LEMMA MessageTyped ==
  ASSUME NEW w \in Workloads, NEW req \in w.requests, Sends(req)
  PROVE  IF req.path = "set_white_led" THEN IsWhite(Message(req.path, req.body.obj))
         ELSE IsCommand(Message(req.path, req.body.obj))
<1>1. Is(req.body, "obj") /\ FieldsFit(req.path, req.body.obj) /\ req.path \in Routes
  BY DEF Sends, NotFound
<1>2. Json(req.body)
  BY <1>1, JsonAssumption DEF JsonAssumption
<1>3. \A k \in DOMAIN req.body.obj : Json5(req.body.obj[k])
  BY <1>1, <1>2, JsonLevels
<1>4. PICK obj : obj = req.body.obj
  OBVIOUS
<1>5. \A k \in DOMAIN obj : JsonShape(obj[k]) /\ Shallow(obj[k])
  <2>1. \A k \in DOMAIN obj : Json5(obj[k])
    BY <1>3, <1>4
  <2>2. QED
    BY <2>1, JsonLevels DEF Shallow
<1>6. CASE req.path = "set_config"
  <2>1. Message(req.path, obj) = Config(obj)
    BY <1>6 DEF Message
  <2>2. Json([obj |-> obj])
    <3>1. PICK w0 : w0 = [obj |-> obj]
      OBVIOUS
    <3>2. Is(w0, "obj") /\ w0.obj = obj /\ ~Is(w0, "num") /\ ~Is(w0, "b64") /\ ~Is(w0, "arr")
      BY <3>1 DEF Is
    <3>3. \A k \in DOMAIN w0.obj : Json5(w0.obj[k])
      BY <1>3, <1>4, <3>2
    <3>4. Json(w0)
      BY <3>2, <3>3, Zenon DEF Json, JsonShape, Members
    <3>5. QED
      BY <3>1, <3>4
  <2>3. QED
    BY <1>4, <1>6, <2>1, <2>2 DEF IsCommand, IsConfig
<1>7. CASE req.path = "set_white_led"
  <2>1. \A k \in {"temp", "value", "delay"} \cap DOMAIN obj : Is(obj[k], "num")
    BY <1>1, <1>4, <1>7 DEF FieldsFit
  <2>2. \A k \in {"temp", "value", "delay"}, d \in Int : Number(obj, k, d) \in Int
    BY <1>5, <2>1 DEF Number, Has, JsonShape
  <2>3. 2700 * ONE \in Int /\ ONE \in Int /\ 0 \in Int
    BY OneAssumption DEF OneAssumption
  <2>4. PICK a \in Int, b \in Int, c \in Int :
            a = Number(obj, "temp", 2700 * ONE) /\ b = Number(obj, "value", ONE) /\ c = Number(obj, "delay", 0)
    <3>1. Number(obj, "temp", 2700 * ONE) \in Int
      BY <2>2, <2>3
    <3>2. Number(obj, "value", ONE) \in Int /\ Number(obj, "delay", 0) \in Int
      BY <2>2, <2>3
    <3>3. QED
      BY <3>1, <3>2
  <2>5. Message(req.path, obj) = [temp |-> a, value |-> b, delay |-> c]
    BY <1>7, <2>4 DEF Message
  <2>6. QED
    BY <1>4, <1>7, <2>5 DEF IsWhite
<1>8. CASE req.path \notin {"set_config", "set_white_led"}
  <2> DEFINE kind == VariableRoutes[req.path]
  <2>1. kind \in Kinds
    BY <1>1, <1>8 DEF Routes, VariableRoutes, Kinds
  <2>2. Has(obj, "index") /\ IsUsize(obj.index) /\ Has(obj, "value") /\ Fits(kind, obj.value)
    BY <1>1, <1>4, <1>8 DEF FieldsFit
  <2>3. AsUsize(obj["index"]) \in Nat
    BY <1>5, <2>2, UsizeIsNat DEF Has
  <2>4. FromJson(kind, obj["value"]) \in Values[kind]
    BY <1>5, <2>1, <2>2, FromJsonTyped DEF Has
  <2>5. Message(req.path, obj) = VarMsg(kind, AsUsize(obj.index), FromJson(kind, obj.value))
    BY <1>8 DEF Message
  <2> HIDE DEF kind
  <2>6. QED
    BY <1>4, <1>8, <2>1, <2>3, <2>4, <2>5 DEF IsCommand, IsSetting
<1>9. QED
  BY <1>6, <1>7, <1>8

\* So is the configuration the program starts with.
LEMMA InitialTyped == IsCommand(Config(InitialConfig))
BY JsonAssumption DEF JsonAssumption, IsCommand, IsConfig

\* What Apply makes of the two kinds of commands.
LEMMA ApplyConfig ==
  ASSUME NEW x, NEW obj
  PROVE  Variant(Config(obj)) = "config" /\ Apply(x, Config(obj)) = update_cfg(x, obj)
<1>1. DOMAIN Config(obj) = {"config"} /\ Config(obj)["config"] = obj
  BY DEF Config
<1>2. Variant(Config(obj)) = "config"
  BY <1>1 DEF Variant
<1>3. QED
  BY <1>1, <1>2 DEF Apply, Value

LEMMA ApplySetting ==
  ASSUME NEW x, NEW kind \in Kinds, NEW i \in Nat, NEW v
  PROVE  /\ Variant(VarMsg(kind, i, v)) = kind
         /\ Apply(x, VarMsg(kind, i, v)) = [x EXCEPT !.st = SetVariable(x.st, kind, i, v)]
<1>1. kind # "index" /\ kind # "config"
  BY DEF Kinds
<1>2. PICK m : m = VarMsg(kind, i, v)
  OBVIOUS
<1>3. DOMAIN m = {"index", kind} /\ m["index"] = i /\ m[kind] = v
  BY <1>1, <1>2 DEF VarMsg
<1>4. Variant(m) = kind
  BY <1>1, <1>3 DEF Variant
<1>5. QED
  BY <1>1, <1>2, <1>3, <1>4 DEF Apply, Value

\* A command keeps the types.
LEMMA ApplyTyped ==
  ASSUME NEW x, IsRenderer(x), NEW m, IsCommand(m)
  PROVE  IsRenderer(Apply(x, m))
<1>1. CASE IsConfig(m)
  <2>1. PICK obj : m = Config(obj) /\ Json([obj |-> obj])
    BY <1>1 DEF IsConfig
  <2>2. QED
    BY <2>1, ApplyConfig, update_cfgTyped
<1>2. CASE IsSetting(m)
  <2>1. PICK kind \in Kinds, i \in Nat : \E v \in Values[kind] : m = VarMsg(kind, i, v)
    BY <1>2 DEF IsSetting
  <2>2. PICK v \in Values[kind] : m = VarMsg(kind, i, v)
    BY <2>1
  <2>3. SetVariable(x.st, kind, i, v) \in Variables
    BY RendererParts, SetVariableTyped
  <2>4. Apply(x, m) = [st |-> SetVariable(x.st, kind, i, v), blocks |-> x.blocks]
    BY <2>2, ApplySetting, RendererParts
  <2>5. QED
    BY <2>3, <2>4, RendererParts
<1>3. QED
  BY <1>1, <1>2 DEF IsCommand

-----------------------------------------------------------------------------
(* Types of the colors of the white LED, and of the buffer a frame or an image is put in *)

\* The three whites of the LED, as scalars.
Whites == [1 .. 3 -> Int]

\* What the LED task holds: whites, or what a negative brightness came to.
WhiteColors == Whites \cup {NaN}

LEMMA WhitesAreNumbers ==
  ASSUME NEW w \in Whites
  PROVE  w # NaN
<1>1. DOMAIN w = 1 .. 3 /\ 1 \in 1 .. 3
  BY DEF Whites
<1>2. DOMAIN NaN = {}
  BY DEF NaN
<1>3. QED
  BY <1>1, <1>2

\* Colors of the white LED: mixed, faded, and made of a temperature and a brightness.
LEMMA LerpTyped ==
  ASSUME NEW from \in Whites, NEW to \in Whites, NEW alpha \in Int
  PROVE  Lerp(from, to, alpha) \in Whites
<1>1. ASSUME NEW k \in 1 .. 3
      PROVE  from[k] + Times(to[k] - from[k], alpha) \in Int
  <2>1. PICK a \in Int, b \in Int : a = from[k] /\ b = to[k]
    BY DEF Whites
  <2>2. b - a \in Int
    OBVIOUS
  <2>3. Times(b - a, alpha) \in Int
    BY <2>2, Arithmetic
  <2>4. a + Times(b - a, alpha) \in Int
    BY <2>3
  <2>5. QED
    BY <2>1, <2>4
<1>2. NaN \notin {from, to}
  BY WhitesAreNumbers
<1>3. Lerp(from, to, alpha) = [k \in 1 .. 3 |-> from[k] + Times(to[k] - from[k], alpha)]
  BY <1>2 DEF Lerp
<1>4. QED
  BY <1>1, <1>3 DEF Whites

LEMMA FadeTyped ==
  ASSUME NEW from \in WhiteColors, NEW to \in WhiteColors, NEW alpha \in Int
  PROVE  Lerp(from, to, alpha) \in WhiteColors
<1>1. CASE NaN \in {from, to}
  BY <1>1 DEF Lerp, WhiteColors
<1>2. CASE NaN \notin {from, to}
  BY <1>2, LerpTyped DEF WhiteColors
<1>3. QED
  BY <1>1, <1>2

LEMMA ColorMapTyped ==
  /\ DOMAIN COLOR_MAP = 1 .. 5
  /\ \A j \in 1 .. 5 : COLOR_MAP[j].val \in Int /\ COLOR_MAP[j].color \in Whites
  /\ \A j \in 1 .. 4 : COLOR_MAP[j].val < COLOR_MAP[j + 1].val
<1>1. ONE \in Nat \ {0}
  BY OneAssumption DEF OneAssumption
<1>3. \A val \in Int, cold \in Int, cool \in Int, hot \in Int :
          /\ Point(val, cold, cool, hot).val = val * ONE /\ val * ONE \in Int
          /\ Point(val, cold, cool, hot).color \in Whites
  <2>1. ASSUME NEW a \in Int, NEW b \in Int, NEW c \in Int
        PROVE  <<a, b, c>> \in Whites
    BY DEF Whites
  <2>2. ASSUME NEW val \in Int, NEW cold \in Int, NEW cool \in Int, NEW hot \in Int
        PROVE  /\ Point(val, cold, cool, hot).val = val * ONE /\ val * ONE \in Int
               /\ Point(val, cold, cool, hot).color \in Whites
    <3>1. PICK v \in Int, a \in Int, b \in Int, c \in Int :
              v = val * ONE /\ a = cold * ONE /\ b = cool * ONE /\ c = hot * ONE
      BY <1>1
    <3>2. Point(val, cold, cool, hot) = [val |-> v, color |-> <<a, b, c>>]
      BY <3>1 DEF Point
    <3>3. QED
      BY <2>1, <3>1, <3>2
  <2>3. QED
    BY <2>2
<1>4. COLOR_MAP = <<Point(0, 1, 0, 0), Point(1900, 1, 0, 0), Point(3000, 0, 1, 0),
                    Point(6500, 0, 0, 1), Point(9900, 0, 0, 1)>>
  BY DEF COLOR_MAP
<1>5. /\ COLOR_MAP[1].val = 0 * ONE /\ COLOR_MAP[1].color \in Whites
      /\ COLOR_MAP[2].val = 1900 * ONE /\ COLOR_MAP[2].color \in Whites
      /\ COLOR_MAP[3].val = 3000 * ONE /\ COLOR_MAP[3].color \in Whites
      /\ COLOR_MAP[4].val = 6500 * ONE /\ COLOR_MAP[4].color \in Whites
      /\ COLOR_MAP[5].val = 9900 * ONE /\ COLOR_MAP[5].color \in Whites
  <2>1. Point(0, 1, 0, 0).val = 0 * ONE /\ Point(0, 1, 0, 0).color \in Whites
    BY <1>3
  <2>2. Point(1900, 1, 0, 0).val = 1900 * ONE /\ Point(1900, 1, 0, 0).color \in Whites
    BY <1>3
  <2>3. Point(3000, 0, 1, 0).val = 3000 * ONE /\ Point(3000, 0, 1, 0).color \in Whites
    BY <1>3
  <2>4. Point(6500, 0, 0, 1).val = 6500 * ONE /\ Point(6500, 0, 0, 1).color \in Whites
    BY <1>3
  <2>5. Point(9900, 0, 0, 1).val = 9900 * ONE /\ Point(9900, 0, 0, 1).color \in Whites
    BY <1>3
  <2>6. QED
    BY <1>4, <2>1, <2>2, <2>3, <2>4, <2>5
<1>6. \A j \in 1 .. 5 : COLOR_MAP[j].val \in Int /\ COLOR_MAP[j].color \in Whites
  <2>1. 0 * ONE \in Int /\ 1900 * ONE \in Int /\ 3000 * ONE \in Int /\ 6500 * ONE \in Int /\ 9900 * ONE \in Int
    BY <1>1
  <2>2. QED
    BY <1>5, <2>1
<1>7. DOMAIN COLOR_MAP = 1 .. 5
  BY <1>4
<1>8. QED
  BY <1>1, <1>5, <1>6, <1>7

LEMMA WhiteColorTyped ==
  ASSUME NEW m, IsWhite(m), WhiteFits(m)
  PROVE  WhiteColor(m) \in WhiteColors
<1>1. PICK temp \in Int, value \in Int : temp = m.temp /\ value = m.value
  BY DEF IsWhite
<1>2. PointsAtOrAbove(temp) \in SUBSET (1 .. 5) /\ PointsAtOrAbove(temp) # {} /\ 1 \notin PointsAtOrAbove(temp)
  <2>1. PointsAtOrAbove(temp) \notin {{}, DOMAIN COLOR_MAP}
    BY <1>1 DEF WhiteFits
  <2>2. \A j \in 1 .. 5 : COLOR_MAP[1].val <= COLOR_MAP[j].val
    BY ColorMapTyped
  <2>3. 1 \in PointsAtOrAbove(temp) => PointsAtOrAbove(temp) = 1 .. 5
    BY <2>2, ColorMapTyped DEF PointsAtOrAbove
  <2>4. QED
    BY <2>1, <2>3, ColorMapTyped DEF PointsAtOrAbove
<1>3. PICK i \in 1 .. 4 : i = Segment(temp)
  <2>1. PICK j \in PointsAtOrAbove(temp) : \A k \in PointsAtOrAbove(temp) : j <= k
    <3>1. PointsAtOrAbove(temp) \in SUBSET Nat
      BY <1>2
    <3>2. QED
      BY <1>2, <3>1, LeastElement
  <2>2. PICK j0 : j0 = CHOOSE n \in PointsAtOrAbove(temp) : \A k \in PointsAtOrAbove(temp) : n <= k
    OBVIOUS
  <2>3. j0 \in PointsAtOrAbove(temp)
    BY <2>1, <2>2
  <2>4. j0 \in 2 .. 5
    BY <1>2, <2>3
  <2>5. Segment(temp) = j0 - 1
    BY <2>2 DEF Segment
  <2>6. QED
    BY <2>4, <2>5
<1>4. PICK low \in Int, high \in Int : low = COLOR_MAP[i].val /\ high = COLOR_MAP[i + 1].val /\ low < high
  BY ColorMapTyped, i + 1 \in 1 .. 5
<1>5. PICK alpha \in Int : alpha = ((temp - low) * ONE) \div (high - low)
  <2>1. (temp - low) * ONE \in Int
    BY OneAssumption DEF OneAssumption
  <2>2. high - low \in Nat \ {0}
    BY <1>4
  <2>3. QED
    BY <2>1, <2>2
<1>6. PICK mix \in Whites : mix = Lerp(COLOR_MAP[i].color, COLOR_MAP[i + 1].color, alpha)
  <2>1. PICK from \in Whites, to \in Whites : from = COLOR_MAP[i].color /\ to = COLOR_MAP[i + 1].color
    BY ColorMapTyped, i + 1 \in 1 .. 5
  <2>2. QED
    BY <2>1, LerpTyped
<1>7. \A k \in 1 .. 3 : Times(mix[k], Pow(value, 2 * ONE)) \in Int
  <2>1. 2 * ONE \in Int
    BY OneAssumption DEF OneAssumption
  <2>2. Pow(value, 2 * ONE) \in Int
    BY <2>1, PowIsInt
  <2>3. \A k \in 1 .. 3 : mix[k] \in Int
    BY DEF Whites
  <2>4. QED
    BY <2>2, <2>3, Arithmetic
<1>8. WhiteColor(m) = IF value < 0 THEN NaN ELSE [k \in 1 .. 3 |-> Times(mix[k], Pow(value, 2 * ONE))]
  BY <1>1, <1>3, <1>4, <1>5, <1>6 DEF WhiteColor
<1>9. [k \in 1 .. 3 |-> Times(mix[k], Pow(value, 2 * ONE))] \in Whites
  BY <1>7 DEF Whites
<1>10. QED
  BY <1>8, <1>9 DEF WhiteColors

\* Three bytes, none above LED_MAX.
LEMMA WhiteWordTyped ==
  ASSUME NEW color \in WhiteColors
  PROVE  WhiteWord(color) \in 0 .. 2 ^ 24 - 1
<1>1. ASSUME NEW v \in Int
      PROVE  Round(LED_MAX * Clamp(v, 0, ONE)) \in 0 .. 127
  <2>1. ONE \in Nat /\ ONE > 0
    BY OneAssumption DEF OneAssumption
  <2>2. PICK c \in 0 .. ONE : c = Clamp(v, 0, ONE)
    BY <2>1 DEF Clamp
  <2>3. PICK u \in Int : u = 127 * c /\ u >= 0 /\ u <= 127 * ONE
    BY <2>1
  <2>4. PICK d \in Nat \ {0} : d = 2 * ONE
    BY <2>1
  <2>5. PICK n \in Nat : n = 2 * u + ONE /\ n < 128 * d
    BY <2>1, <2>3, <2>4
  <2>6. PICK k \in Int, rest \in 0 .. d - 1 : n = d * k + rest /\ k = n \div d
    <3>1. PICK k \in Int, rest \in 0 .. d - 1 : n = d * k + rest
      <4>1. n \in Int /\ d \in Nat \ {0}
        OBVIOUS
      <4>2. QED
        BY <4>1, Divided
    <3>2. k = n \div d
      BY <3>1, QuotientIs
    <3>3. QED
      BY <3>1, <3>2
  <2>7. k >= 0
    <3>1. SUFFICES ASSUME k <= -1
                   PROVE  FALSE
      BY <2>6
    <3>2. d * k <= -d
      BY <2>4, <3>1
    <3>3. QED
      BY <2>5, <2>6, <3>2
  <2>8. k <= 127
    <3>1. SUFFICES ASSUME k >= 128
                   PROVE  FALSE
      BY <2>6
    <3>2. d * k >= 128 * d
      BY <2>4, <3>1
    <3>3. QED
      BY <2>5, <2>6, <3>2
  <2>9. Round(u) = k
    <3>1. (2 * u + ONE) \div (2 * ONE) = k
      BY <2>4, <2>5, <2>6
    <3>2. QED
      BY <2>3, <3>1 DEF Round
  <2>10. QED
    BY <2>2, <2>3, <2>7, <2>8, <2>9 DEF LED_MAX
<1>2. 2 ^ 24 = 16777216
  OBVIOUS
<1>3. CASE color = NaN
  <2>1. WhiteWord(color) = 0 * 256 + 0 + 0 * 65536
    BY <1>3 DEF WhiteWord
  <2>2. QED
    BY <1>2, <2>1
<1>4. CASE color \in Whites
  <2>1. color[1] \in Int /\ color[2] \in Int /\ color[3] \in Int /\ color # NaN
    BY <1>4, WhitesAreNumbers DEF Whites
  <2>2. PICK a \in 0 .. 127, b \in 0 .. 127, c \in 0 .. 127 :
            /\ a = Round(LED_MAX * Clamp(color[1], 0, ONE))
            /\ b = Round(LED_MAX * Clamp(color[2], 0, ONE))
            /\ c = Round(LED_MAX * Clamp(color[3], 0, ONE))
    BY <1>1, <2>1
  <2>3. WhiteWord(color) = a * 256 + b + c * 65536
    BY <2>1, <2>2 DEF WhiteWord
  <2>4. QED
    BY <1>2, <2>3
<1>5. QED
  BY <1>3, <1>4 DEF WhiteColors

\* A frame drawn keeps the types.
LEMMA DrawFrameTyped ==
  ASSUME NEW x, IsRenderer(x), NEW buffer \in Frames, NEW num \in Int
  PROVE  DrawFrame(x, buffer, num) \in Drawings
<1>1. FrameBySteps(x, buffer, num)
  BY FrameSteps
<1>2. PICK h \in [0 .. PIXEL_COUNT -> Drawings] : DrawFrame(x, buffer, num) = h[PIXEL_COUNT]
  BY <1>1 DEF FrameBySteps
<1>3. PIXEL_COUNT \in 0 .. PIXEL_COUNT
  BY Layout
<1>4. QED
  BY <1>2, <1>3

LEMMA BlankTyped == BlankFrame \in Frames
BY DEF BlankFrame, Frames, Byte

\* An image that fits has three bytes for every place.
LEMMA ImageHasThePlace ==
  ASSUME NEW data \in Seq(Byte), ImageFits(data), NEW x \in Columns, NEW y \in Rows
  PROVE  px_idx_tpose(x, y) \in Nat /\ \A k \in 1 .. 3 : data[px_idx_tpose(x, y) + k] \in Byte
<1>1. LED_COUNT \in Nat \ {0} /\ STRING_COUNT \in Nat \ {0} /\ x \in 0 .. LED_COUNT - 1 /\ y \in 0 .. STRING_COUNT - 1
  BY Layout DEF Columns, Rows
<1>2. PICK p \in Nat : p = y * LED_COUNT
  BY <1>1
<1>3. p + LED_COUNT <= LED_COUNT * STRING_COUNT
  <2>1. (y + 1) * LED_COUNT <= STRING_COUNT * LED_COUNT
    BY <1>1
  <2>2. (y + 1) * LED_COUNT = y * LED_COUNT + LED_COUNT /\ STRING_COUNT * LED_COUNT = LED_COUNT * STRING_COUNT
    BY <1>1
  <2>3. QED
    BY <1>2, <2>1, <2>2
<1>4. PICK n \in Nat : n = LED_COUNT * STRING_COUNT
  BY <1>1
<1>5. px_idx_tpose(x, y) = (x + p) * 3 /\ FRAME_SIZE_BYTES = n * 3
  BY <1>2, <1>4 DEF px_idx_tpose, FRAME_SIZE_BYTES, PIXEL_COUNT, BYTES_PER_LED
<1>6. Len(data) \in Nat /\ Len(data) >= n * 3 /\ \A i \in 1 .. Len(data) : data[i] \in Byte
  BY <1>5, LenProperties, ElementOfSeq DEF ImageFits
<1>7. \A k \in 1 .. 3 : (x + p) * 3 + k \in 1 .. Len(data)
  BY <1>1, <1>3, <1>4, <1>6
<1>8. QED
  BY <1>1, <1>5, <1>6, <1>7

\* A pixel of an image puts three bytes.
LEMMA PutFromTyped ==
  ASSUME NEW data \in Seq(Byte), ImageFits(data), NEW buffer \in Frames, NEW at \in Places
  PROVE  PutFrom(data, buffer, at) \in Frames
<1>1. at[1] \in Columns /\ at[2] \in Rows
  BY DEF Places
<1>2. PICK red \in Byte, green \in Byte, blue \in Byte :
          /\ red = data[px_idx_tpose(at[1], at[2]) + 1]
          /\ green = data[px_idx_tpose(at[1], at[2]) + 2]
          /\ blue = data[px_idx_tpose(at[1], at[2]) + 3]
  BY <1>1, ImageHasThePlace
<1>3. PICK c \in [Channels -> Byte] : c = [r |-> red, g |-> green, b |-> blue]
  <2>1. [r |-> red, g |-> green, b |-> blue] \in [Channels -> Byte]
    BY DEF Channels
  <2>2. QED
    BY <2>1
<1>4. PutFrom(data, buffer, at) = PutPixel(buffer, at[1], at[2], c)
  BY <1>2, <1>3 DEF PutFrom
<1>5. QED
  BY <1>4, PutPixelTyped

\* The pixels of an image, one after the other.
SwizzleBySteps(data) ==
    \E h \in [0 .. PIXEL_COUNT -> Frames] :
        /\ h[0] = BlankFrame
        /\ \A k \in 1 .. PIXEL_COUNT : h[k] = PutFrom(data, h[k - 1], DrawingOrder[k])
        /\ Swizzle(data) = h[PIXEL_COUNT]

LEMMA SwizzleSteps ==
  ASSUME NEW data \in Seq(Byte), ImageFits(data)
  PROVE  SwizzleBySteps(data)
<1> PIXEL_COUNT \in Nat /\ \A k \in 1 .. PIXEL_COUNT : DrawingOrder[k] \in Places
  BY Layout, VisitedPlaces
<1> DOMAIN DrawingOrder = 1 .. PIXEL_COUNT /\ BlankFrame \in Frames
  BY VisitedPlaces, BlankTyped
<1>1. PICK F \in [Frames -> [Places -> Frames]] : \A v \in Frames, w \in Places : F[v][w] = PutFrom(data, v, w)
  <2> DEFINE F == [v \in Frames |-> [w \in Places |-> PutFrom(data, v, w)]]
  <2>1. \A v \in Frames, w \in Places : PutFrom(data, v, w) \in Frames
    BY PutFromTyped
  <2>2. F \in [Frames -> [Places -> Frames]] /\ \A v \in Frames, w \in Places : F[v][w] = PutFrom(data, v, w)
    BY <2>1
  <2> HIDE DEF F
  <2>3. QED
    BY <2>2
<1>2. FoldOf(F, Frames, Places, BlankFrame, DrawingOrder, PIXEL_COUNT)
  BY <1>1 DEF FoldOf
<1>3. PICK it \in [SUBSET (1 .. PIXEL_COUNT) -> Frames] : \A s \in SUBSET (1 .. PIXEL_COUNT) :
             it[s] = IF s = {} THEN BlankFrame ELSE F[it[s \ {Max(s)}]][DrawingOrder[Max(s)]]
  <2>1. Iterations(F, Frames, BlankFrame, DrawingOrder, PIXEL_COUNT) # {}
    BY <1>2, FoldExists
  <2>2. QED
    BY <2>1 DEF Iterations
<1>4. it = [s \in SUBSET (1 .. PIXEL_COUNT) |->
               IF s = {} THEN BlankFrame ELSE PutFrom(data, it[s \ {Max(s)}], DrawingOrder[Max(s)])]
  <2>1. \A s \in SUBSET (1 .. PIXEL_COUNT) : s # {} => it[s \ {Max(s)}] \in Frames /\ DrawingOrder[Max(s)] \in Places
    BY <1>3, Largest
  <2>2. \A s \in SUBSET (1 .. PIXEL_COUNT) : s # {} =>
            F[it[s \ {Max(s)}]][DrawingOrder[Max(s)]] = PutFrom(data, it[s \ {Max(s)}], DrawingOrder[Max(s)])
    BY <1>1, <2>1
  <2>3. QED
    BY <1>3, <2>2
<1>5. PICK g : /\ g = [s \in SUBSET (1 .. PIXEL_COUNT) |->
                          IF s = {} THEN BlankFrame ELSE PutFrom(data, g[s \ {Max(s)}], DrawingOrder[Max(s)])]
               /\ Swizzle(data) = g[1 .. PIXEL_COUNT]
  BY <1>4, Zenon DEF Swizzle, FoldLeft, MapThenFoldSet
<1>6. g[1 .. 0] = BlankFrame
  BY <1>5
<1>7. \A k \in 1 .. PIXEL_COUNT : g[1 .. k] = PutFrom(data, g[1 .. k - 1], DrawingOrder[k])
  <2>1. ASSUME NEW k \in 1 .. PIXEL_COUNT
        PROVE  g[1 .. k] = PutFrom(data, g[1 .. k - 1], DrawingOrder[k])
    <3>1. PICK s \in SUBSET (1 .. PIXEL_COUNT) : s = 1 .. k /\ s # {} /\ Max(s) = k /\ s \ {k} = 1 .. k - 1
      BY UpToParts
    <3>2. g[s] = PutFrom(data, g[s \ {Max(s)}], DrawingOrder[Max(s)])
      BY <1>5, <3>1, Zenon
    <3>3. QED
      BY <3>1, <3>2
  <2>2. QED
    BY <2>1
<1>8. Climbs(F, Frames, BlankFrame, DrawingOrder, PIXEL_COUNT, g)
  <2>1. \A k \in 1 .. PIXEL_COUNT : g[1 .. k - 1] \in Frames => g[1 .. k] = F[g[1 .. k - 1]][DrawingOrder[k]]
    BY <1>1, <1>7
  <2>2. QED
    BY <1>6, <2>1 DEF Climbs
<1>9. PICK h \in Chains(F, Frames, BlankFrame, DrawingOrder, PIXEL_COUNT) : h[PIXEL_COUNT] = g[1 .. PIXEL_COUNT]
  <2>1. EndsIn(F, Frames, BlankFrame, DrawingOrder, PIXEL_COUNT, g[1 .. PIXEL_COUNT])
    BY <1>2, <1>8, FoldChain
  <2>2. QED
    BY <2>1 DEF EndsIn
<1>10. /\ h \in [0 .. PIXEL_COUNT -> Frames] /\ h[0] = BlankFrame
       /\ \A k \in 1 .. PIXEL_COUNT : h[k] = F[h[k - 1]][DrawingOrder[k]]
  BY <1>9 DEF Chains
<1>11. \A k \in 1 .. PIXEL_COUNT : h[k] = PutFrom(data, h[k - 1], DrawingOrder[k])
  <2>1. \A k \in 1 .. PIXEL_COUNT : k - 1 \in 0 .. PIXEL_COUNT
    OBVIOUS
  <2>2. QED
    BY <1>1, <1>10, <2>1
<1>12. QED
  BY <1>5, <1>9, <1>10, <1>11 DEF SwizzleBySteps

LEMMA SwizzleTyped ==
  ASSUME NEW data \in Seq(Byte), ImageFits(data)
  PROVE  Swizzle(data) \in Frames
<1>1. SwizzleBySteps(data)
  BY SwizzleSteps
<1>2. PICK h \in [0 .. PIXEL_COUNT -> Frames] : Swizzle(data) = h[PIXEL_COUNT]
  BY <1>1 DEF SwizzleBySteps
<1>3. PIXEL_COUNT \in 0 .. PIXEL_COUNT
  BY Layout
<1>4. QED
  BY <1>2, <1>3

LEMMA NewTyped == IsRenderer(NewRenderer)
<1>1. NoVariables \in Variables
  BY DEF NoVariables, Variables
<1>2. PICK q : q = NewRenderer.blocks
  OBVIOUS
<1>3. q = <<>> /\ Range(q) = {}
  BY <1>2 DEF NewRenderer, Range
<1>4. QED
  BY <1>1, <1>2, <1>3 DEF IsRenderer, NewRenderer

-----------------------------------------------------------------------------
(* Types of the programs *)

\* What waits in the channels, and the colors the LED task holds.
UnreadTyped ==
    /\ \A i \in DOMAIN mods.unread : IsCommand(mods.unread[i])
    /\ \A i \in DOMAIN leds.unread : IsWhite(leds.unread[i])

LedHolds == led \in [at : {"recv", "fading", "set", "ended"}, color : WhiteColors, target : WhiteColors]

\* The invariant: the types of the state, and of what waits to be applied to it.
TypesInv == TypeOK /\ UnreadTyped /\ LedHolds

\* The conjuncts of TypeOK by name.
MainTyped ==
    /\ proc \in {"running", "exited", "dead"}
    /\ phase \in (IF program = "cloud_ceiling" THEN {"drain", "draw", "exit"} ELSE {"recv", "exit"})
    /\ outcome \in {"none", "message", "empty", "lagged"}
    /\ frame \in 0 .. FrameModulus - 1
    /\ IsRenderer(r) /\ fb \in Frames

WhiteTyped == white \in 0 .. 2 ^ 24 - 1

LEMMA TypesParts ==
  ASSUME TasksInv
  PROVE  TypesInv <=> MainTyped /\ IsRenderer(want) /\ WhiteTyped /\ UnreadTyped /\ LedHolds
BY DEF TypesInv, TypeOK, MainTyped, WhiteTyped, LedHolds, TasksInv, NetOK, ChannelsOK, ChannelOK, Frames

\* A request adds a command to a channel, and applies it to what is wanted.
LEMMA TypesHandle ==
  ASSUME TasksInv, TypesInv, NEW c \in Clients, NEW req \in workload.requests, Handle(c, req)
  PROVE  IsRenderer(want)' /\ UnreadTyped'
<1>1. workload \in Workloads /\ ChannelOK(mods) /\ ChannelOK(leds) /\ IsRenderer(want) /\ UnreadTyped
  BY DEF TasksInv, ChannelsOK, TypesInv, TypeOK
<1>2. CASE ~Sends(req)
  BY <1>1, <1>2 DEF Handle, history, UnreadTyped
<1>3. CASE Sends(req)
  <2>1. PICK msg : msg = Message(req.path, req.body.obj)
    OBVIOUS
  <2>2. msg \in Commands
    BY <1>1, <1>3, <2>1 DEF Commands
  <2>3. IF req.path = "set_white_led" THEN IsWhite(msg) ELSE IsCommand(msg)
    BY <1>1, <1>3, <2>1, MessageTyped
  <2>4. CASE req.path = "set_white_led"
    <3>1. SendLed(msg)
      BY <1>3, <2>1, <2>4 DEF Handle
    <3>2. UNCHANGED <<mods, want>> /\ (leds' = leds \/ leds' = Sent(leds, msg))
      BY <3>1 DEF SendLed
    <3>3. IsWhite(msg)
      BY <2>3, <2>4
    <3>4. \A i \in DOMAIN Sent(leds, msg).unread : IsWhite(Sent(leds, msg).unread[i])
      BY <1>1, <2>2, <3>3, SentOK DEF UnreadTyped
    <3>5. QED
      BY <1>1, <3>2, <3>4 DEF UnreadTyped
  <2>5. CASE req.path # "set_white_led"
    <3>1. SendMod(msg)
      BY <1>3, <2>1, <2>5 DEF Handle
    <3>2. /\ UNCHANGED leds /\ mods' = Sent(mods, msg)
          /\ want' = NewRenderer \/ want' = Apply(want, msg)
      BY <3>1 DEF SendMod
    <3>3. IsCommand(msg)
      BY <2>3, <2>5
    <3>4. \A i \in DOMAIN Sent(mods, msg).unread : IsCommand(Sent(mods, msg).unread[i])
      BY <1>1, <2>2, <3>3, SentOK DEF UnreadTyped
    <3>5. IsRenderer(want)'
      BY <1>1, <3>2, <3>3, ApplyTyped, NewTyped
    <3>6. QED
      BY <1>1, <3>2, <3>4, <3>5 DEF UnreadTyped
  <2>6. QED
    BY <2>4, <2>5
<1>4. QED
  BY <1>2, <1>3

\* The first message of a channel.
LEMMA HeadTyped ==
  ASSUME ChannelsOK, UnreadTyped
  PROVE  /\ HasMessage(mods) => IsCommand(Head(mods.unread))
         /\ HasMessage(leds) => IsWhite(Head(leds.unread))
BY TakenOK DEF ChannelsOK, UnreadTyped

\* The image of a command.
LEMMA ImageTyped ==
  ASSUME NEW m, IsCommand(m), Variant(m) = "data"
  PROVE  m.data \in Seq(Byte)
<1>1. ~IsConfig(m)
  BY ApplyConfig DEF IsConfig
<1>2. PICK kind \in Kinds, i \in Nat : \E v \in Values[kind] : m = VarMsg(kind, i, v)
  BY <1>1 DEF IsCommand, IsSetting
<1>3. PICK v \in Values[kind] : m = VarMsg(kind, i, v)
  BY <1>2
<1>4. kind = "data"
  BY <1>3, ApplySetting
<1>5. m.data = v
  BY <1>3, <1>4 DEF VarMsg
<1>6. QED
  BY <1>3, <1>4, <1>5 DEF Values

\* A frame drawn: the renderer, the frame number and the frame buffer.
LEMMA TypesDraw ==
  ASSUME TasksInv, MainTyped, proc = "running", Draw, UNCHANGED workload
  PROVE  MainTyped'
<1>1. IsRenderer(r) /\ fb \in Frames /\ frame \in Int /\ FrameModulus \in Nat \ {0} /\ frame \in Nat
  BY CeilingAssumption DEF MainTyped, CeilingAssumption
<1>2. PICK drawn \in Drawings : drawn = DrawFrame(r, fb, frame)
  BY <1>1, DrawFrameTyped
<1>3. drawn.st \in Variables /\ drawn.fb \in Frames
  BY DEF Drawings
<1>4. /\ r' = [r EXCEPT !.st = drawn.st] /\ fb' = drawn.fb
      /\ proc' = (IF drawn.st.panicked THEN "dead" ELSE proc)
      /\ frame' = (frame + 1) % FrameModulus
      /\ phase' \in {"exit", "drain"} /\ outcome' = "none" /\ phase = "draw"
  BY <1>2 DEF Draw
<1>5. r' = [st |-> drawn.st, blocks |-> r.blocks]
  BY <1>1, <1>4, RendererParts
<1>6. IsRenderer(r')
  BY <1>1, <1>3, <1>5, RendererParts
<1>7. frame' \in 0 .. FrameModulus - 1
  BY <1>1, <1>4
<1>8. program' = program /\ program = "cloud_ceiling"
  BY <1>4 DEF program, MainTyped
<1>9. QED
  BY <1>3, <1>4, <1>6, <1>7, <1>8 DEF MainTyped

\* The main thread applies commands, draws frames and shows images.
LEMMA TypesMain ==
  ASSUME TasksInv, TypesInv, proc = "running", Main
  PROVE  MainTyped' /\ UnreadTyped'
<1>1. MainTyped /\ UnreadTyped /\ ChannelsOK /\ IsRenderer(r) /\ fb \in Frames
  BY TypesParts DEF TasksInv, MainTyped
<1>2. UNCHANGED workload /\ UNCHANGED leds /\ program' = program
  BY DEF Main, program
<1>3. UnreadTyped'
  <2>1. CASE mods' = Taken(mods) /\ HasMessage(mods)
    <3>1. \A i \in DOMAIN mods'.unread : IsCommand(mods'.unread[i])
      BY <1>1, <2>1, TakenOK DEF ChannelsOK, UnreadTyped
    <3>2. QED
      BY <1>1, <1>2, <3>1 DEF UnreadTyped
  <2>2. CASE mods' = Told(mods)
    <3>1. mods'.unread = mods.unread
      BY <1>1, <2>2, ToldOK DEF ChannelsOK
    <3>2. QED
      BY <1>1, <1>2, <3>1 DEF UnreadTyped
  <2>3. CASE mods' = mods
    BY <1>1, <1>2, <2>3 DEF UnreadTyped
  <2>4. QED
    BY <2>1, <2>2, <2>3 DEF Main, TakeCommand, EndDrain, Draw, ShowImage, EndMovie, Exit
<1>4. CASE TakeCommand
  <2>1. IsCommand(Head(mods.unread))
    BY <1>1, <1>4, HeadTyped DEF TakeCommand
  <2>2. r' = Apply(r, Head(mods.unread))
    BY <1>4 DEF TakeCommand
  <2>3. IsRenderer(r')
    BY <1>1, <2>1, <2>2, ApplyTyped
  <2>4. /\ UNCHANGED <<phase, frame, fb>> /\ outcome' = "message"
        /\ proc' = "dead" \/ proc' = proc
    BY <1>4 DEF TakeCommand
  <2>5. QED
    BY <1>1, <1>2, <1>3, <2>3, <2>4 DEF MainTyped
<1>5. CASE EndDrain
  BY <1>1, <1>2, <1>3, <1>5 DEF EndDrain, MainTyped
<1>6. CASE Draw
  BY <1>1, <1>2, <1>3, <1>6, TypesDraw
<1>7. CASE ShowImage
  <2> DEFINE msg == Head(mods.unread)
  <2>1. HasMessage(mods) /\ UNCHANGED <<phase, outcome, r, frame>>
    BY <1>7 DEF ShowImage
  <2>2. IsCommand(msg)
    BY <1>1, <2>1, HeadTyped
  <2>3. \/ UNCHANGED <<proc, fb>>
        \/ Variant(msg) = "data" /\ ImageFits(msg.data) /\ fb' = Swizzle(msg.data) /\ UNCHANGED proc
        \/ proc' = "dead" /\ UNCHANGED fb
    BY <1>7 DEF ShowImage
  <2> HIDE DEF msg
  <2>4. Variant(msg) = "data" /\ ImageFits(msg.data) => Swizzle(msg.data) \in Frames
    BY <2>2, ImageTyped, SwizzleTyped
  <2>5. QED
    BY <1>1, <1>2, <1>3, <2>1, <2>3, <2>4 DEF MainTyped
<1>8. CASE EndMovie
  BY <1>1, <1>2, <1>3, <1>8 DEF EndMovie, MainTyped
<1>9. CASE Exit
  BY <1>1, <1>2, <1>3, <1>9, BlankTyped DEF Exit, MainTyped
<1>10. QED
  BY <1>4, <1>5, <1>6, <1>7, <1>8, <1>9 DEF Main

\* The LED task makes colors of its commands.
LEMMA TypesLed ==
  ASSUME TasksInv, TypesInv, Led
  PROVE  WhiteTyped' /\ LedHolds' /\ UnreadTyped'
<1>1. WhiteTyped /\ LedHolds /\ UnreadTyped /\ ChannelsOK
  BY TypesParts DEF TasksInv
<1>2. led.color \in WhiteColors /\ led.target \in WhiteColors /\ Dark \in WhiteColors
  BY <1>1 DEF LedHolds, Dark, Whites, WhiteColors
<1>3. UNCHANGED mods
  BY DEF Led
<1>4. CASE LedTake
  <2>1. HasMessage(leds) /\ leds' = Taken(leds) /\ UNCHANGED white
    BY <1>4 DEF LedTake
  <2>2. \A i \in DOMAIN leds'.unread : IsWhite(leds'.unread[i])
    BY <1>1, <2>1, TakenOK DEF ChannelsOK, UnreadTyped
  <2>3. PICK msg : msg = Head(leds.unread) /\ IsWhite(msg)
    BY <1>1, <2>1, HeadTyped
  <2>4. WhiteFits(msg) => WhiteColor(msg) \in WhiteColors
    BY <2>3, WhiteColorTyped
  <2>5. led' = IF ~WhiteFits(msg) THEN [led EXCEPT !.at = "ended"]
               ELSE [led EXCEPT !.at = IF msg.delay > 0 THEN "fading" ELSE "set",
                                !.target = WhiteColor(msg)]
    BY <1>4, <2>3 DEF LedTake
  <2>6. LedHolds'
    <3>1. ~WhiteFits(msg) => led' \in [at : {"recv", "fading", "set", "ended"}, color : WhiteColors, target : WhiteColors]
      BY <1>1, <2>5 DEF LedHolds
    <3>2. WhiteFits(msg) => led' \in [at : {"recv", "fading", "set", "ended"}, color : WhiteColors, target : WhiteColors]
      <4>1. PICK a \in {"fading", "set"} : a = IF msg.delay > 0 THEN "fading" ELSE "set"
        OBVIOUS
      <4>2. WhiteFits(msg) => led' = [led EXCEPT !.at = a, !.target = WhiteColor(msg)]
        BY <2>5, <4>1
      <4>3. QED
        BY <1>1, <2>4, <4>2 DEF LedHolds
    <3>3. QED
      BY <3>1, <3>2 DEF LedHolds
  <2>7. QED
    BY <1>1, <1>3, <2>1, <2>2, <2>6 DEF UnreadTyped, WhiteTyped
<1>5. CASE LedSet
  <2>1. WhiteWord(led.target) \in 0 .. 2 ^ 24 - 1
    BY <1>2, WhiteWordTyped
  <2>2. /\ white' = WhiteWord(led.target) /\ UNCHANGED leds
        /\ led' = [at |-> "recv", color |-> led.target, target |-> Dark]
    BY <1>5 DEF LedSet
  <2>3. WhiteTyped'
    BY <2>1, <2>2 DEF WhiteTyped
  <2>4. LedHolds'
    BY <1>2, <2>2 DEF LedHolds
  <2>5. QED
    BY <1>1, <1>3, <2>2, <2>3, <2>4 DEF UnreadTyped
<1>6. CASE LedEnd
  <2>1. UNCHANGED white /\ leds'.unread = leds.unread
    BY <1>1, <1>6, ToldOK DEF LedEnd, ChannelsOK
  <2>2. LedHolds'
    BY <1>1, <1>6 DEF LedEnd, LedHolds
  <2>3. QED
    BY <1>1, <1>3, <2>1, <2>2 DEF UnreadTyped, WhiteTyped
<1>7. ASSUME NEW alpha \in Alphas, LedFade(alpha)
      PROVE  WhiteTyped' /\ LedHolds' /\ UnreadTyped'
  <2>1. alpha \in Int
    BY CeilingAssumption DEF CeilingAssumption
  <2>2. Lerp(led.color, led.target, alpha) \in WhiteColors
    BY <1>2, <2>1, FadeTyped
  <2>3. PICK c \in WhiteColors : c = Lerp(led.color, led.target, alpha)
    BY <2>2
  <2>4. WhiteWord(c) \in 0 .. 2 ^ 24 - 1
    BY WhiteWordTyped
  <2>5. white' = WhiteWord(c) /\ UNCHANGED <<led, leds>>
    BY <1>7, <2>3 DEF LedFade
  <2>6. WhiteTyped'
    BY <2>4, <2>5 DEF WhiteTyped
  <2>7. QED
    BY <1>1, <1>3, <2>5, <2>6 DEF UnreadTyped, LedHolds
<1>8. QED
  BY <1>4, <1>5, <1>6, <1>7 DEF Led

LEMMA TypesStep ==
  ASSUME TasksInv, TasksInv', TypesInv, [Next]_vars
  PROVE  TypesInv'
<1> DEFINE Parts == MainTyped /\ IsRenderer(want) /\ WhiteTyped /\ UnreadTyped /\ LedHolds
<1>1. Parts
  BY TypesParts
<1>2. (TypesInv <=> Parts)'
  BY TypesParts, PTL
<1>3. SUFFICES Parts'
  BY <1>2
<1>4. UNCHANGED mainVars /\ UNCHANGED workload => MainTyped'
  BY <1>1 DEF mainVars, MainTyped, program
<1>5. UNCHANGED ledVars => WhiteTyped' /\ LedHolds'
  BY <1>1 DEF ledVars, WhiteTyped, LedHolds
<1>6. UNCHANGED <<mods, leds>> => UnreadTyped'
  BY <1>1 DEF UnreadTyped
<1>7. UNCHANGED history => IsRenderer(want)'
  BY <1>1 DEF history
<1>8. CASE UNCHANGED vars
  BY <1>4, <1>5, <1>6, <1>7, <1>8 DEF vars
<1>9. CASE AcceptFails \/ \E c \in Clients : Connect(c) \/ Disconnect(c)
  BY <1>4, <1>5, <1>6, <1>7, <1>9 DEF AcceptFails, Connect, Disconnect
<1>10. ASSUME NEW c \in Clients, NEW req \in workload.requests, Handle(c, req)
       PROVE  Parts'
  <2>1. UNCHANGED <<workload, mainVars, ledVars>>
    BY <1>10 DEF Handle
  <2>2. QED
    BY <1>4, <1>5, <1>10, <2>1, TypesHandle
<1>11. CASE Next /\ Main
  <2>1. proc = "running" /\ UNCHANGED <<workload, leds, ledVars, history>>
    BY <1>11 DEF Next, Main
  <2>2. QED
    BY <1>5, <1>7, <1>11, <2>1, TypesMain
<1>12. CASE Led
  <2>1. UNCHANGED <<workload, mainVars, history>>
    BY <1>12 DEF Led
  <2>2. QED
    BY <1>4, <1>7, <1>12, <2>1, TypesLed
<1>13. QED
  BY <1>8, <1>9, <1>10, <1>11, <1>12 DEF Next, Network

LEMMA TypesInit ==
  ASSUME Init
  PROVE  TypesInv
<1>1. TasksInv
  BY TasksInit
<1>2. /\ workload \in Workloads /\ leds = Idle /\ white = 0
      /\ led = [at |-> "recv", color |-> Dark, target |-> Dark]
      /\ mods = (IF program = "cloud_ceiling" THEN Sent(Idle, Config(InitialConfig)) ELSE Idle)
      /\ proc = "running" /\ outcome = "none" /\ r = NewRenderer /\ frame = 0 /\ fb = BlankFrame
      /\ phase = (IF program = "cloud_ceiling" THEN "drain" ELSE "recv")
      /\ want = (IF program = "cloud_ceiling" THEN update_cfg(NewRenderer, InitialConfig) ELSE NewRenderer)
  BY DEF Init
<1>3. MainTyped
  BY <1>2, NewTyped, BlankTyped, CeilingAssumption DEF MainTyped, CeilingAssumption
<1>4. IsRenderer(want)
  BY <1>2, NewTyped, update_cfgTyped, JsonAssumption DEF JsonAssumption
<1>5. WhiteTyped
  BY <1>2, 2 ^ 24 = 16777216 DEF WhiteTyped
<1>6. LedHolds
  <2>1. Dark \in WhiteColors
    BY DEF Dark, Whites, WhiteColors
  <2>2. QED
    BY <1>2, <2>1 DEF LedHolds
<1>7. ChannelOK(Idle) /\ DOMAIN Idle.unread = {}
  <2>1. leds = Idle /\ ChannelOK(leds)
    BY <1>1, <1>2 DEF TasksInv, ChannelsOK
  <2>2. DOMAIN <<>> = {}
    BY EmptySeq, LenProperties
  <2>3. QED
    BY <2>1, <2>2 DEF Idle
<1>8. UnreadTyped
  <2>1. PICK msg : msg = Config(InitialConfig)
    OBVIOUS
  <2>2. msg \in Commands /\ IsCommand(msg)
    BY <2>1, InitialTyped DEF Commands
  <2>3. \A i \in DOMAIN Sent(Idle, msg).unread : Sent(Idle, msg).unread[i] = msg
    BY <1>7, <2>2, SentOK
  <2>4. QED
    BY <1>2, <1>7, <2>1, <2>2, <2>3 DEF UnreadTyped
<1>9. QED
  BY <1>1, <1>3, <1>4, <1>5, <1>6, <1>8, TypesParts

\* Whatever JSON the clients send, in whatever order, and whatever blocks are
\* configured: the lists of variables hold values of their types, blocks keep their
\* form, the frame buffer and the white register hold bytes, frame numbers wrap and
\* channels stay within their capacity (var_types.rs, render_block.rs:30-120,
\* mod_ctrl.rs:43-87, led_ctrl.rs:33-74).
THEOREM TypeCorrect == Spec => []TypeOK
<1>1. TasksInv /\ TasksInv' /\ TypesInv /\ [Next]_vars => TypesInv'
  BY TypesStep
<1>2. Init => TypesInv
  BY TypesInit
<1>3. TypesInv => TypeOK
  BY DEF TypesInv
<1>4. QED
  BY <1>1, <1>2, <1>3, TasksInvariant, PTL DEF Spec

-----------------------------------------------------------------------------
(* Commands take effect in order *)

\* The first n elements are all there is, and are commands.
CommandList(q, n) == n \in Nat /\ DOMAIN q = 1 .. n /\ \A k \in 1 .. n : IsCommand(q[k])

\* The commands of a list, one after the other.
Applied(x, q) == FoldLeft(Apply, x, q)

\* What they can make of a renderer.
MadeOf(x, q) ==
    {v \in [st : Variables, blocks : {x.blocks} \cup {Apply(x, m).blocks : m \in Range(q)}] : IsRenderer(v)}

\* A command keeps the blocks, or brings those of its configuration.
LEMMA ApplyBlocks ==
  ASSUME NEW x, IsRenderer(x), NEW v, IsRenderer(v), NEW m, IsCommand(m)
  PROVE  Apply(v, m).blocks = v.blocks \/ Apply(v, m).blocks = Apply(x, m).blocks
<1>1. v = [st |-> v.st, blocks |-> v.blocks] /\ x = [st |-> x.st, blocks |-> x.blocks]
  BY RendererParts
<1>2. CASE IsConfig(m)
  <2>1. PICK obj : m = Config(obj)
    BY <1>2 DEF IsConfig
  <2>2. Apply(v, m) = update_cfg(v, obj) /\ Apply(x, m) = update_cfg(x, obj)
    BY <2>1, ApplyConfig
  <2>3. ~ConfigFits(obj) => update_cfg(v, obj) = [st |-> Panicked(v.st), blocks |-> v.blocks]
    BY <1>1 DEF update_cfg
  <2>4. ConfigFits(obj) => update_cfg(v, obj).blocks = update_cfg(x, obj).blocks
    BY DEF update_cfg
  <2>5. QED
    BY <2>2, <2>3, <2>4
<1>3. CASE IsSetting(m)
  <2>1. PICK kind \in Kinds, i \in Nat : \E w \in Values[kind] : m = VarMsg(kind, i, w)
    BY <1>3 DEF IsSetting
  <2>2. PICK w \in Values[kind] : m = VarMsg(kind, i, w)
    BY <2>1
  <2>3. Apply(v, m) = [st |-> SetVariable(v.st, kind, i, w), blocks |-> v.blocks]
    BY <1>1, <2>2, ApplySetting
  <2>4. QED
    BY <2>3
<1>4. QED
  BY <1>2, <1>3 DEF IsCommand

\* What one more command makes is among what commands can make.
LEMMA MadeClosed ==
  ASSUME NEW x, IsRenderer(x), NEW q, NEW n, CommandList(q, n), NEW v \in MadeOf(x, q), NEW m \in Range(q)
  PROVE  Apply(v, m) \in MadeOf(x, q)
<1>1. IsCommand(m)
  BY DEF CommandList, Range
<1>2. IsRenderer(v) /\ v.blocks \in {x.blocks} \cup {Apply(x, c).blocks : c \in Range(q)}
  BY DEF MadeOf
<1>3. PICK z : z = Apply(v, m)
  OBVIOUS
<1>4. IsRenderer(z)
  BY <1>1, <1>2, <1>3, ApplyTyped
<1>5. z.st \in Variables /\ z = [st |-> z.st, blocks |-> z.blocks]
  BY <1>4, RendererParts
<1>6. z.blocks \in {x.blocks} \cup {Apply(x, c).blocks : c \in Range(q)}
  BY <1>1, <1>2, <1>3, ApplyBlocks
<1>7. QED
  BY <1>3, <1>4, <1>5, <1>6 DEF MadeOf

\* Applying commands goes through a chain of renderers.
AppliedBySteps(x, q, n) ==
    \E h \in [0 .. n -> MadeOf(x, q)] :
        /\ h[0] = x
        /\ \A k \in 1 .. n : h[k] = Apply(h[k - 1], q[k])
        /\ Applied(x, q) = h[n]

LEMMA AppliedSteps ==
  ASSUME NEW x, IsRenderer(x), NEW q, NEW n, CommandList(q, n)
  PROVE  AppliedBySteps(x, q, n)
<1> n \in Nat /\ DOMAIN q = 1 .. n /\ \A k \in 1 .. n : q[k] \in Range(q)
  BY DEF CommandList, Range
<1> x \in MadeOf(x, q)
  BY RendererParts DEF MadeOf
<1>1. PICK F \in [MadeOf(x, q) -> [Range(q) -> MadeOf(x, q)]] : \A v \in MadeOf(x, q), w \in Range(q) : F[v][w] = Apply(v, w)
  <2> DEFINE F == [v \in MadeOf(x, q) |-> [w \in Range(q) |-> Apply(v, w)]]
  <2>1. \A v \in MadeOf(x, q), w \in Range(q) : Apply(v, w) \in MadeOf(x, q)
    BY MadeClosed
  <2>2. F \in [MadeOf(x, q) -> [Range(q) -> MadeOf(x, q)]] /\ \A v \in MadeOf(x, q), w \in Range(q) : F[v][w] = Apply(v, w)
    BY <2>1
  <2> HIDE DEF F
  <2>3. QED
    BY <2>2
<1>2. FoldOf(F, MadeOf(x, q), Range(q), x, q, n)
  BY <1>1 DEF FoldOf
<1>3. PICK it \in [SUBSET (1 .. n) -> MadeOf(x, q)] : \A s \in SUBSET (1 .. n) :
             it[s] = IF s = {} THEN x ELSE F[it[s \ {Max(s)}]][q[Max(s)]]
  <2>1. Iterations(F, MadeOf(x, q), x, q, n) # {}
    BY <1>2, FoldExists
  <2>2. QED
    BY <2>1 DEF Iterations
<1>4. it = [s \in SUBSET (1 .. n) |->
               IF s = {} THEN x ELSE Apply(it[s \ {Max(s)}], q[Max(s)])]
  <2>1. \A s \in SUBSET (1 .. n) : s # {} => it[s \ {Max(s)}] \in MadeOf(x, q) /\ q[Max(s)] \in Range(q)
    BY <1>3, Largest
  <2>2. \A s \in SUBSET (1 .. n) : s # {} =>
            F[it[s \ {Max(s)}]][q[Max(s)]] = Apply(it[s \ {Max(s)}], q[Max(s)])
    BY <1>1, <2>1
  <2>3. QED
    BY <1>3, <2>2
<1>5. PICK g : /\ g = [s \in SUBSET (1 .. n) |->
                          IF s = {} THEN x ELSE Apply(g[s \ {Max(s)}], q[Max(s)])]
               /\ Applied(x, q) = g[1 .. n]
  BY <1>4, Zenon DEF Applied, FoldLeft, MapThenFoldSet
<1>6. g[1 .. 0] = x
  BY <1>5
<1>7. \A k \in 1 .. n : g[1 .. k] = Apply(g[1 .. k - 1], q[k])
  <2>1. ASSUME NEW k \in 1 .. n
        PROVE  g[1 .. k] = Apply(g[1 .. k - 1], q[k])
    <3>1. PICK s \in SUBSET (1 .. n) : s = 1 .. k /\ s # {} /\ Max(s) = k /\ s \ {k} = 1 .. k - 1
      BY UpToParts
    <3>2. g[s] = Apply(g[s \ {Max(s)}], q[Max(s)])
      BY <1>5, <3>1, Zenon
    <3>3. QED
      BY <3>1, <3>2
  <2>2. QED
    BY <2>1
<1>8. Climbs(F, MadeOf(x, q), x, q, n, g)
  <2>1. \A k \in 1 .. n : g[1 .. k - 1] \in MadeOf(x, q) => g[1 .. k] = F[g[1 .. k - 1]][q[k]]
    BY <1>1, <1>7
  <2>2. QED
    BY <1>6, <2>1 DEF Climbs
<1>9. PICK h \in Chains(F, MadeOf(x, q), x, q, n) : h[n] = g[1 .. n]
  <2>1. EndsIn(F, MadeOf(x, q), x, q, n, g[1 .. n])
    BY <1>2, <1>8, FoldChain
  <2>2. QED
    BY <2>1 DEF EndsIn
<1>10. /\ h \in [0 .. n -> MadeOf(x, q)] /\ h[0] = x
       /\ \A k \in 1 .. n : h[k] = F[h[k - 1]][q[k]]
  BY <1>9 DEF Chains
<1>11. \A k \in 1 .. n : h[k] = Apply(h[k - 1], q[k])
  <2>1. \A k \in 1 .. n : k - 1 \in 0 .. n
    OBVIOUS
  <2>2. QED
    BY <1>1, <1>10, <2>1
<1>12. QED
  BY <1>5, <1>9, <1>10, <1>11 DEF AppliedBySteps

\* Without the set: all of them are renderers.
AppliedAlong(x, q, n, h) ==
    /\ \A k \in 0 .. n : IsRenderer(h[k])
    /\ h[0] = x
    /\ \A k \in 1 .. n : h[k] = Apply(h[k - 1], q[k])
    /\ Applied(x, q) = h[n]

LEMMA AppliedChain ==
  ASSUME NEW x, IsRenderer(x), NEW q, NEW n, CommandList(q, n)
  PROVE  \E h : AppliedAlong(x, q, n, h)
<1>1. AppliedBySteps(x, q, n)
  BY AppliedSteps
<1>2. PICK h \in [0 .. n -> MadeOf(x, q)] : /\ h[0] = x
                                            /\ \A k \in 1 .. n : h[k] = Apply(h[k - 1], q[k])
                                            /\ Applied(x, q) = h[n]
  BY <1>1 DEF AppliedBySteps
<1>3. \A k \in 0 .. n : IsRenderer(h[k])
  BY DEF MadeOf
<1>4. QED
  BY <1>2, <1>3 DEF AppliedAlong

\* One command more at the end, or at the beginning.
LEMMA AppliedAppend ==
  ASSUME NEW x, IsRenderer(x), NEW q, NEW n, CommandList(q, n), NEW q2, CommandList(q2, n + 1),
         \A k \in 1 .. n : q2[k] = q[k]
  PROVE  Applied(x, q2) = Apply(Applied(x, q), q2[n + 1]) /\ IsRenderer(Applied(x, q))
<1>1. PICK h : AppliedAlong(x, q, n, h)
  BY AppliedChain
<1>2. PICK g : AppliedAlong(x, q2, n + 1, g)
  BY AppliedChain
<1>3. n \in Nat
  BY DEF CommandList
<1>4. h[0] = g[0] /\ \A k \in 1 .. n : h[k] = Apply(h[k - 1], q[k]) /\ g[k] = Apply(g[k - 1], q[k])
  BY <1>1, <1>2, <1>3 DEF AppliedAlong
<1>5. \A k \in 0 .. n : h[k] = g[k]
  BY <1>3, <1>4, SameIterations
<1>6. n \in 0 .. n /\ n + 1 \in 1 .. n + 1 /\ (n + 1) - 1 = n
  BY <1>3
<1>7. g[n + 1] = Apply(g[(n + 1) - 1], q2[n + 1]) /\ Applied(x, q2) = g[n + 1]
  BY <1>2, <1>6 DEF AppliedAlong
<1>8. Applied(x, q) = h[n] /\ IsRenderer(h[n])
  BY <1>1, <1>6 DEF AppliedAlong
<1>9. QED
  BY <1>5, <1>6, <1>7, <1>8

\* The first command, and then the others.
LEMMA AppliedTail ==
  ASSUME NEW x, IsRenderer(x), NEW q, NEW n, CommandList(q, n + 1), NEW q2, CommandList(q2, n),
         \A k \in 1 .. n : q2[k] = q[k + 1]
  PROVE  Applied(x, q) = Applied(Apply(x, q[1]), q2)
<1>1. n \in Nat /\ n + 1 \in Nat /\ 1 \in 1 .. n + 1
  BY DEF CommandList
<1>2. PICK y : y = Apply(x, q[1]) /\ IsRenderer(y)
  BY <1>1, ApplyTyped DEF CommandList
<1>3. PICK h : AppliedAlong(x, q, n + 1, h)
  BY AppliedChain
<1>4. PICK g : AppliedAlong(y, q2, n, g)
  BY <1>2, AppliedChain
<1>5. PICK f : f = [k \in 0 .. n |-> h[k + 1]]
  OBVIOUS
<1>6. h[1] = Apply(h[1 - 1], q[1]) /\ h[0] = x
  BY <1>1, <1>3 DEF AppliedAlong
<1>7. f[0] = g[0]
  BY <1>1, <1>2, <1>4, <1>5, <1>6 DEF AppliedAlong
<1>8. \A k \in 1 .. n : f[k] = Apply(f[k - 1], q2[k])
  <2>1. ASSUME NEW k \in 1 .. n
        PROVE  f[k] = Apply(f[k - 1], q2[k])
    <3>1. k + 1 \in 1 .. n + 1 /\ (k + 1) - 1 = k /\ k \in 0 .. n /\ k - 1 \in 0 .. n /\ (k - 1) + 1 = k
      BY <1>1
    <3>2. h[k + 1] = Apply(h[(k + 1) - 1], q[k + 1])
      BY <1>3, <3>1 DEF AppliedAlong
    <3>3. QED
      BY <1>5, <3>1, <3>2
  <2>2. QED
    BY <2>1
<1>9. \A k \in 1 .. n : g[k] = Apply(g[k - 1], q2[k])
  BY <1>4 DEF AppliedAlong
<1>10. \A k \in 0 .. n : f[k] = g[k]
  BY <1>1, <1>7, <1>8, <1>9, SameIterations
<1>11. n \in 0 .. n /\ Applied(y, q2) = g[n] /\ Applied(x, q) = h[n + 1]
  BY <1>1, <1>3, <1>4 DEF AppliedAlong
<1>12. QED
  BY <1>2, <1>5, <1>10, <1>11

-----------------------------------------------------------------------------
(* Variables that differ only in some places *)

\* Two sets of variables that differ only where O says.
Alike(O, a, b) ==
    /\ a.panicked = b.panicked
    /\ \A k \in Kinds : /\ Len(a[k]) = Len(b[k])
                        /\ \A i \in 1 .. Len(a[k]) : <<k, i - 1>> \notin O => a[k][i] = b[k][i]

\* The same variables with zeros where O says.
Masked(O, st) ==
    [k \in DOMAIN st |->
        IF k = "panicked" THEN st[k]
        ELSE [i \in DOMAIN st[k] |-> IF <<k, i - 1>> \in O THEN 0 ELSE st[k][i]]]

\* Its lists are as long, and equal elsewhere.
LEMMA MaskedParts ==
  ASSUME NEW O, NEW st \in Variables
  PROVE  /\ DOMAIN Masked(O, st) = Kinds \cup {"panicked"}
         /\ Masked(O, st)["panicked"] = st.panicked
         /\ \A k \in Kinds : /\ DOMAIN Masked(O, st)[k] = 1 .. Len(st[k])
                             /\ \A i \in 1 .. Len(st[k]) :
                                    Masked(O, st)[k][i] = IF <<k, i - 1>> \in O THEN 0 ELSE st[k][i]
<1>1. DOMAIN st = Kinds \cup {"panicked"} /\ "panicked" \notin Kinds
  BY DEF Variables, Kinds
<1>2. \A k \in Kinds : DOMAIN st[k] = 1 .. Len(st[k])
  BY VariablesOfKind
<1>3. \A k \in Kinds : Masked(O, st)[k] = [i \in 1 .. Len(st[k]) |-> IF <<k, i - 1>> \in O THEN 0 ELSE st[k][i]]
  BY <1>1, <1>2 DEF Masked
<1>4. QED
  BY <1>1, <1>3 DEF Masked

\* Two sets of variables are masked to the same exactly if they are alike.
LEMMA MaskedAlike ==
  ASSUME NEW O, NEW a \in Variables, NEW b \in Variables
  PROVE  Masked(O, a) = Masked(O, b) <=> Alike(O, a, b)
<1>1. \A k \in Kinds : Len(a[k]) \in Nat /\ Len(b[k]) \in Nat
  BY VariablesOfKind
<1>2. ASSUME Masked(O, a) = Masked(O, b)
      PROVE  Alike(O, a, b)
  <2>1. a.panicked = b.panicked
    BY <1>2, MaskedParts
  <2>2. ASSUME NEW k \in Kinds
        PROVE  Len(a[k]) = Len(b[k]) /\ \A i \in 1 .. Len(a[k]) : <<k, i - 1>> \notin O => a[k][i] = b[k][i]
    <3>1. 1 .. Len(a[k]) = 1 .. Len(b[k])
      BY <1>2, MaskedParts
    <3>2. Len(a[k]) = Len(b[k])
      BY <1>1, <3>1
    <3>3. QED
      BY <1>2, <3>2, MaskedParts
  <2>3. QED
    BY <2>1, <2>2 DEF Alike
<1>3. ASSUME Alike(O, a, b)
      PROVE  Masked(O, a) = Masked(O, b)
  <2>1. ASSUME NEW k \in Kinds
        PROVE  Masked(O, a)[k] = Masked(O, b)[k]
    <3>1. PICK f, g : f = Masked(O, a)[k] /\ g = Masked(O, b)[k]
      OBVIOUS
    <3>2. DOMAIN a[k] = 1 .. Len(a[k]) /\ DOMAIN b[k] = 1 .. Len(a[k])
      BY <1>3, VariablesOfKind DEF Alike
    <3>3. k \in DOMAIN a /\ k \in DOMAIN b /\ k # "panicked"
      BY VariablesOfKind
    <3>4. f = [i \in 1 .. Len(a[k]) |-> IF <<k, i - 1>> \in O THEN 0 ELSE a[k][i]]
      BY <3>1, <3>2, <3>3 DEF Masked
    <3>5. g = [i \in 1 .. Len(a[k]) |-> IF <<k, i - 1>> \in O THEN 0 ELSE b[k][i]]
      BY <3>1, <3>2, <3>3 DEF Masked
    <3>6. \A i \in 1 .. Len(a[k]) : <<k, i - 1>> \notin O => a[k][i] = b[k][i]
      BY <1>3 DEF Alike
    <3>7. QED
      BY <3>1, <3>4, <3>5, <3>6
  <2>2. DOMAIN a = Kinds \cup {"panicked"} /\ DOMAIN b = Kinds \cup {"panicked"}
    BY DEF Variables, Kinds
  <2>3. Masked(O, a)["panicked"] = Masked(O, b)["panicked"]
    BY <1>3, MaskedParts DEF Alike
  <2>4. Masked(O, a) = [k \in Kinds \cup {"panicked"} |-> Masked(O, a)[k]]
    BY <2>2 DEF Masked
  <2>5. Masked(O, b) = [k \in Kinds \cup {"panicked"} |-> Masked(O, b)[k]]
    BY <2>2 DEF Masked
  <2>6. PICK f, g : f = Masked(O, a) /\ g = Masked(O, b)
    OBVIOUS
  <2>7. QED
    BY <2>1, <2>3, <2>4, <2>5, <2>6
<1>4. QED
  BY <1>2, <1>3

\* Settable, which the property compares, masks what a renderer owns.
LEMMA SettableAlike ==
  ASSUME NEW x, IsRenderer(x), NEW y, IsRenderer(y)
  PROVE  Settable(x) = Settable(y) <=> x.blocks = y.blocks /\ Alike(Owned(x), x.st, y.st)
<1>1. ASSUME NEW z, IsRenderer(z)
      PROVE  Settable(z) = [st |-> Masked(Owned(z), z.st), blocks |-> z.blocks]
  <2>1. z = [st |-> z.st, blocks |-> z.blocks]
    BY <1>1, RendererParts
  <2>2. \A m : [z EXCEPT !.st = m] = [st |-> m, blocks |-> z.blocks]
    BY <2>1
  <2>3. Settable(z) = [z EXCEPT !.st = Masked(Owned(z), z.st)]
    BY Zenon DEF Settable, Masked
  <2>4. QED
    BY <2>2, <2>3
<1>2. x.st \in Variables /\ y.st \in Variables
  BY RendererParts
<1>3. PICK s, t : s = Masked(Owned(x), x.st) /\ t = Masked(Owned(y), y.st)
  OBVIOUS
<1>4. Settable(x) = Settable(y) <=> s = t /\ x.blocks = y.blocks
  BY <1>1, <1>3
<1>5. x.blocks = y.blocks => Owned(x) = Owned(y)
  BY DEF Owned
<1>6. QED
  BY <1>2, <1>3, <1>4, <1>5, MaskedAlike

LEMMA AlikeTransitive ==
  ASSUME NEW O, NEW a, NEW b, NEW c, Alike(O, a, b), Alike(O, b, c)
  PROVE  Alike(O, a, c)
BY DEF Alike

LEMMA AlikeItself ==
  ASSUME NEW O, NEW a
  PROVE  Alike(O, a, a)
BY DEF Alike

\* What setting a variable does.
LEMMA VariableSet ==
  ASSUME NEW st \in Variables, NEW kind \in Kinds, NEW i \in Nat, NEW v
  PROVE  /\ InRange(st, kind, i) =>
               /\ SetVariable(st, kind, i, v).panicked = st.panicked
               /\ \A k \in Kinds :
                     /\ Len(SetVariable(st, kind, i, v)[k]) = Len(st[k])
                     /\ \A j \in 1 .. Len(st[k]) :
                           SetVariable(st, kind, i, v)[k][j] = IF k = kind /\ j = i + 1 THEN v ELSE st[k][j]
         /\ ~InRange(st, kind, i) =>
               /\ SetVariable(st, kind, i, v).panicked = (st.panicked \/ kind # "scalar")
               /\ \A k \in Kinds : SetVariable(st, kind, i, v)[k] = st[k]
<1>1. DOMAIN st = Kinds \cup {"panicked"} /\ "panicked" \notin Kinds /\ st.panicked \in BOOLEAN
  BY DEF Variables, Kinds
<1>2. ASSUME InRange(st, kind, i)
      PROVE  /\ SetVariable(st, kind, i, v).panicked = st.panicked
             /\ \A k \in Kinds :
                   /\ Len(SetVariable(st, kind, i, v)[k]) = Len(st[k])
                   /\ \A j \in 1 .. Len(st[k]) :
                         SetVariable(st, kind, i, v)[k][j] = IF k = kind /\ j = i + 1 THEN v ELSE st[k][j]
  <2>1. PICK s : s = [st EXCEPT ![kind][i + 1] = v]
    OBVIOUS
  <2>2. SetVariable(st, kind, i, v) = s
    BY <1>2, <2>1 DEF SetVariable, set_scalar
  <2>3. s.panicked = st.panicked
    BY <1>1, <2>1
  <2>4. \A k \in Kinds : k # kind => s[k] = st[k]
    BY <1>1, <2>1
  <2>5. s[kind] = [st[kind] EXCEPT ![i + 1] = v]
    BY <1>1, <2>1
  <2>6. PICK q \in Seq(Values[kind]) : q = st[kind]
    BY VariablesOfKind
  <2>7. DOMAIN q = 1 .. Len(q) /\ Len(q) \in Nat
    BY LenProperties
  <2>8. PICK q2 : q2 = [q EXCEPT ![i + 1] = v]
    OBVIOUS
  <2>9. DOMAIN q2 = 1 .. Len(q) /\ \A j \in 1 .. Len(q) : q2[j] = IF j = i + 1 THEN v ELSE q[j]
    BY <2>7, <2>8
  <2>10. Len(q2) = Len(q)
    <3>1. q2 \in [1 .. Len(q) -> {q2[j] : j \in 1 .. Len(q)}]
      BY <2>8, <2>9
    <3>2. QED
      BY <2>7, <2>9, <3>1
  <2>11. QED
    BY <2>2, <2>3, <2>4, <2>5, <2>6, <2>8, <2>9, <2>10
<1>3. ASSUME ~InRange(st, kind, i)
      PROVE  /\ SetVariable(st, kind, i, v).panicked = (st.panicked \/ kind # "scalar")
             /\ \A k \in Kinds : SetVariable(st, kind, i, v)[k] = st[k]
  <2>1. CASE kind = "scalar"
    BY <1>1, <1>3, <2>1 DEF SetVariable, set_scalar
  <2>2. CASE kind # "scalar"
    <3>1. SetVariable(st, kind, i, v) = Panicked(st)
      BY <1>3, <2>2 DEF SetVariable
    <3>2. Panicked(st).panicked /\ \A k \in Kinds : Panicked(st)[k] = st[k]
      BY <1>1 DEF Panicked
    <3>3. QED
      BY <1>1, <2>2, <3>1, <3>2
  <2>3. QED
    BY <2>1, <2>2
<1>4. QED
  BY <1>2, <1>3

\* Setting a variable keeps two sets alike; setting an owned one changes nothing else.
LEMMA AlikeSet ==
  ASSUME NEW O, NEW a \in Variables, NEW b \in Variables, Alike(O, a, b),
         NEW kind \in Kinds, NEW i \in Nat, NEW v
  PROVE  Alike(O, SetVariable(a, kind, i, v), SetVariable(b, kind, i, v))
<1>1. InRange(a, kind, i) <=> InRange(b, kind, i)
  BY DEF Alike, InRange
<1>2. PICK s, t : s = SetVariable(a, kind, i, v) /\ t = SetVariable(b, kind, i, v)
  OBVIOUS
<1>3. CASE InRange(a, kind, i)
  <2>1. s.panicked = a.panicked /\ t.panicked = b.panicked
    BY <1>1, <1>2, <1>3, VariableSet
  <2>2. ASSUME NEW k \in Kinds
        PROVE  Len(s[k]) = Len(t[k]) /\ \A j \in 1 .. Len(s[k]) : <<k, j - 1>> \notin O => s[k][j] = t[k][j]
    <3>1. /\ Len(s[k]) = Len(a[k]) /\ Len(t[k]) = Len(b[k])
          /\ \A j \in 1 .. Len(a[k]) : s[k][j] = IF k = kind /\ j = i + 1 THEN v ELSE a[k][j]
          /\ \A j \in 1 .. Len(b[k]) : t[k][j] = IF k = kind /\ j = i + 1 THEN v ELSE b[k][j]
      BY <1>1, <1>2, <1>3, VariableSet
    <3>2. Len(a[k]) = Len(b[k]) /\ \A j \in 1 .. Len(a[k]) : <<k, j - 1>> \notin O => a[k][j] = b[k][j]
      BY DEF Alike
    <3>3. QED
      BY <3>1, <3>2
  <2>3. QED
    BY <1>2, <2>1, <2>2 DEF Alike
<1>4. CASE ~InRange(a, kind, i)
  <2>1. /\ s.panicked = (a.panicked \/ kind # "scalar") /\ t.panicked = (b.panicked \/ kind # "scalar")
        /\ \A k \in Kinds : s[k] = a[k] /\ t[k] = b[k]
    BY <1>1, <1>2, <1>4, VariableSet
  <2>2. QED
    BY <1>2, <2>1 DEF Alike
<1>5. QED
  BY <1>3, <1>4

LEMMA AlikeOwned ==
  ASSUME NEW O, NEW st \in Variables, NEW kind \in Kinds, NEW i \in Nat, NEW v, <<kind, i>> \in O
  PROVE  IF InRange(st, kind, i) \/ kind = "scalar" THEN Alike(O, st, SetVariable(st, kind, i, v))
         ELSE SetVariable(st, kind, i, v).panicked
<1>1. PICK s : s = SetVariable(st, kind, i, v)
  OBVIOUS
<1>2. CASE InRange(st, kind, i)
  <2>1. s.panicked = st.panicked
    BY <1>1, <1>2, VariableSet
  <2>2. ASSUME NEW k \in Kinds
        PROVE  Len(st[k]) = Len(s[k]) /\ \A j \in 1 .. Len(st[k]) : <<k, j - 1>> \notin O => st[k][j] = s[k][j]
    <3>1. /\ Len(s[k]) = Len(st[k])
          /\ \A j \in 1 .. Len(st[k]) : s[k][j] = IF k = kind /\ j = i + 1 THEN v ELSE st[k][j]
      BY <1>1, <1>2, VariableSet
    <3>2. (i + 1) - 1 = i
      OBVIOUS
    <3>3. QED
      BY <3>1, <3>2
  <2>3. QED
    BY <1>1, <1>2, <2>1, <2>2 DEF Alike
<1>3. CASE ~InRange(st, kind, i)
  <2>1. s.panicked = (st.panicked \/ kind # "scalar") /\ \A k \in Kinds : s[k] = st[k]
    BY <1>1, <1>3, VariableSet
  <2>2. st.panicked \in BOOLEAN
    BY DEF Variables
  <2>3. QED
    BY <1>1, <1>3, <2>1, <2>2 DEF Alike
<1>4. QED
  BY <1>2, <1>3

\* A scalar that is set never panics.
LEMMA ScalarOwned ==
  ASSUME NEW O, NEW st \in Variables, NEW i \in Nat, NEW v \in Int, <<"scalar", i>> \in O
  PROVE  Alike(O, st, set_scalar(st, i, v)) /\ set_scalar(st, i, v) \in Variables
<1>1. "scalar" \in Kinds /\ set_scalar(st, i, v) = SetVariable(st, "scalar", i, v)
  BY DEF SetVariable, Kinds
<1>2. QED
  BY <1>1, AlikeOwned, set_scalarTyped

-----------------------------------------------------------------------------
(* What commands and drawing do to renderers that differ in what they own *)

\* A command does the same to renderers that differ in what they own.
LEMMA ApplyAlike ==
  ASSUME NEW x, IsRenderer(x), NEW y, IsRenderer(y), NEW m, IsCommand(m), Settable(x) = Settable(y)
  PROVE  Settable(Apply(x, m)) = Settable(Apply(y, m))
<1>1. x.blocks = y.blocks /\ Alike(Owned(x), x.st, y.st)
  BY SettableAlike
<1>2. /\ x.st \in Variables /\ y.st \in Variables
      /\ x = [st |-> x.st, blocks |-> x.blocks] /\ y = [st |-> y.st, blocks |-> y.blocks]
  BY RendererParts
<1>3. ASSUME NEW s \in Variables, NEW t \in Variables, Alike(Owned(x), s, t)
      PROVE  Settable([st |-> s, blocks |-> x.blocks]) = Settable([st |-> t, blocks |-> y.blocks])
  <2>1. PICK a, b : a = [st |-> s, blocks |-> x.blocks] /\ b = [st |-> t, blocks |-> y.blocks]
    OBVIOUS
  <2>2. IsRenderer(a) /\ IsRenderer(b)
    BY <1>3, <2>1, RendererParts
  <2>3. a.blocks = b.blocks /\ a.st = s /\ b.st = t /\ Owned(a) = Owned(x)
    BY <1>1, <2>1 DEF Owned
  <2>4. QED
    BY <1>3, <2>1, <2>2, <2>3, SettableAlike
<1>4. CASE IsConfig(m)
  <2>1. PICK obj : m = Config(obj)
    BY <1>4 DEF IsConfig
  <2>2. Apply(x, m) = update_cfg(x, obj) /\ Apply(y, m) = update_cfg(y, obj)
    BY <2>1, ApplyConfig
  <2>3. CASE ConfigFits(obj)
    <3>1. StanzasFit(obj.vars)
      BY <2>3 DEF ConfigFits
    <3>2. DOMAIN x.st = DOMAIN y.st /\ x.st.panicked = y.st.panicked
      BY <1>1, <1>2 DEF Alike, Variables
    <3>3. PICK stanzas : stanzas = obj.vars
      OBVIOUS
    <3>4. from_obj(x.st, stanzas) = from_obj(y.st, stanzas)
      BY <3>1, <3>2, <3>3, Zenon DEF from_obj
    <3>5. update_cfg(x, obj) = update_cfg(y, obj)
      BY <2>3, <3>3, <3>4 DEF update_cfg
    <3>6. QED
      BY <2>2, <3>5
  <2>4. CASE ~ConfigFits(obj)
    <3>1. /\ update_cfg(x, obj) = [st |-> Panicked(x.st), blocks |-> x.blocks]
          /\ update_cfg(y, obj) = [st |-> Panicked(y.st), blocks |-> y.blocks]
      BY <1>2, <2>4 DEF update_cfg
    <3>2. \A k \in Kinds : Panicked(x.st)[k] = x.st[k] /\ Panicked(y.st)[k] = y.st[k]
      BY <1>2 DEF Panicked, Kinds, Variables
    <3>3. Panicked(x.st) \in Variables /\ Panicked(y.st) \in Variables
      BY <1>2, PanickedTyped
    <3>4. Panicked(x.st).panicked = Panicked(y.st).panicked
      BY <1>2 DEF Panicked, Variables
    <3>5. Alike(Owned(x), Panicked(x.st), Panicked(y.st))
      BY <1>1, <3>2, <3>4 DEF Alike
    <3>6. QED
      BY <1>3, <2>2, <3>1, <3>3, <3>5
  <2>5. QED
    BY <2>3, <2>4
<1>5. CASE IsSetting(m)
  <2>1. PICK kind \in Kinds, i \in Nat : \E w \in Values[kind] : m = VarMsg(kind, i, w)
    BY <1>5 DEF IsSetting
  <2>2. PICK w \in Values[kind] : m = VarMsg(kind, i, w)
    BY <2>1
  <2>3. /\ Apply(x, m) = [st |-> SetVariable(x.st, kind, i, w), blocks |-> x.blocks]
        /\ Apply(y, m) = [st |-> SetVariable(y.st, kind, i, w), blocks |-> y.blocks]
    BY <1>2, <2>2, ApplySetting
  <2>4. SetVariable(x.st, kind, i, w) \in Variables /\ SetVariable(y.st, kind, i, w) \in Variables
    BY <1>2, SetVariableTyped
  <2>5. Alike(Owned(x), SetVariable(x.st, kind, i, w), SetVariable(y.st, kind, i, w))
    BY <1>1, <1>2, AlikeSet
  <2>6. QED
    BY <1>3, <2>3, <2>4, <2>5
<1>6. QED
  BY <1>4, <1>5 DEF IsCommand

\* And so does a list of commands.
LEMMA AppliedAlike ==
  ASSUME NEW x, IsRenderer(x), NEW y, IsRenderer(y), NEW q, NEW n, CommandList(q, n),
         Settable(x) = Settable(y)
  PROVE  Settable(Applied(x, q)) = Settable(Applied(y, q))
<1>1. PICK h : AppliedAlong(x, q, n, h)
  BY AppliedChain
<1>2. PICK g : AppliedAlong(y, q, n, g)
  BY AppliedChain
<1>3. n \in Nat /\ \A k \in 1 .. n : IsCommand(q[k])
  BY DEF CommandList
<1>4. \A k \in 0 .. n : IsRenderer(h[k]) /\ IsRenderer(g[k])
  BY <1>1, <1>2 DEF AppliedAlong
<1>5. h[0] = x /\ g[0] = y /\ Applied(x, q) = h[n] /\ Applied(y, q) = g[n]
  BY <1>1, <1>2 DEF AppliedAlong
<1>6. \A k \in 1 .. n : h[k] = Apply(h[k - 1], q[k]) /\ g[k] = Apply(g[k - 1], q[k])
  BY <1>1, <1>2 DEF AppliedAlong
<1> DEFINE a == [k \in 0 .. n |-> Settable(h[k])]
           b == [k \in 0 .. n |-> Settable(g[k])]
<1>7. ASSUME NEW k \in 1 .. n, a[k - 1] = b[k - 1]
      PROVE  a[k] = b[k]
  <2>1. k - 1 \in 0 .. n /\ k \in 0 .. n
    BY <1>3
  <2>2. Settable(h[k - 1]) = Settable(g[k - 1]) /\ IsRenderer(h[k - 1]) /\ IsRenderer(g[k - 1])
    BY <1>4, <1>7, <2>1
  <2>3. Settable(Apply(h[k - 1], q[k])) = Settable(Apply(g[k - 1], q[k]))
    BY <1>3, <2>2, ApplyAlike
  <2>4. QED
    BY <1>6, <2>1, <2>3
<1>8. a[0] = b[0] /\ n \in 0 .. n
  BY <1>3, <1>5
<1>9. a[n] = b[n]
  <2> HIDE DEF a, b
  <2>1. \A k \in 0 .. n : a[k] = b[k]
    BY <1>3, <1>7, <1>8, SameIterations
  <2>2. QED
    BY <1>8, <2>1
<1>10. QED
  BY <1>5, <1>8, <1>9

\* Drawing writes only what the renderer owns, unless it panics.
Coordinates == {<<"scalar", i>> : i \in 0 .. 2}

\* Placing writes the three coordinates, a block its output.
LEMMA PlacedAlike ==
  ASSUME NEW O, Coordinates \subseteq O, NEW st \in Variables, NEW num \in Int, NEW x \in Int, NEW y \in Int
  PROVE  Alike(O, st, Placed(st, num, x, y))
<1>1. ONE \in Int
  BY OneAssumption DEF OneAssumption
<1>2. num * ONE \in Int /\ x * ONE \in Int /\ y * ONE \in Int
  BY <1>1
<1>3. PICK a \in Int, b \in Int, c \in Int : a = F32(num * ONE) /\ b = x * ONE /\ c = y * ONE
  BY <1>2, Arithmetic
<1>4. <<"scalar", 0>> \in O /\ <<"scalar", 1>> \in O /\ <<"scalar", 2>> \in O
  BY DEF Coordinates
<1>5. PICK framed \in Variables : /\ framed = IF x = 0 /\ y = 0 THEN set_scalar(st, 0, a) ELSE st
                                  /\ Alike(O, st, framed)
  BY <1>4, ScalarOwned, AlikeItself
<1>6. PICK column \in Variables : /\ column = IF y = 0 THEN set_scalar(framed, 1, b) ELSE framed
                                  /\ Alike(O, framed, column)
  BY <1>4, ScalarOwned, AlikeItself
<1>7. Alike(O, column, set_scalar(column, 2, c))
  BY <1>4, ScalarOwned
<1>8. Placed(st, num, x, y) = set_scalar(column, 2, c)
  BY <1>3, <1>5, <1>6 DEF Placed
<1>9. Alike(O, st, column)
  BY <1>5, <1>6, AlikeTransitive
<1>10. QED
  BY <1>7, <1>8, <1>9, AlikeTransitive

LEMMA executeAlike ==
  ASSUME NEW O, NEW st \in Variables, NEW b, IsBlock(b), Writes(b) \in O
  PROVE  /\ execute(st, b).panicked \/ Alike(O, st, execute(st, b))
         /\ st.panicked => execute(st, b).panicked
<1>1. CASE st.panicked \/ ~Computes(st, b)
  BY <1>1, PanickedTyped DEF execute
<1>2. CASE ~st.panicked /\ Computes(st, b)
  <2>1. Signatures[b.type].output \in Kinds /\ b.o \in Nat
    BY BlockFields, OutputKinds DEF Kinds
  <2>2. <<Signatures[b.type].output, b.o>> \in O
    BY DEF Writes
  <2>3. execute(st, b) = SetVariable(st, Signatures[b.type].output, b.o, Computed(st, b))
    BY <1>2 DEF execute
  <2>4. PICK kind \in Kinds, i \in Nat : kind = Signatures[b.type].output /\ i = b.o
    BY <2>1
  <2>5. PICK v : v = Computed(st, b)
    OBVIOUS
  <2>6. SetVariable(st, kind, i, v).panicked \/ Alike(O, st, SetVariable(st, kind, i, v))
    BY <2>2, <2>4, <2>5, AlikeOwned
  <2>7. QED
    BY <1>2, <2>3, <2>4, <2>5, <2>6
<1>3. QED
  BY <1>1, <1>2

\* Executing the blocks writes their outputs.
LEMMA ExecutedAlike ==
  ASSUME NEW O, NEW st \in Variables, NEW q, NEW n, BlockList(q, n), \A k \in 1 .. n : Writes(q[k]) \in O
  PROVE  /\ Executed(st, q).panicked \/ Alike(O, st, Executed(st, q))
         /\ st.panicked => Executed(st, q).panicked
<1>1. ExecutedBySteps(st, q, n)
  BY ExecutedSteps
<1>2. PICK h \in [0 .. n -> Variables] : /\ h[0] = st
                                         /\ \A k \in 1 .. n : h[k] = execute(h[k - 1], q[k])
                                         /\ Executed(st, q) = h[n]
  BY <1>1 DEF ExecutedBySteps
<1>3. n \in Nat /\ \A k \in 1 .. n : IsBlock(q[k])
  BY DEF BlockList
<1> DEFINE T == {k \in 0 .. n : (h[k].panicked \/ Alike(O, st, h[k])) /\ (st.panicked => h[k].panicked)}
<1>4. 0 \in T
  BY <1>2, <1>3, AlikeItself
<1>5. ASSUME NEW k \in 0 .. n - 1, k \in T
      PROVE  k + 1 \in T
  <2>1. k + 1 \in 1 .. n /\ (k + 1) - 1 = k /\ k \in 0 .. n /\ k + 1 \in 0 .. n
    BY <1>3
  <2>2. PICK s, b : s = h[k] /\ b = q[k + 1] /\ s \in Variables /\ IsBlock(b) /\ Writes(b) \in O
    BY <1>3, <2>1
  <2>3. h[k + 1] = execute(s, b)
    BY <1>2, <2>1, <2>2
  <2>4. s.panicked \/ Alike(O, st, s)
    BY <1>5, <2>2
  <2>5. execute(s, b).panicked \/ Alike(O, s, execute(s, b))
    BY <2>2, executeAlike
  <2>6. s.panicked => execute(s, b).panicked
    BY <2>2, executeAlike
  <2>7. execute(s, b).panicked \/ Alike(O, st, execute(s, b))
    BY <2>4, <2>5, <2>6, AlikeTransitive
  <2>8. QED
    BY <1>5, <2>1, <2>2, <2>3, <2>6, <2>7
<1>6. n \in T
  <2> HIDE DEF T
  <2>1. \A k \in 0 .. n : k \in T
    BY <1>3, <1>4, <1>5, UpTo
  <2>2. QED
    BY <1>3, <2>1
<1>7. QED
  BY <1>2, <1>6

-----------------------------------------------------------------------------
(* Drawing undoes no command *)

\* From a pixel to a frame.
LEMMA PixelStateAlike ==
  ASSUME NEW x, IsRenderer(x), NEW num \in Int, NEW col \in Int, NEW row \in Int
  PROVE  /\ PixelState(x, num, col, row).panicked \/ Alike(Owned(x), x.st, PixelState(x, num, col, row))
         /\ x.st.panicked => PixelState(x, num, col, row).panicked
<1>1. x.st \in Variables /\ BlockList(x.blocks, Len(x.blocks))
  BY RendererParts
<1>2. PICK n \in Nat : n = Len(x.blocks)
  BY <1>1 DEF BlockList
<1>3. PICK q : q = x.blocks /\ BlockList(q, n) /\ \A k \in 1 .. n : Writes(q[k]) \in Owned(x)
  BY <1>1, <1>2 DEF BlockList, Owned, Range
<1>4. Coordinates \subseteq Owned(x)
  BY DEF Coordinates, Owned
<1>5. PICK base \in Variables : base = Placed(x.st, num, col, row) /\ Alike(Owned(x), x.st, base)
  BY <1>1, <1>4, PlacedTyped, PlacedAlike
<1>6. PICK st \in Variables : st = Executed(base, q)
  BY <1>3, ExecutedTyped
<1>7. (st.panicked \/ Alike(Owned(x), base, st)) /\ (base.panicked => st.panicked)
  BY <1>3, <1>6, ExecutedAlike
<1>8. PixelState(x, num, col, row) = IF InRange(st, "color", 0) THEN st ELSE Panicked(st)
  BY <1>3, <1>5, <1>6 DEF PixelState, Executed
<1>9. base.panicked = x.st.panicked
  BY <1>5 DEF Alike
<1>10. st.panicked \/ Alike(Owned(x), x.st, st)
  BY <1>5, <1>7, AlikeTransitive
<1>11. QED
  BY <1>7, <1>8, <1>9, <1>10, PanickedTyped

LEMMA DrawNthAlike ==
  ASSUME NEW x, IsRenderer(x), NEW num \in Int, NEW drawn \in Drawings, NEW at \in Places
  PROVE  DrawNth(x, num, drawn, at).st.panicked \/ Alike(Owned(x), drawn.st, DrawNth(x, num, drawn, at).st)
<1>1. CASE drawn.st.panicked
  BY <1>1 DEF DrawNth
<1>2. CASE ~drawn.st.panicked
  <2>1. drawn.st \in Variables
    BY DEF Drawings
  <2>2. at[1] \in Int /\ at[2] \in Int
    BY Layout DEF Places, Columns, Rows
  <2>3. PICK z : z = [x EXCEPT !.st = drawn.st]
    OBVIOUS
  <2>4. z = [st |-> drawn.st, blocks |-> x.blocks]
    BY <2>3, RendererParts
  <2>5. IsRenderer(z) /\ z.st = drawn.st /\ Owned(z) = Owned(x)
    BY <2>1, <2>4, RendererParts DEF Owned
  <2>6. DrawNth(x, num, drawn, at) = DrawPixel(z, drawn.fb, num, at[1], at[2])
    BY <1>2, <2>3 DEF DrawNth
  <2>7. DrawPixel(z, drawn.fb, num, at[1], at[2]).st = PixelState(z, num, at[1], at[2])
    BY DEF DrawPixel
  <2>8. QED
    BY <2>2, <2>5, <2>6, <2>7, PixelStateAlike
<1>3. QED
  BY <1>1, <1>2

LEMMA DrawFrameAlike ==
  ASSUME NEW x, IsRenderer(x), NEW buffer \in Frames, NEW num \in Int
  PROVE  DrawFrame(x, buffer, num).st.panicked \/ Alike(Owned(x), x.st, DrawFrame(x, buffer, num).st)
<1>1. FrameBySteps(x, buffer, num)
  BY FrameSteps
<1>2. PICK h \in [0 .. PIXEL_COUNT -> Drawings] :
          /\ h[0] = [st |-> x.st, fb |-> buffer]
          /\ \A k \in 1 .. PIXEL_COUNT : h[k] = DrawNth(x, num, h[k - 1], DrawingOrder[k])
          /\ DrawFrame(x, buffer, num) = h[PIXEL_COUNT]
  BY <1>1 DEF FrameBySteps
<1>3. PIXEL_COUNT \in Nat /\ \A k \in 1 .. PIXEL_COUNT : DrawingOrder[k] \in Places
  BY Layout, VisitedPlaces
<1> DEFINE T == {k \in 0 .. PIXEL_COUNT : h[k].st.panicked \/ Alike(Owned(x), x.st, h[k].st)}
<1>4. 0 \in T
  BY <1>2, <1>3, AlikeItself
<1>5. ASSUME NEW k \in 0 .. PIXEL_COUNT - 1, k \in T
      PROVE  k + 1 \in T
  <2>1. k + 1 \in 1 .. PIXEL_COUNT /\ (k + 1) - 1 = k /\ k \in 0 .. PIXEL_COUNT /\ k + 1 \in 0 .. PIXEL_COUNT
    BY <1>3
  <2>2. PICK d \in Drawings, at \in Places : d = h[k] /\ at = DrawingOrder[k + 1]
    BY <1>3, <2>1
  <2>3. PICK e : e = h[k + 1] /\ e = DrawNth(x, num, d, at)
    BY <1>2, <2>1, <2>2
  <2>4. d.st.panicked \/ Alike(Owned(x), x.st, d.st)
    BY <1>5, <2>2
  <2>5. e.st.panicked \/ Alike(Owned(x), d.st, e.st)
    BY <2>3, DrawNthAlike
  <2>6. d.st.panicked => e.st.panicked
    BY <2>3 DEF DrawNth
  <2>7. e.st.panicked \/ Alike(Owned(x), x.st, e.st)
    BY <2>4, <2>5, <2>6, AlikeTransitive
  <2>8. QED
    BY <2>1, <2>3, <2>7
<1>6. PIXEL_COUNT \in T
  <2> HIDE DEF T
  <2>1. \A k \in 0 .. PIXEL_COUNT : k \in T
    BY <1>3, <1>4, <1>5, UpTo
  <2>2. QED
    BY <1>3, <2>1
<1>7. QED
  BY <1>2, <1>6

\* A frame that is drawn changes nothing a client can set.
LEMMA DrawingSettable ==
  ASSUME NEW x, IsRenderer(x), NEW buffer \in Frames, NEW num \in Int, ~DrawFrame(x, buffer, num).st.panicked
  PROVE  Settable([x EXCEPT !.st = DrawFrame(x, buffer, num).st]) = Settable(x)
<1>1. PICK st : st = DrawFrame(x, buffer, num).st
  OBVIOUS
<1>2. st \in Variables /\ Alike(Owned(x), x.st, st)
  BY <1>1, DrawFrameTyped, DrawFrameAlike DEF Drawings
<1>3. PICK z : z = [x EXCEPT !.st = st]
  OBVIOUS
<1>4. z = [st |-> st, blocks |-> x.blocks]
  BY <1>3, RendererParts
<1>5. IsRenderer(z)
  BY <1>2, <1>4, RendererParts
<1>6. Settable(x) = Settable(z)
  BY <1>2, <1>4, <1>5, SettableAlike
<1>7. QED
  BY <1>1, <1>3, <1>6

-----------------------------------------------------------------------------
\* What waits in the renderer's channel.
LEMMA WaitingCommands ==
  ASSUME NEW ch, ChannelOK(ch), \A i \in DOMAIN ch.unread : IsCommand(ch.unread[i])
  PROVE  CommandList(ch.unread, Len(ch.unread)) /\ ch.unread \in Seq(Commands)
<1>1. ch.unread \in Seq(Commands)
  BY DEF ChannelOK, Channel
<1>2. PICK q \in Seq(Commands) : q = ch.unread
  BY <1>1
<1>3. DOMAIN q = 1 .. Len(q) /\ Len(q) \in Nat
  BY LenProperties
<1>4. QED
  BY <1>2, <1>3 DEF CommandList

\* A command at the end of the channel is applied last.
LEMMA AppendedCommand ==
  ASSUME NEW q \in Seq(Commands), CommandList(q, Len(q)), NEW msg \in Commands, IsCommand(msg)
  PROVE  /\ Append(q, msg)[Len(q) + 1] = msg /\ \A i \in 1 .. Len(q) : Append(q, msg)[i] = q[i]
         /\ CommandList(Append(q, msg), Len(q) + 1)
<1>1. PICK q2 : q2 = Append(q, msg)
  OBVIOUS
<1>2. /\ q2 \in Seq(Commands) /\ Len(q2) = Len(q) + 1 /\ q2[Len(q) + 1] = msg
      /\ \A i \in 1 .. Len(q) : q2[i] = q[i]
  BY <1>1, AppendProperties
<1>3. Len(q) \in Nat /\ \A k \in 1 .. Len(q) : IsCommand(q[k])
  BY DEF CommandList
<1>4. DOMAIN q2 = 1 .. Len(q) + 1
  BY <1>2, LenProperties
<1>5. \A k \in 1 .. Len(q) + 1 : k = Len(q) + 1 \/ k \in 1 .. Len(q)
  BY <1>3
<1>6. \A k \in 1 .. Len(q) + 1 : IsCommand(q2[k])
  BY <1>2, <1>3, <1>5
<1>7. CommandList(q2, Len(q) + 1)
  BY <1>3, <1>4, <1>6 DEF CommandList
<1>8. QED
  BY <1>1, <1>2, <1>7

\* A command is accepted, and wanted; a command leaves the channel, and is applied;
\* drawing changes nothing of either.
LEMMA OrderAccepted ==
  ASSUME TasksInv, TypesInv, NEW msg \in Commands, IsCommand(msg), SendMod(msg),
         CommandsTakeEffectInOrder, UNCHANGED <<workload, mainVars>>
  PROVE  CommandsTakeEffectInOrder'
<1>1. SUFFICES ASSUME program' = "cloud_ceiling", proc' = "running", "mods" \notin overrun'
               PROVE  Settable(want') = Settable(FoldLeft(Apply, r', mods'.unread))
  BY DEF CommandsTakeEffectInOrder
<1>2. program' = program /\ proc' = proc /\ r' = r
  BY DEF program, mainVars
<1>3. "mods" \notin overrun /\ ~Full(mods)
  BY <1>1 DEF SendMod
<1>4. mods' = [mods EXCEPT !.unread = Append(mods.unread, msg)] /\ want' = Apply(want, msg)
  BY <1>1, <1>2, <1>3 DEF SendMod, Sent
<1>5. Settable(want) = Settable(Applied(r, mods.unread))
  BY <1>1, <1>2, <1>3 DEF CommandsTakeEffectInOrder, Applied
<1>6. IsRenderer(r) /\ IsRenderer(want) /\ ChannelOK(mods) /\ \A i \in DOMAIN mods.unread : IsCommand(mods.unread[i])
  BY DEF TypesInv, TypeOK, TasksInv, ChannelsOK, UnreadTyped
<1>7. PICK q \in Seq(Commands) : q = mods.unread /\ CommandList(q, Len(q))
  BY <1>6, WaitingCommands
<1>8. PICK q2, n : /\ q2 = Append(q, msg) /\ n = Len(q) /\ CommandList(q, n)
                   /\ q2[n + 1] = msg /\ \A i \in 1 .. n : q2[i] = q[i]
                   /\ CommandList(q2, n + 1)
  <2>1. /\ Append(q, msg)[Len(q) + 1] = msg /\ \A i \in 1 .. Len(q) : Append(q, msg)[i] = q[i]
        /\ CommandList(Append(q, msg), Len(q) + 1)
    BY <1>7, AppendedCommand
  <2>2. QED
    BY <1>7, <2>1
<1>10. Applied(r, q2) = Apply(Applied(r, q), q2[n + 1]) /\ IsRenderer(Applied(r, q))
  <2>1. IsRenderer(r) /\ CommandList(q, n) /\ CommandList(q2, n + 1)
    BY <1>6, <1>8
  <2>2. \A k \in 1 .. n : q2[k] = q[k]
    BY <1>8
  <2>3. QED
    BY <2>1, <2>2, AppliedAppend, Zenon
<1>11. Settable(Apply(want, msg)) = Settable(Apply(Applied(r, q), msg))
  BY <1>5, <1>6, <1>7, <1>10, ApplyAlike
<1>12. mods'.unread = q2
  <2>1. mods = [unread |-> mods.unread, lagged |-> mods.lagged]
    BY <1>6 DEF ChannelOK, Channel
  <2>2. QED
    BY <1>4, <1>7, <1>8, <2>1
<1>13. Settable(want') = Settable(Applied(r', mods'.unread))
  BY <1>2, <1>4, <1>8, <1>10, <1>11, <1>12
<1>14. QED
  BY <1>13 DEF Applied

LEMMA OrderApplied ==
  ASSUME TasksInv, TypesInv, TypesInv', TasksInv', Main, proc = "running", CommandsTakeEffectInOrder
  PROVE  CommandsTakeEffectInOrder'
<1>1. SUFFICES ASSUME program' = "cloud_ceiling", proc' = "running", "mods" \notin overrun'
               PROVE  Settable(want') = Settable(FoldLeft(Apply, r', mods'.unread))
  BY DEF CommandsTakeEffectInOrder
<1>2. program' = program /\ overrun' = overrun /\ want' = want
  BY DEF Main, history, program
<1>3. Settable(want) = Settable(Applied(r, mods.unread))
  BY <1>1, <1>2 DEF CommandsTakeEffectInOrder, Applied
<1>4. /\ IsRenderer(r) /\ fb \in Frames /\ frame \in Int
      /\ ChannelOK(mods) /\ \A i \in DOMAIN mods.unread : IsCommand(mods.unread[i])
      /\ ChannelOK(mods') /\ \A i \in DOMAIN mods'.unread : IsCommand(mods'.unread[i])
      /\ phase # "recv"
  BY <1>1, <1>2 DEF TypesInv, TypeOK, TasksInv, ChannelsOK, UnreadTyped, Frames
<1>5. PICK q \in Seq(Commands) : q = mods.unread /\ CommandList(q, Len(q))
  BY <1>4, WaitingCommands
<1>6. CASE TakeCommand
  <2>1. HasMessage(mods) /\ mods' = Taken(mods) /\ r' = Apply(r, Head(mods.unread))
    BY <1>6 DEF TakeCommand
  <2>2. PICK q2 \in Seq(Commands) : q2 = mods'.unread /\ CommandList(q2, Len(q2))
    BY <1>4, WaitingCommands
  <2>3. Head(mods.unread) = q[1] /\ q # <<>>
    BY <1>4, <1>5, <2>1, TakenOK DEF HasMessage
  <2>4. mods'.unread = Tail(q)
    <3>1. mods = [unread |-> mods.unread, lagged |-> mods.lagged]
      BY <1>4 DEF ChannelOK, Channel
    <3>2. QED
      BY <1>5, <2>1, <3>1 DEF Taken
  <2>5. Len(q2) = Len(q) - 1 /\ Len(q) \in Nat /\ Len(q2) \in Nat /\ \A i \in 1 .. Len(q2) : q2[i] = q[i + 1]
    <3>1. Len(q2) = Len(q) - 1 /\ \A i \in 1 .. Len(q2) : q2[i] = q[i + 1]
      BY <2>2, <2>3, <2>4, HeadTailProperties
    <3>2. QED
      BY <3>1, LenProperties
  <2>6. CommandList(q, Len(q2) + 1)
    <3>1. Len(q2) + 1 = Len(q)
      BY <2>5
    <3>2. QED
      BY <1>5, <3>1
  <2>7. Applied(r, q) = Applied(Apply(r, q[1]), q2)
    <3>1. PICK n : n = Len(q2)
      OBVIOUS
    <3>2. CommandList(q, n + 1) /\ CommandList(q2, n) /\ \A k \in 1 .. n : q2[k] = q[k + 1]
      BY <2>2, <2>5, <2>6, <3>1
    <3>3. QED
      BY <1>4, <3>2, AppliedTail
  <2>8. QED
    BY <1>2, <1>3, <1>5, <2>1, <2>2, <2>3, <2>7 DEF Applied
<1>7. CASE Draw
  <2>1. PICK drawn : drawn = DrawFrame(r, fb, frame)
    OBVIOUS
  <2>2. /\ UNCHANGED mods /\ r' = [r EXCEPT !.st = drawn.st]
        /\ proc' = (IF drawn.st.panicked THEN "dead" ELSE proc)
    BY <1>7, <2>1 DEF Draw
  <2>3. ~drawn.st.panicked
    BY <1>1, <2>2
  <2>4. Settable(r') = Settable(r)
    BY <1>4, <2>1, <2>2, <2>3, DrawingSettable
  <2>5. IsRenderer(r')
    BY DEF TypesInv, TypeOK
  <2>6. Settable(Applied(r', q)) = Settable(Applied(r, q))
    BY <1>4, <1>5, <2>4, <2>5, AppliedAlike
  <2>7. QED
    BY <1>2, <1>3, <1>5, <2>2, <2>6 DEF Applied
<1>8. CASE EndDrain \/ EndMovie \/ Exit
  <2>1. UNCHANGED r
    BY <1>8 DEF EndDrain, EndMovie, Exit
  <2>2. mods' = Told(mods) \/ mods' = mods
    BY <1>8 DEF EndDrain, EndMovie, Exit
  <2>3. mods'.unread = mods.unread
    BY <1>4, <2>2, ToldOK
  <2>4. QED
    BY <1>2, <1>3, <2>1, <2>3 DEF Applied
<1>9. CASE ShowImage
  BY <1>4, <1>9 DEF ShowImage
<1>10. QED
  BY <1>6, <1>7, <1>8, <1>9 DEF Main

LEMMA OrderStep ==
  ASSUME TasksInv, TypesInv, TypesInv', TasksInv', [Next]_vars, CommandsTakeEffectInOrder
  PROVE  CommandsTakeEffectInOrder'
<1>1. UNCHANGED <<workload, mainVars, mods, want, overrun>> => CommandsTakeEffectInOrder'
  BY DEF CommandsTakeEffectInOrder, mainVars, program
<1>2. CASE UNCHANGED vars
  BY <1>1, <1>2 DEF vars, history
<1>3. CASE AcceptFails \/ \E c \in Clients : Connect(c) \/ Disconnect(c)
  BY <1>1, <1>3 DEF AcceptFails, Connect, Disconnect, history
<1>4. ASSUME NEW c \in Clients, NEW req \in workload.requests, Handle(c, req)
      PROVE  CommandsTakeEffectInOrder'
  <2>1. UNCHANGED <<workload, mainVars>> /\ workload \in Workloads
    BY <1>4 DEF Handle, TasksInv
  <2>2. CASE ~Sends(req)
    BY <1>1, <1>4, <2>1, <2>2 DEF Handle, history
  <2>3. CASE Sends(req)
    <3>1. PICK msg : msg = Message(req.path, req.body.obj)
      OBVIOUS
    <3>2. CASE req.path = "set_white_led"
      <4>1. SendLed(msg)
        BY <1>4, <2>3, <3>1, <3>2 DEF Handle
      <4>2. /\ UNCHANGED <<mods, want>>
            /\ overrun' = overrun \/ overrun' = overrun \cup (IF Full(leds) THEN {"leds"} ELSE {})
        BY <4>1 DEF SendLed
      <4>3. "mods" \notin overrun' <=> "mods" \notin overrun
        BY <4>2
      <4>4. QED
        BY <2>1, <4>2, <4>3 DEF CommandsTakeEffectInOrder, mainVars, program
    <3>3. CASE req.path # "set_white_led"
      <4>1. SendMod(msg)
        BY <1>4, <2>3, <3>1, <3>3 DEF Handle
      <4>2. msg \in Commands
        BY <2>1, <2>3, <3>1 DEF Commands
      <4>3. IsCommand(msg)
        BY <2>1, <2>3, <3>1, <3>3, MessageTyped
      <4>4. QED
        BY <2>1, <4>1, <4>2, <4>3, OrderAccepted
    <3>4. QED
      BY <3>2, <3>3
  <2>4. QED
    BY <2>2, <2>3
<1>5. CASE Next /\ Main
  BY <1>5, OrderApplied DEF Next
<1>6. CASE Led
  BY <1>1, <1>6 DEF Led, history
<1>7. QED
  BY <1>2, <1>3, <1>4, <1>5, <1>6 DEF Next, Network

LEMMA OrderInit ==
  ASSUME Init
  PROVE  CommandsTakeEffectInOrder
<1>1. SUFFICES ASSUME program = "cloud_ceiling"
               PROVE  Settable(want) = Settable(Applied(r, mods.unread))
  BY DEF CommandsTakeEffectInOrder, Applied
<1>2. PICK msg : msg = Config(InitialConfig)
  OBVIOUS
<1>3. mods = Sent(Idle, msg) /\ r = NewRenderer /\ want = update_cfg(NewRenderer, InitialConfig)
  BY <1>1, <1>2 DEF Init
<1>4. IsCommand(msg) /\ want = Apply(NewRenderer, msg)
  BY <1>2, <1>3, InitialTyped, ApplyConfig
<1>5. <<>> \in Seq(Commands) /\ Len(<<>>) = 0 /\ DOMAIN <<>> = {}
  BY EmptySeq, LenProperties
<1>6. msg \in Commands
  BY <1>2 DEF Commands
<1>7. PICK q0 : q0 = <<>> /\ q0 \in Seq(Commands) /\ Len(q0) = 0 /\ CommandList(q0, Len(q0))
  <2>1. PICK q0 : q0 = <<>> /\ q0 \in Seq(Commands) /\ Len(q0) = 0 /\ DOMAIN q0 = {}
    BY <1>5
  <2>2. CommandList(q0, Len(q0))
    BY <2>1 DEF CommandList
  <2>3. QED
    BY <2>1, <2>2
<1>8. Append(q0, msg)[Len(q0) + 1] = msg /\ CommandList(Append(q0, msg), Len(q0) + 1)
  BY <1>4, <1>6, <1>7, AppendedCommand
<1>9. PICK n, q2 : /\ n = Len(q0) /\ q2 = Append(q0, msg)
                   /\ CommandList(q0, n) /\ CommandList(q2, n + 1) /\ q2[n + 1] = msg
  BY <1>7, <1>8
<1>10. mods.unread = q2
  <2>1. ~Full(Idle)
    BY <1>5, CeilingAssumption DEF Full, Idle, CeilingAssumption
  <2>2. QED
    BY <1>3, <1>7, <1>9, <2>1 DEF Sent, Idle
<1>11. Applied(r, q2) = Apply(Applied(r, q0), msg)
  <2>1. IsRenderer(r) /\ CommandList(q0, n) /\ CommandList(q2, n + 1)
    BY <1>3, <1>9, NewTyped
  <2>2. \A k \in 1 .. n : q2[k] = q0[k]
    BY <1>7, <1>9
  <2>3. Applied(r, q2) = Apply(Applied(r, q0), q2[n + 1]) /\ IsRenderer(Applied(r, q0))
    BY <2>1, <2>2, AppliedAppend, Zenon
  <2>4. QED
    BY <1>9, <2>3
<1>12. Applied(r, q0) = r
  <2>1. PICK h : AppliedAlong(r, q0, n, h)
    BY <1>3, <1>9, NewTyped, AppliedChain
  <2>2. QED
    BY <1>7, <1>9, <2>1 DEF AppliedAlong
<1>13. QED
  BY <1>3, <1>4, <1>10, <1>11, <1>12

\* Unless a burst overflowed the channel, the variables and the blocks of the renderer
\* are, at any time and for any list of commands, those that all accepted commands
\* make, in the order the server accepted them and less those still in the channel:
\* none is lost, reordered or undone by drawing (server.rs:98,136 with
\* mod_ctrl.rs:58-68).
THEOREM CommandsInOrder == Spec => []CommandsTakeEffectInOrder
<1>1. /\ TasksInv /\ TasksInv' /\ TypesInv /\ TypesInv' /\ CommandsTakeEffectInOrder /\ [Next]_vars
      => CommandsTakeEffectInOrder'
  BY OrderStep
<1>2. Init => CommandsTakeEffectInOrder
  BY OrderInit
<1>3. TasksInv /\ TasksInv' /\ TypesInv /\ [Next]_vars => TypesInv'
  BY TypesStep
<1>4. Init => TypesInv
  BY TypesInit
<1>5. QED
  BY <1>1, <1>2, <1>3, <1>4, TasksInvariant, PTL DEF Spec

-----------------------------------------------------------------------------
(* Pictures: what is put where *)

\* The three bytes of a place.
Shown(buffer, at, c) ==
    LET idx == fb_idx(at[1], at[2])
    IN  buffer[idx] = c.b /\ buffer[idx + 1] = c.r /\ buffer[idx + 2] = c.g

\* Drawing visits no place twice, and leaves none out.
LEMMA PlacesDiffer ==
  ASSUME NEW j \in 1 .. PIXEL_COUNT, NEW k \in 1 .. PIXEL_COUNT, j # k
  PROVE  DrawingOrder[j][1] # DrawingOrder[k][1] \/ DrawingOrder[j][2] # DrawingOrder[k][2]
<1>1. STRING_COUNT \in Nat \ {0} /\ j - 1 \in Nat /\ k - 1 \in Nat /\ j - 1 # k - 1
  BY Layout
<1>2. PICK x \in Nat, y \in Nat :
          x = (j - 1) \div STRING_COUNT /\ y = (j - 1) % STRING_COUNT /\ j - 1 = x * STRING_COUNT + y
  BY <1>1
<1>3. PICK x2 \in Nat, y2 \in Nat :
          x2 = (k - 1) \div STRING_COUNT /\ y2 = (k - 1) % STRING_COUNT /\ k - 1 = x2 * STRING_COUNT + y2
  BY <1>1
<1>4. DrawingOrder[j] = <<x, y>> /\ DrawingOrder[k] = <<x2, y2>>
  BY <1>2, <1>3, VisitedPlaces DEF Pixel
<1>5. x # x2 \/ y # y2
  BY <1>1, <1>2, <1>3
<1>6. QED
  BY <1>4, <1>5

LEMMA EveryPlaceIsDrawn ==
  ASSUME NEW x \in Columns, NEW y \in Rows
  PROVE  \E k \in 1 .. PIXEL_COUNT : DrawingOrder[k] = <<x, y>>
<1>1. STRING_COUNT \in Nat \ {0} /\ LED_COUNT \in Nat \ {0} /\ x \in 0 .. LED_COUNT - 1 /\ y \in 0 .. STRING_COUNT - 1
  BY Layout DEF Columns, Rows
<1>2. PICK p \in Nat : p = x * STRING_COUNT
  BY <1>1
<1>3. PICK n \in Nat : n = LED_COUNT * STRING_COUNT /\ n = PIXEL_COUNT
  BY <1>1 DEF PIXEL_COUNT
<1>4. p + STRING_COUNT <= n
  <2>1. (x + 1) * STRING_COUNT <= LED_COUNT * STRING_COUNT
    BY <1>1
  <2>2. (x + 1) * STRING_COUNT = x * STRING_COUNT + STRING_COUNT
    BY <1>1
  <2>3. QED
    BY <1>2, <1>3, <2>1, <2>2
<1>5. p + y + 1 \in 1 .. PIXEL_COUNT /\ (p + y + 1) - 1 = p + y
  BY <1>1, <1>3, <1>4
<1>6. (p + y) \div STRING_COUNT = x /\ (p + y) % STRING_COUNT = y
  BY <1>1, <1>2
<1>7. Pixel(p + y) = <<x, y>>
  BY <1>6 DEF Pixel
<1>8. QED
  BY <1>5, <1>7, VisitedPlaces

\* A pixel put shows, and the pixels of other places still do.
LEMMA PutShows ==
  ASSUME NEW buffer \in Frames, NEW at \in Places, NEW c \in [Channels -> Byte]
  PROVE  /\ Shown(PutPixel(buffer, at[1], at[2], c), at, c)
         /\ \A at2 \in Places, c2 \in [Channels -> Byte] :
                (at[1] # at2[1] \/ at[2] # at2[2]) /\ Shown(buffer, at2, c2) =>
                    Shown(PutPixel(buffer, at[1], at[2], c), at2, c2)
<1>1. at[1] \in Columns /\ at[2] \in Rows
  BY DEF Places
<1>2. \E x2 \in Columns, y2 \in Rows : at[1] # x2 \/ at[2] # y2
  <2>1. at[2] \in 0 .. STRING_COUNT - 1 /\ STRING_COUNT \in Nat /\ STRING_COUNT >= 2
    BY <1>1, RowsArePairs, LayoutAssumption DEF LayoutAssumption, Rows
  <2>2. 0 \in Rows /\ 1 \in Rows
    BY <2>1 DEF Rows
  <2>3. QED
    BY <1>1, <2>2
<1>3. fb_idx(at[1], at[2]) \in 0 .. FRAME_SIZE_BYTES - 3
  BY <1>1, <1>2, PlacesAreApart
<1>4. PICK idx \in Nat : idx = fb_idx(at[1], at[2]) /\ idx + 2 <= FRAME_SIZE_BYTES - 1
  BY <1>3, Layout
<1>5. PICK after : after = PutPixel(buffer, at[1], at[2], c)
  OBVIOUS
<1>6. /\ after[idx] = c.b /\ after[idx + 1] = c.r /\ after[idx + 2] = c.g
      /\ \A i \in 0 .. FRAME_SIZE_BYTES - 1 : i \notin {idx, idx + 1, idx + 2} => after[i] = buffer[i]
  BY <1>4, <1>5, Layout DEF PutPixel, Frames
<1>7. ASSUME NEW at2 \in Places, NEW c2 \in [Channels -> Byte], at[1] # at2[1] \/ at[2] # at2[2], Shown(buffer, at2, c2)
      PROVE  Shown(after, at2, c2)
  <2>1. at2[1] \in Columns /\ at2[2] \in Rows
    BY DEF Places
  <2>2. PICK idx2 \in 0 .. FRAME_SIZE_BYTES - 3 : idx2 = fb_idx(at2[1], at2[2])
    BY <1>1, <1>7, <2>1, PlacesAreApart
  <2>3. idx + 3 <= idx2 \/ idx2 + 3 <= idx
    BY <1>1, <1>4, <1>7, <2>1, <2>2, PlacesAreApart
  <2>4. buffer[idx2] = c2.b /\ buffer[idx2 + 1] = c2.r /\ buffer[idx2 + 2] = c2.g
    BY <1>7, <2>2 DEF Shown
  <2>5. after[idx2] = buffer[idx2] /\ after[idx2 + 1] = buffer[idx2 + 1] /\ after[idx2 + 2] = buffer[idx2 + 2]
    BY <1>6, <2>2, <2>3, Layout
  <2>6. QED
    BY <2>2, <2>4, <2>5 DEF Shown
<1>8. QED
  BY <1>4, <1>5, <1>6, <1>7 DEF Shown

\* A frame that is drawn pixel by pixel shows each of them.
LEMMA Painted ==
  ASSUME NEW h \in [0 .. PIXEL_COUNT -> Frames], NEW c \in [1 .. PIXEL_COUNT -> [Channels -> Byte]],
         \A k \in 1 .. PIXEL_COUNT : h[k] = PutPixel(h[k - 1], DrawingOrder[k][1], DrawingOrder[k][2], c[k])
  PROVE  \A j \in 1 .. PIXEL_COUNT : Shown(h[PIXEL_COUNT], DrawingOrder[j], c[j])
<1>1. PIXEL_COUNT \in Nat /\ \A k \in 1 .. PIXEL_COUNT : DrawingOrder[k] \in Places
  BY Layout, VisitedPlaces
<1> DEFINE T == {k \in 0 .. PIXEL_COUNT : \A j \in 1 .. k : Shown(h[k], DrawingOrder[j], c[j])}
<1>2. 0 \in T
  BY <1>1
<1>3. ASSUME NEW k \in 0 .. PIXEL_COUNT - 1, k \in T
      PROVE  k + 1 \in T
  <2>1. k + 1 \in 1 .. PIXEL_COUNT /\ (k + 1) - 1 = k /\ k \in 0 .. PIXEL_COUNT /\ k + 1 \in 0 .. PIXEL_COUNT
    BY <1>1
  <2>2. PICK buffer \in Frames, at \in Places, d \in [Channels -> Byte] :
            buffer = h[k] /\ at = DrawingOrder[k + 1] /\ d = c[k + 1]
    BY <1>1, <2>1
  <2>3. h[k + 1] = PutPixel(buffer, at[1], at[2], d)
    BY <2>1, <2>2
  <2>4. Shown(h[k + 1], at, d)
    BY <2>3, PutShows
  <2>5. ASSUME NEW j \in 1 .. k
        PROVE  Shown(h[k + 1], DrawingOrder[j], c[j])
    <3>1. j \in 1 .. PIXEL_COUNT /\ j # k + 1
      BY <1>1
    <3>2. Shown(buffer, DrawingOrder[j], c[j]) /\ DrawingOrder[j] \in Places /\ c[j] \in [Channels -> Byte]
      BY <1>1, <1>3, <2>2, <3>1
    <3>3. at[1] # DrawingOrder[j][1] \/ at[2] # DrawingOrder[j][2]
      BY <2>1, <2>2, <3>1, PlacesDiffer
    <3>4. QED
      BY <2>3, <3>2, <3>3, PutShows
  <2>6. \A j \in 1 .. k + 1 : j = k + 1 \/ j \in 1 .. k
    BY <2>1
  <2>7. QED
    BY <2>1, <2>2, <2>4, <2>5, <2>6
<1>4. PIXEL_COUNT \in T
  <2> HIDE DEF T
  <2>1. \A k \in 0 .. PIXEL_COUNT : k \in T
    BY <1>1, <1>2, <1>3, UpTo
  <2>2. QED
    BY <1>1, <2>1
<1>5. QED
  BY <1>4

\* The LED at a place shows its three bytes.
LEMMA LedShowsPlace ==
  ASSUME NEW buffer, NEW s \in 0 .. Strings - 1, NEW n \in Positions, NEW c,
         Shown(buffer, <<HangsAtColumn(n), HangsAtRow(s, n)>>, c)
  PROVE  LedColor(buffer, s, n) = [r |-> c.r, g |-> c.g, b |-> c.b]
<1>1. PICK idx : idx = fb_idx(HangsAtColumn(n), HangsAtRow(s, n))
  OBVIOUS
<1>2. buffer[idx] = c.b /\ buffer[idx + 1] = c.r /\ buffer[idx + 2] = c.g
  BY <1>1 DEF Shown
<1>3. LedByte(s, n, 0) = idx + 0 /\ LedByte(s, n, 1) = idx + 1 /\ LedByte(s, n, 2) = idx + 2
  BY <1>1, LedsShowTheirPlace
<1>4. idx + 0 = idx
  <2>1. HangsAtColumn(n) \in Columns /\ HangsAtRow(s, n) \in Rows
    BY LedsShowTheirPlace, 0 \in 0 .. 2
  <2>2. LedByte(s, n, 0) \in Int
    BY RowsArePairs DEF LedByte, Positions, BYTES_PER_LED
  <2>3. idx \in Int
    BY <1>1, <2>1, Layout DEF fb_idx, BufferRow, Columns, Rows, BYTES_PER_LED
  <2>4. QED
    BY <2>3
<1>5. QED
  BY <1>2, <1>3, <1>4 DEF LedColor

-----------------------------------------------------------------------------

\* An image that fits puts each of its pixels.
LEMMA SwizzleShows ==
  ASSUME NEW data \in Seq(Byte), ImageFits(data), NEW s \in 0 .. Strings - 1, NEW n \in Positions
  PROVE  LET at == 3 * (HangsAtColumn(n) + HangsAtRow(s, n) * LED_COUNT)
         IN  LedColor(Swizzle(data), s, n) = [r |-> data[at + 1], g |-> data[at + 2], b |-> data[at + 3]]
<1> DEFINE Color(p) == [r |-> data[px_idx_tpose(p[1], p[2]) + 1], g |-> data[px_idx_tpose(p[1], p[2]) + 2],
                        b |-> data[px_idx_tpose(p[1], p[2]) + 3]]
           c == [k \in 1 .. PIXEL_COUNT |-> Color(DrawingOrder[k])]
<1>1. \A p \in Places : Color(p) \in [Channels -> Byte]
  <2>1. ASSUME NEW p \in Places
        PROVE  Color(p) \in [Channels -> Byte]
    <3>1. p[1] \in Columns /\ p[2] \in Rows
      BY DEF Places
    <3>2. PICK red \in Byte, green \in Byte, blue \in Byte :
              /\ red = data[px_idx_tpose(p[1], p[2]) + 1]
              /\ green = data[px_idx_tpose(p[1], p[2]) + 2]
              /\ blue = data[px_idx_tpose(p[1], p[2]) + 3]
      BY <3>1, ImageHasThePlace
    <3>3. [r |-> red, g |-> green, b |-> blue] \in [Channels -> Byte]
      BY DEF Channels
    <3>4. QED
      BY <3>2, <3>3
  <2>2. QED
    BY <2>1
<1>2. SwizzleBySteps(data)
  BY SwizzleSteps
<1>3. PICK h \in [0 .. PIXEL_COUNT -> Frames] :
          /\ \A k \in 1 .. PIXEL_COUNT : h[k] = PutFrom(data, h[k - 1], DrawingOrder[k])
          /\ Swizzle(data) = h[PIXEL_COUNT]
  BY <1>2 DEF SwizzleBySteps
<1>4. c \in [1 .. PIXEL_COUNT -> [Channels -> Byte]]
  BY <1>1, VisitedPlaces
<1>5. \A k \in 1 .. PIXEL_COUNT : h[k] = PutPixel(h[k - 1], DrawingOrder[k][1], DrawingOrder[k][2], c[k])
  BY <1>3 DEF PutFrom
<1>6. PICK x \in Columns, y \in Rows : x = HangsAtColumn(n) /\ y = HangsAtRow(s, n)
  BY LedsShowTheirPlace, 0 \in 0 .. 2
<1>7. PICK k \in 1 .. PIXEL_COUNT : DrawingOrder[k] = <<x, y>>
  BY EveryPlaceIsDrawn
<1>8. c[k] = Color(<<x, y>>)
  BY <1>7
<1> HIDE DEF c, Color
<1>9. \A j \in 1 .. PIXEL_COUNT : Shown(h[PIXEL_COUNT], DrawingOrder[j], c[j])
  BY <1>4, <1>5, Painted
<1>10. Shown(Swizzle(data), <<HangsAtColumn(n), HangsAtRow(s, n)>>, Color(<<x, y>>))
  BY <1>3, <1>6, <1>7, <1>8, <1>9
<1>11. PICK d : d = Color(<<x, y>>)
  OBVIOUS
<1>12. LedColor(Swizzle(data), s, n) = [r |-> d.r, g |-> d.g, b |-> d.b]
  BY <1>10, <1>11, LedShowsPlace
<1>13. px_idx_tpose(x, y) = 3 * (x + y * LED_COUNT)
  <2>1. PICK p \in Int : p = x + y * LED_COUNT
    BY Layout DEF Columns, Rows
  <2>2. QED
    BY <2>1 DEF px_idx_tpose, BYTES_PER_LED
<1>14. d.r = data[px_idx_tpose(x, y) + 1] /\ d.g = data[px_idx_tpose(x, y) + 2] /\ d.b = data[px_idx_tpose(x, y) + 3]
  BY <1>11 DEF Color
<1>15. QED
  BY <1>6, <1>12, <1>13, <1>14

\* Only an image that is received changes the frame buffer while movie_main receives.
LEMMA ImageStep ==
  ASSUME TasksInv, TypesInv, [Next]_vars, phase = "recv", fb' # fb
  PROVE  LET data == Head(mods.unread).data
         IN  \A s \in 0 .. Strings - 1, n \in Positions :
                LET at == 3 * (HangsAtColumn(n) + HangsAtRow(s, n) * LED_COUNT)
                IN  LedColor(fb', s, n) = [r |-> data[at + 1], g |-> data[at + 2], b |-> data[at + 3]]
<1>1. ShowImage
  BY DEF Next, Network, Connect, Disconnect, AcceptFails, Handle, Led, Main, TakeCommand, EndDrain, Draw,
         EndMovie, Exit, mainVars, vars
<1>2. HasMessage(mods)
  BY <1>1 DEF ShowImage
<1>3. PICK msg : msg = Head(mods.unread)
  OBVIOUS
<1>4. IsCommand(msg)
  BY <1>2, <1>3, HeadTyped DEF TasksInv, TypesInv
<1>5. Variant(msg) = "data" /\ ImageFits(msg.data) /\ fb' = Swizzle(msg.data)
  BY <1>1, <1>3 DEF ShowImage
<1>6. msg.data \in Seq(Byte)
  BY <1>4, <1>5, ImageTyped
<1>7. QED
  BY <1>3, <1>5, <1>6, SwizzleShows

\* An image that has been shown puts its pixel x + y * LED_COUNT on the LED that hangs
\* at column x and row y, its three colors in place, for every size of the picture and
\* every image (movie_ctrl.rs:30-41).
THEOREM ImageAsItHangs == Spec => ImageLiesAsItHangs
<1>1. TasksInv /\ TypesInv /\ [Next]_vars =>
        [phase = "recv" /\ fb' # fb =>
           LET data == Head(mods.unread).data
           IN  \A s \in 0 .. Strings - 1, n \in Positions :
                LET at == 3 * (HangsAtColumn(n) + HangsAtRow(s, n) * LED_COUNT)
                IN  LedColor(fb', s, n) = [r |-> data[at + 1], g |-> data[at + 2], b |-> data[at + 3]]]_vars
  BY ImageStep
<1>2. TasksInv /\ TasksInv' /\ TypesInv /\ [Next]_vars => TypesInv'
  BY TypesStep
<1>3. Init => TypesInv
  BY TypesInit
<1>4. QED
  BY <1>1, <1>2, <1>3, TasksInvariant, PTL DEF Spec, ImageLiesAsItHangs

-----------------------------------------------------------------------------
(* What a block computes depends on what it reads only *)

\* Two sets of variables that look the same to a block.
LooksAlike(O, s, t, b) ==
    /\ s \in Variables /\ t \in Variables /\ IsBlock(b)
    /\ Alike(O, s, t) /\ ReadsInFact(b) \cap O = {}

\* Reading a variable that is alike gives the same, in range or not.
LEMMA Reading ==
  ASSUME NEW O, NEW s \in Variables, NEW t \in Variables, Alike(O, s, t),
         NEW kind \in Kinds, NEW i \in Nat
  PROVE  /\ InRange(s, kind, i) <=> InRange(t, kind, i)
         /\ InRange(s, kind, i) /\ <<kind, i>> \notin O => Get(s, kind, i) = Get(t, kind, i)
<1>1. Len(s[kind]) = Len(t[kind]) /\ Len(s[kind]) \in Nat
  BY VariablesOfKind DEF Alike
<1>2. ASSUME InRange(s, kind, i), <<kind, i>> \notin O
      PROVE  Get(s, kind, i) = Get(t, kind, i)
  <2>1. i + 1 \in 1 .. Len(s[kind]) /\ (i + 1) - 1 = i
    BY <1>1, <1>2 DEF InRange
  <2>2. \A k \in 1 .. Len(s[kind]) : <<kind, k - 1>> \notin O => s[kind][k] = t[kind][k]
    BY DEF Alike
  <2>3. QED
    BY <1>2, <2>1, <2>2 DEF Get
<1>3. QED
  BY <1>1, <1>2 DEF InRange

\* What a block reads, and that its checks look at what it reads only.
LEMMA ReadsTyped ==
  ASSUME NEW b, IsBlock(b), NEW rd \in Reads(b)
  PROVE  rd[1] \in Kinds /\ rd[2] \in Nat
<1>1. b.type \in Types /\ b.i \in [DOMAIN Signatures[b.type].inputs -> Nat]
      /\ b.l \in [Signatures[b.type].lists -> Seq(Nat)]
  BY BlockFields
<1>2. \A k \in DOMAIN Signatures[b.type].inputs :
          Signatures[b.type].inputs[k] # "unread" => Signatures[b.type].inputs[k] \in Kinds
  <2>1. b.type \in {"color_interp", "dither", "gamma", "image_lookup", "scalar_add", "scalar_hsv2rgb", "scalar_macc",
                    "scalar_ramp", "scalar_triangle"}
    BY <1>1 DEF Types, Signatures
  <2>2. CASE b.type \in {"color_interp", "scalar_add", "scalar_macc"}
    BY <2>2 DEF Signatures, Signature, ColorInterpSig, ScalarAddSig, ScalarMaccSig, Kinds
  <2>3. CASE b.type \in {"dither", "gamma"}
    BY <2>3 DEF Signatures, Signature, DitherSig, GammaSig, Kinds
  <2>4. CASE b.type = "image_lookup"
    BY <2>4 DEF Signatures, Signature, ImageLookupSig, Kinds
  <2>5. CASE b.type = "scalar_hsv2rgb"
    BY <2>5 DEF Signatures, Signature, ScalarHsv2RgbSig, Kinds
  <2>6. CASE b.type \in {"scalar_ramp", "scalar_triangle"}
    BY <2>6 DEF Signatures, Signature, ScalarRampSig, ScalarTriangleSig, Wave, Kinds
  <2>7. QED
    BY <2>1, <2>2, <2>3, <2>4, <2>5, <2>6
<1>3. CASE \E k \in DOMAIN b.i : Signatures[b.type].inputs[k] # "unread"
                                  /\ rd = <<Signatures[b.type].inputs[k], b.i[k]>>
  BY <1>1, <1>2, <1>3
<1>4. CASE rd = <<"scalar", 0>>
  BY <1>4 DEF Kinds
<1>5. CASE b.type = "scalar_macc" /\ \E x \in Range(b.l.m) \cup Range(b.l.x) : rd = <<"scalar", x>>
  <2>1. Signatures[b.type].lists = {"m", "x"}
    BY <1>5 DEF Signatures, Signature, ScalarMaccSig
  <2>2. b.l["m"] \in Seq(Nat) /\ b.l["x"] \in Seq(Nat)
    BY <1>1, <2>1
  <2>3. \A q \in Seq(Nat) : \A x \in Range(q) : x \in Nat
    BY ElementOfSeq, LenProperties DEF Range
  <2>4. QED
    BY <1>5, <2>2, <2>3 DEF Kinds
<1>6. QED
  BY <1>3, <1>4, <1>5 DEF Reads

LEMMA ReadableAlike ==
  ASSUME NEW O, NEW s, NEW t, NEW b, LooksAlike(O, s, t, b)
  PROVE  Readable(s, b) <=> Readable(t, b)
<1>1. s \in Variables /\ t \in Variables /\ IsBlock(b) /\ Alike(O, s, t)
  BY DEF LooksAlike
<1>2. \A rd \in Reads(b) : rd[1] \in Kinds /\ rd[2] \in Nat
  BY <1>1, ReadsTyped
<1>3. ASSUME NEW rd \in Reads(b)
      PROVE  InRange(s, rd[1], rd[2]) <=> InRange(t, rd[1], rd[2])
  <2>1. PICK kind \in Kinds, i \in Nat : kind = rd[1] /\ i = rd[2]
    BY <1>2
  <2>2. InRange(s, kind, i) <=> InRange(t, kind, i)
    BY <1>1, Reading
  <2>3. QED
    BY <2>1, <2>2
<1>4. QED
  BY <1>3 DEF Readable

LEMMA InputsAlike ==
  ASSUME NEW O, NEW s, NEW t, NEW b, LooksAlike(O, s, t, b), Readable(s, b),
         NEW k \in DOMAIN Signatures[b.type].inputs, NEW kind \in Kinds,
         Signatures[b.type].inputs[k] = kind
  PROVE  Get(s, kind, b.i[k]) = Get(t, kind, b.i[k]) /\ (kind = "scalar" => In(s, b, k) = In(t, b, k))
<1>1. s \in Variables /\ t \in Variables /\ IsBlock(b) /\ Alike(O, s, t) /\ \A rd \in ReadsInFact(b) : rd \notin O
  BY DEF LooksAlike
<1>2. b.i[k] \in Nat /\ InRange(s, kind, b.i[k])
  BY <1>1, InputsRead
<1>3. DOMAIN b.i = DOMAIN Signatures[b.type].inputs /\ kind # "unread"
  BY <1>1, BlockFields DEF Kinds
<1>4. <<kind, b.i[k]>> \in ReadsInFact(b)
  BY <1>3 DEF Reads, ReadsInFact
<1>5. Get(s, kind, b.i[k]) = Get(t, kind, b.i[k])
  BY <1>1, <1>2, <1>4, Reading
<1>6. QED
  BY <1>5 DEF In

LEMMA ScalarInputsAlike ==
  ASSUME NEW O, NEW s, NEW t, NEW b, LooksAlike(O, s, t, b), Readable(s, b)
  PROVE  /\ b.type = "scalar_add" => \A k \in {"a", "b"} : In(s, b, k) = In(t, b, k)
         /\ b.type \in {"scalar_ramp", "scalar_triangle"} =>
                \A k \in {"f", "min", "max", "i"} : In(s, b, k) = In(t, b, k)
         /\ b.type = "scalar_hsv2rgb" => \A k \in {"h", "s", "v"} : In(s, b, k) = In(t, b, k)
         /\ b.type = "image_lookup" =>
                /\ \A k \in {"width", "height", "x", "y", "mode"} : In(s, b, k) = In(t, b, k)
                /\ Get(s, "data", b.i.data) = Get(t, "data", b.i.data)
         /\ b.type = "dither" => \A k \in {"x", "y"} : In(s, b, k) = In(t, b, k)
         /\ b.type \in {"dither", "gamma"} => Get(s, "rcolor", b.i.i) = Get(t, "rcolor", b.i.i)
         /\ b.type = "color_interp" => In(s, b, "val") = In(t, b, "val")
<1>1. "scalar" \in Kinds /\ "rcolor" \in Kinds /\ "data" \in Kinds
  BY DEF Kinds
<1>2. ASSUME NEW k \in DOMAIN Signatures[b.type].inputs, Signatures[b.type].inputs[k] = "scalar"
      PROVE  In(s, b, k) = In(t, b, k)
  BY <1>1, <1>2, InputsAlike
<1>3. ASSUME b.type = "scalar_add"
      PROVE  \A k \in {"a", "b"} : In(s, b, k) = In(t, b, k)
  <2>1. Signatures[b.type].inputs = [a |-> "scalar", b |-> "scalar"]
    BY <1>3 DEF Signatures, Signature, ScalarAddSig
  <2>2. QED
    BY <1>2, <2>1
<1>4. ASSUME b.type \in {"scalar_ramp", "scalar_triangle"}
      PROVE  \A k \in {"f", "min", "max", "i"} : In(s, b, k) = In(t, b, k)
  <2>1. Signatures[b.type].inputs = [j \in {"f", "min", "max", "i"} |-> "scalar"]
    BY <1>4 DEF Signatures, Signature, ScalarRampSig, ScalarTriangleSig, Wave
  <2>2. QED
    BY <1>2, <2>1
<1>5. ASSUME b.type = "scalar_hsv2rgb"
      PROVE  \A k \in {"h", "s", "v"} : In(s, b, k) = In(t, b, k)
  <2>1. Signatures[b.type].inputs = [j \in {"h", "s", "v"} |-> "scalar"]
    BY <1>5 DEF Signatures, Signature, ScalarHsv2RgbSig
  <2>2. QED
    BY <1>2, <2>1
<1>6. ASSUME b.type = "image_lookup"
      PROVE  /\ \A k \in {"width", "height", "x", "y", "mode"} : In(s, b, k) = In(t, b, k)
             /\ Get(s, "data", b.i.data) = Get(t, "data", b.i.data)
  <2>1. Signatures[b.type].inputs = [j \in {"width", "height", "x", "y", "mode", "data"} |->
                                        IF j = "data" THEN "data" ELSE "scalar"]
    BY <1>6 DEF Signatures, Signature, ImageLookupSig
  <2>2. "data" \in DOMAIN Signatures[b.type].inputs /\ Signatures[b.type].inputs["data"] = "data"
    BY <2>1
  <2>3. Get(s, "data", b.i["data"]) = Get(t, "data", b.i["data"])
    BY <1>1, <2>2, InputsAlike
  <2>4. QED
    BY <1>2, <2>1, <2>3
<1>7. ASSUME b.type = "dither"
      PROVE  \A k \in {"x", "y"} : In(s, b, k) = In(t, b, k)
  <2>1. Signatures[b.type].inputs = [i |-> "rcolor", x |-> "scalar", y |-> "scalar"]
    BY <1>7 DEF Signatures, Signature, DitherSig
  <2>2. QED
    BY <1>2, <2>1
<1>8. ASSUME b.type \in {"dither", "gamma"}
      PROVE  Get(s, "rcolor", b.i.i) = Get(t, "rcolor", b.i.i)
  <2>1. "i" \in DOMAIN Signatures[b.type].inputs /\ Signatures[b.type].inputs["i"] = "rcolor"
    BY <1>8 DEF Signatures, Signature, DitherSig, GammaSig
  <2>2. QED
    BY <1>1, <2>1, InputsAlike
<1>9. ASSUME b.type = "color_interp"
      PROVE  In(s, b, "val") = In(t, b, "val")
  <2>1. Signatures[b.type].inputs = [val |-> "scalar"]
    BY <1>9 DEF Signatures, Signature, ColorInterpSig
  <2>2. QED
    BY <1>2, <2>1
<1>10. QED
  BY <1>3, <1>4, <1>5, <1>6, <1>7, <1>8, <1>9

\* The blocks that compute a scalar, the one of a list, and those of a color.
LEMMA ScalarsAlike ==
  ASSUME NEW O, NEW s, NEW t, NEW b, LooksAlike(O, s, t, b), Readable(s, b)
  PROVE  /\ b.type = "scalar_add" => ScalarAdd(s, b) = ScalarAdd(t, b)
         /\ b.type = "scalar_ramp" => ScalarRamp(s, b) = ScalarRamp(t, b)
         /\ b.type = "scalar_triangle" => ScalarTriangle(s, b) = ScalarTriangle(t, b)
         /\ b.type = "scalar_hsv2rgb" => ScalarHsv2Rgb(s, b) = ScalarHsv2Rgb(t, b)
<1>1. ASSUME b.type = "scalar_add"
      PROVE  ScalarAdd(s, b) = ScalarAdd(t, b)
  BY <1>1, ScalarInputsAlike DEF ScalarAdd
<1>2. ASSUME b.type \in {"scalar_ramp", "scalar_triangle"}
      PROVE  Fraction(s, b) = Fraction(t, b) /\ Magnitude(s, b) = Magnitude(t, b) /\ In(s, b, "min") = In(t, b, "min")
  BY <1>2, ScalarInputsAlike DEF Fraction, Magnitude
<1>3. ASSUME b.type = "scalar_hsv2rgb"
      PROVE  ScalarHsv2Rgb(s, b) = ScalarHsv2Rgb(t, b)
  <2>1. In(s, b, "h") = In(t, b, "h") /\ In(s, b, "s") = In(t, b, "s") /\ In(s, b, "v") = In(t, b, "v")
    BY <1>3, ScalarInputsAlike
  <2>2. QED
    BY <2>1, Zenon DEF ScalarHsv2Rgb
<1>4. QED
  BY <1>1, <1>2, <1>3 DEF ScalarRamp, ScalarTriangle

LEMMA MaccAlike ==
  ASSUME NEW O, NEW s, NEW t, NEW b, LooksAlike(O, s, t, b), Readable(s, b), b.type = "scalar_macc"
  PROVE  ScalarMacc(s, b) = ScalarMacc(t, b)
<1>1. s \in Variables /\ t \in Variables /\ IsBlock(b) /\ Alike(O, s, t) /\ \A rd \in ReadsInFact(b) : rd \notin O
  BY DEF LooksAlike
<1>2. \A i \in Range(b.l.m) \cup Range(b.l.x) : <<"scalar", i>> \in Reads(b) /\ <<"scalar", i>> \in ReadsInFact(b)
  BY DEF Reads, ReadsInFact
<1>3. \A i \in Range(b.l.m) \cup Range(b.l.x) : i \in Nat
  <2>1. ASSUME NEW i \in Range(b.l.m) \cup Range(b.l.x)
        PROVE  i \in Nat
    <3>1. PICK rd : rd = <<"scalar", i>> /\ rd \in Reads(b)
      BY <1>2
    <3>2. QED
      BY <1>1, <3>1, ReadsTyped
  <2>2. QED
    BY <2>1
<1>4. \A i \in Range(b.l.m) \cup Range(b.l.x) : InRange(s, "scalar", i)
  BY <1>2 DEF Readable
<1>5. ASSUME NEW i \in Range(b.l.m) \cup Range(b.l.x)
      PROVE  Get(s, "scalar", i) = Get(t, "scalar", i)
  <2>1. PICK kind \in Kinds, j \in Nat : kind = "scalar" /\ j = i
    BY <1>3 DEF Kinds
  <2>2. InRange(s, kind, j) /\ <<kind, j>> \notin O
    BY <1>1, <1>2, <1>4, <2>1
  <2>3. Get(s, kind, j) = Get(t, kind, j)
    BY <1>1, <2>2, Reading
  <2>4. QED
    BY <2>1, <2>3
<1>6. PICK m, x : m = b.l.m /\ x = b.l.x /\ DOMAIN m = DOMAIN x
  <2>1. Signatures[b.type].lists = {"m", "x"}
    BY DEF Signatures, Signature, ScalarMaccSig
  <2>2. b.l["m"] \in Seq(Nat) /\ b.l["x"] \in Seq(Nat) /\ Len(b.l.m) = Len(b.l.x)
    BY <1>1, <2>1, BlockFields
  <2>3. QED
    BY <2>2, LenProperties
<1>7. \A n \in DOMAIN m : Get(s, "scalar", m[n]) = Get(t, "scalar", m[n]) /\ Get(s, "scalar", x[n]) = Get(t, "scalar", x[n])
  BY <1>5, <1>6 DEF Range
<1>8. [n \in DOMAIN m |-> Times(Get(s, "scalar", m[n]), Get(s, "scalar", x[n]))]
        = [n \in DOMAIN m |-> Times(Get(t, "scalar", m[n]), Get(t, "scalar", x[n]))]
  BY <1>7
<1>9. QED
  BY <1>6, <1>8, Zenon DEF ScalarMacc

LEMMA ColorsAlike ==
  ASSUME NEW O, NEW s, NEW t, NEW b, LooksAlike(O, s, t, b), Readable(s, b)
  PROVE  /\ b.type = "gamma" => Gamma(s, b) = Gamma(t, b)
         /\ b.type = "dither" => Dither(s, b) = Dither(t, b)
         /\ b.type = "image_lookup" =>
                ImageLookup(s, b) = ImageLookup(t, b) /\ (ModeFits(s, b) <=> ModeFits(t, b))
<1>1. ASSUME b.type \in {"dither", "gamma"}, NEW offset
      PROVE  Quantised(s, b, offset) = Quantised(t, b, offset)
  <2>1. \A k : Curve(s, b, k) = Curve(t, b, k)
    BY <1>1, ScalarInputsAlike DEF Curve
  <2>2. QED
    BY <2>1, Zenon DEF Quantised
<1>2. ASSUME b.type = "dither"
      PROVE  Dither(s, b) = Dither(t, b)
  <2>1. s \in Variables /\ t \in Variables /\ IsBlock(b) /\ Alike(O, s, t) /\ \A rd \in ReadsInFact(b) : rd \notin O
    BY DEF LooksAlike
  <2>7. <<"scalar", 0>> \in Reads(b)
    BY <1>2 DEF Reads
  <2>2. PICK rd : rd = <<"scalar", 0>> /\ rd \in Reads(b) /\ rd \in ReadsInFact(b)
    BY <2>7 DEF ReadsInFact
  <2>3. InRange(s, "scalar", 0) /\ <<"scalar", 0>> \notin O
    BY <2>1, <2>2 DEF Readable
  <2>4. Get(s, "scalar", 0) = Get(t, "scalar", 0)
    <3>1. PICK kind \in Kinds, j \in Nat : kind = "scalar" /\ j = 0
      BY DEF Kinds
    <3>2. InRange(s, kind, j) /\ <<kind, j>> \notin O
      BY <2>3, <3>1
    <3>3. Get(s, kind, j) = Get(t, kind, j)
      BY <2>1, <3>2, Reading
    <3>4. QED
      BY <3>1, <3>3
  <2>5. DitherPhase(s, b) = DitherPhase(t, b)
    BY <1>2, <2>4, ScalarInputsAlike DEF DitherPhase
  <2>6. QED
    BY <1>1, <1>2, <2>5, Zenon DEF Dither
<1>3. ASSUME b.type = "image_lookup"
      PROVE  ImageLookup(s, b) = ImageLookup(t, b) /\ (ModeFits(s, b) <=> ModeFits(t, b))
  <2>1. \A k \in {"width", "height", "x", "y", "mode"} : In(s, b, k) = In(t, b, k)
    BY <1>3, ScalarInputsAlike
  <2>2. Mode(s, b) = Mode(t, b)
    BY <2>1 DEF Mode
  <2>3. Extent(s, b, "width") = Extent(t, b, "width") /\ Extent(s, b, "height") = Extent(t, b, "height")
    BY <2>1 DEF Extent
  <2>4. \A at, extent : Cell(s, b, at, extent) = Cell(t, b, at, extent)
    BY <2>2 DEF Cell
  <2>5. Get(s, "data", b.i.data) = Get(t, "data", b.i.data) /\ In(s, b, "x") = In(t, b, "x") /\ In(s, b, "y") = In(t, b, "y")
    BY <1>3, <2>1, ScalarInputsAlike
  <2>6. ImageLookup(s, b) = ImageLookup(t, b)
    BY <2>3, <2>4, <2>5, Zenon DEF ImageLookup
  <2>7. QED
    BY <2>1, <2>2, <2>6 DEF ModeFits
<1>4. Gamma(s, b) = Quantised(s, b, 0) /\ Gamma(t, b) = Quantised(t, b, 0)
  BY DEF Gamma
<1>5. QED
  BY <1>1, <1>2, <1>3, <1>4

\* What is found, or not, at the points of an interpolation.
LEMMA PointsAlike ==
  ASSUME NEW O, NEW s, NEW t, NEW b, LooksAlike(O, s, t, b), b.type = "color_interp"
  PROVE  /\ Len(b.l.point) \in Nat /\ DOMAIN b.l.point = 1 .. Len(b.l.point)
         /\ \A k \in 1 .. Len(b.l.point) :
               /\ InRange(s, "scalar", b.l.point[k]) <=> InRange(t, "scalar", b.l.point[k])
               /\ InRange(s, "scalar", b.l.point[k]) =>
                      Get(s, "scalar", b.l.point[k]) = Get(t, "scalar", b.l.point[k])
         /\ \A kind \in {"scalar", "color"}, x \in 0 .. Len(b.l.point) - 1 :
               /\ InRange(s, kind, x) <=> InRange(t, kind, x)
               /\ InRange(s, kind, x) => Get(s, kind, x) = Get(t, kind, x)
<1>1. s \in Variables /\ t \in Variables /\ IsBlock(b) /\ Alike(O, s, t) /\ \A rd \in ReadsInFact(b) : rd \notin O
  BY DEF LooksAlike
<1>2. PICK point \in Seq(Nat) : point = b.l.point
  <2>1. Signatures[b.type].lists = {"color", "point"}
    BY DEF Signatures, Signature, ColorInterpSig
  <2>2. b.l["point"] \in Seq(Nat)
    BY <1>1, <2>1, BlockFields
  <2>3. QED
    BY <2>2
<1>3. PICK n \in Nat : n = Len(point) /\ DOMAIN point = 1 .. n
  BY LenProperties
<1>4. \A x \in Range(point) : <<"scalar", x>> \in ReadsInFact(b)
  BY <1>2 DEF ReadsInFact
<1>5. \A kind \in {"scalar", "color"}, x \in 0 .. n - 1 : <<kind, x>> \in ReadsInFact(b)
  BY <1>2, <1>3 DEF ReadsInFact
<1>6. "scalar" \in Kinds /\ "color" \in Kinds
  BY DEF Kinds
<1>7. ASSUME NEW k \in 1 .. n
      PROVE  /\ InRange(s, "scalar", point[k]) <=> InRange(t, "scalar", point[k])
             /\ InRange(s, "scalar", point[k]) => Get(s, "scalar", point[k]) = Get(t, "scalar", point[k])
  <2>1. point[k] \in Nat /\ point[k] \in Range(point)
    BY <1>3, ElementOfSeq DEF Range
  <2>2. PICK x \in Nat : x = point[k] /\ <<"scalar", x>> \notin O
    BY <1>1, <1>4, <2>1
  <2>3. QED
    BY <1>1, <1>6, <2>2, Reading
<1>8. ASSUME NEW kind \in {"scalar", "color"}, NEW x \in 0 .. n - 1
      PROVE  /\ InRange(s, kind, x) <=> InRange(t, kind, x)
             /\ InRange(s, kind, x) => Get(s, kind, x) = Get(t, kind, x)
  <2>1. x \in Nat /\ <<kind, x>> \notin O /\ kind \in Kinds
    BY <1>1, <1>3, <1>5, <1>6
  <2>2. QED
    BY <1>1, <2>1, Reading
<1>9. QED
  BY <1>2, <1>3, <1>7, <1>8

\* The segment an interpolation uses is the same, and so is its color.
LEMMA SegmentsAlike ==
  ASSUME NEW O, NEW s, NEW t, NEW b, LooksAlike(O, s, t, b), Readable(s, b), b.type = "color_interp"
  PROVE  Segments(s, b) = Segments(t, b)
<1>1. PICK point, n : point = b.l.point /\ n = Len(b.l.point)
  OBVIOUS
<1>2. n \in Nat /\ DOMAIN point = 1 .. n
  BY <1>1, PointsAlike
<1>3. \A k \in 1 .. n : /\ InRange(s, "scalar", point[k]) <=> InRange(t, "scalar", point[k])
                        /\ InRange(s, "scalar", point[k]) =>
                               Get(s, "scalar", point[k]) = Get(t, "scalar", point[k])
  BY <1>1, PointsAlike
<1>4. In(s, b, "val") = In(t, b, "val")
  BY ScalarInputsAlike
<1>5. ASSUME NEW j \in 1 .. n
      PROVE  j \in Segments(s, b) <=> j \in Segments(t, b)
  <2>1. \A k \in 1 .. j : k \in 1 .. n
    BY <1>2
  <2>2. j \in 1 .. j /\ \A k \in 1 .. j - 1 : k \in 1 .. j
    BY <1>2
  <2>3. CASE \A k \in 1 .. j : InRange(s, "scalar", point[k])
    <3>1. \A k \in 1 .. j : InRange(t, "scalar", point[k]) /\ Get(s, "scalar", point[k]) = Get(t, "scalar", point[k])
      BY <1>3, <2>1, <2>3
    <3>2. j \in Segments(s, b) <=> /\ In(s, b, "val") <= Get(s, "scalar", point[j])
                                   /\ \A k \in 1 .. j - 1 : In(s, b, "val") > Get(s, "scalar", point[k])
      BY <1>1, <1>2, <2>3, Zenon DEF Segments
    <3>3. j \in Segments(t, b) <=> /\ In(t, b, "val") <= Get(t, "scalar", point[j])
                                   /\ \A k \in 1 .. j - 1 : In(t, b, "val") > Get(t, "scalar", point[k])
      BY <1>1, <1>2, <3>1, Zenon DEF Segments
    <3>4. QED
      BY <1>4, <2>2, <3>1, <3>2, <3>3, Zenon
  <2>4. CASE ~\A k \in 1 .. j : InRange(s, "scalar", point[k])
    <3>1. ~\A k \in 1 .. j : InRange(t, "scalar", point[k])
      BY <1>3, <2>1, <2>4
    <3>2. QED
      BY <1>1, <2>4, <3>1, Zenon DEF Segments
  <2>5. QED
    BY <2>3, <2>4
<1>6. \A j : j \in Segments(s, b) \/ j \in Segments(t, b) => j \in 1 .. n
  BY <1>1, <1>2 DEF Segments
<1>7. QED
  BY <1>5, <1>6

LEMMA InterpAlike ==
  ASSUME NEW O, NEW s, NEW t, NEW b, LooksAlike(O, s, t, b), Readable(s, b), b.type = "color_interp"
  PROVE  /\ Interpolates(s, b) <=> Interpolates(t, b)
         /\ Interpolates(s, b) => ColorInterp(s, b) = ColorInterp(t, b)
<1>1. s \in Variables /\ t \in Variables /\ IsBlock(b)
  BY DEF LooksAlike
<1>2. PICK n \in Nat : n = Len(b.l.point) /\ DOMAIN b.l.point = 1 .. n
  BY PointsAlike
<1>3. \A kind \in {"scalar", "color"}, x \in 0 .. n - 1 :
          /\ InRange(s, kind, x) <=> InRange(t, kind, x)
          /\ InRange(s, kind, x) => Get(s, kind, x) = Get(t, kind, x)
  BY <1>2, PointsAlike
<1>4. Segments(s, b) = Segments(t, b) /\ \A j \in Segments(s, b) : j \in 1 .. n
  <2>1. Segments(s, b) = Segments(t, b)
    BY SegmentsAlike
  <2>2. \A j \in Segments(s, b) : j \in 1 .. n
    BY <1>2 DEF Segments
  <2>3. QED
    BY <2>1, <2>2
<1>5. \A j \in 1 .. n : j > 1 => j - 1 \in 0 .. n - 1
  BY <1>2
<1>6. Interpolates(s, b) <=> Interpolates(t, b)
  BY <1>3, <1>4, <1>5 DEF Interpolates
<1>7. ASSUME Interpolates(s, b)
      PROVE  ColorInterp(s, b) = ColorInterp(t, b)
  <2>1. PICK j \in Segments(s, b) : j > 1 /\ InRange(s, "scalar", j - 1) /\ InRange(s, "color", j - 1)
    BY <1>7 DEF Interpolates
  <2>2. j \in 1 .. n
    BY <1>4
  <2>3. (CHOOSE m \in Segments(s, b) : TRUE) = j
    BY <1>1, OneSegment
  <2>4. PICK i \in Nat : i = j - 2 /\ i \in 0 .. n - 1 /\ i + 1 \in 0 .. n - 1 /\ i + 1 = j - 1
    BY <1>2, <2>1, <2>2
  <2>5. InRange(s, "scalar", i) /\ InRange(s, "color", i)
    <3>1. Len(s["scalar"]) \in Nat /\ Len(s["color"]) \in Nat
      BY <1>1, VariablesOfKind DEF Kinds
    <3>2. QED
      BY <2>1, <2>4, <3>1 DEF InRange
  <2>6. /\ Get(s, "scalar", i) = Get(t, "scalar", i) /\ Get(s, "scalar", i + 1) = Get(t, "scalar", i + 1)
        /\ Get(s, "color", i) = Get(t, "color", i) /\ Get(s, "color", i + 1) = Get(t, "color", i + 1)
    BY <1>3, <2>1, <2>4, <2>5
  <2>7. In(s, b, "val") = In(t, b, "val")
    BY ScalarInputsAlike
  <2>8. (CHOOSE m \in Segments(s, b) : TRUE) - 2 = i /\ (CHOOSE m \in Segments(t, b) : TRUE) - 2 = i
    BY <1>4, <2>3, <2>4
  <2>9. QED
    BY <2>6, <2>7, <2>8, Zenon DEF ColorInterp
<1>8. QED
  BY <1>6, <1>7

\* So a block computes the same of both, or panics on both.
LEMMA ComputesAlike ==
  ASSUME NEW O, NEW s, NEW t, NEW b, LooksAlike(O, s, t, b)
  PROVE  /\ Computes(s, b) <=> Computes(t, b)
         /\ Computes(s, b) => Computed(s, b) = Computed(t, b)
<1>1. Readable(s, b) <=> Readable(t, b)
  BY ReadableAlike
<1>2. CASE ~Readable(s, b)
  BY <1>1, <1>2 DEF Computes
<1>3. CASE Readable(s, b)
  <2>1. b.type \in {"color_interp", "dither", "gamma", "image_lookup", "scalar_add", "scalar_hsv2rgb", "scalar_macc",
                    "scalar_ramp", "scalar_triangle"}
    BY DEF LooksAlike, IsBlock, Types, Signatures
  <2>2. CASE b.type = "color_interp"
    BY <1>1, <1>3, <2>2, InterpAlike DEF Computes, Computed
  <2>3. CASE b.type \in {"dither", "gamma", "image_lookup"}
    BY <1>1, <1>3, <2>3, ColorsAlike DEF Computes, Computed
  <2>4. CASE b.type \in {"scalar_add", "scalar_hsv2rgb", "scalar_ramp", "scalar_triangle"}
    BY <1>1, <1>3, <2>4, ScalarsAlike DEF Computes, Computed
  <2>5. CASE b.type = "scalar_macc"
    BY <1>1, <1>3, <2>5, MaccAlike DEF Computes, Computed
  <2>6. QED
    BY <2>1, <2>2, <2>3, <2>4, <2>5
<1>4. QED
  BY <1>2, <1>3

\* And what it computes is then the same in both, whatever was there before.
LEMMA executeReads ==
  ASSUME NEW O, NEW s, NEW t, NEW b, LooksAlike(O, s, t, b)
  PROVE  /\ execute(s, b).panicked <=> execute(t, b).panicked
         /\ ~execute(s, b).panicked => Alike(O \ {Writes(b)}, execute(s, b), execute(t, b))
<1>1. s \in Variables /\ t \in Variables /\ IsBlock(b) /\ Alike(O, s, t) /\ s.panicked = t.panicked
  BY DEF LooksAlike, Alike
<1>2. Computes(s, b) <=> Computes(t, b)
  BY ComputesAlike
<1>3. CASE s.panicked \/ ~Computes(s, b)
  <2>1. execute(s, b) = Panicked(s) /\ execute(t, b) = Panicked(t)
    BY <1>1, <1>2, <1>3 DEF execute
  <2>2. QED
    BY <1>1, <2>1, PanickedTyped
<1>4. CASE ~s.panicked /\ Computes(s, b)
  <2>1. PICK kind \in Kinds, i \in Nat : kind = Signatures[b.type].output /\ i = b.o
    BY <1>1, BlockFields, OutputKinds DEF Kinds
  <2>2. PICK v : v = Computed(s, b) /\ v = Computed(t, b)
    BY <1>4, ComputesAlike
  <2>3. execute(s, b) = SetVariable(s, kind, i, v) /\ execute(t, b) = SetVariable(t, kind, i, v)
    BY <1>1, <1>2, <1>4, <2>1, <2>2 DEF execute
  <2>4. Writes(b) = <<kind, i>>
    BY <2>1 DEF Writes
  <2>5. PICK u, w : u = SetVariable(s, kind, i, v) /\ w = SetVariable(t, kind, i, v)
    OBVIOUS
  <2>6. Alike(O, u, w)
    BY <1>1, <2>5, AlikeSet
  <2>7. CASE InRange(s, kind, i)
    <3>1. InRange(t, kind, i)
      BY <1>1, <2>7, Reading
    <3>2. Len(u[kind]) = Len(s[kind]) /\ Len(w[kind]) = Len(t[kind]) /\ Len(s[kind]) = Len(t[kind])
          /\ \A j \in 1 .. Len(s[kind]) : j = i + 1 => u[kind][j] = v /\ w[kind][j] = v
      BY <1>1, <2>5, <2>7, <3>1, VariableSet DEF Alike
    <3>3. ASSUME NEW k \in Kinds, NEW j \in 1 .. Len(u[k]), <<k, j - 1>> \notin O \ {<<kind, i>>}
          PROVE  u[k][j] = w[k][j]
      <4>1. CASE <<k, j - 1>> \notin O
        BY <2>6, <4>1 DEF Alike
      <4>2. CASE k = kind /\ j - 1 = i
        <5>1. j = i + 1 /\ j \in 1 .. Len(s[kind])
          BY <3>2, <4>2
        <5>2. QED
          BY <3>2, <4>2, <5>1
      <4>3. QED
        BY <3>3, <4>1, <4>2
    <3>4. Alike(O \ {<<kind, i>>}, u, w)
      BY <2>6, <3>3 DEF Alike
    <3>5. u.panicked <=> w.panicked
      BY <2>6 DEF Alike
    <3>6. QED
      BY <2>3, <2>4, <2>5, <3>4, <3>5
  <2>8. CASE ~InRange(s, kind, i)
    <3>1. ~InRange(t, kind, i)
      BY <1>1, <2>8, Reading
    <3>2. /\ \A k \in Kinds : u[k] = s[k] /\ w[k] = t[k]
          /\ u.panicked = (s.panicked \/ kind # "scalar") /\ w.panicked = (t.panicked \/ kind # "scalar")
      BY <1>1, <2>5, <2>8, <3>1, VariableSet
    <3>3. ASSUME NEW k \in Kinds, NEW j \in 1 .. Len(u[k]), <<k, j - 1>> \notin O \ {<<kind, i>>}
          PROVE  u[k][j] = w[k][j]
      <4>1. CASE <<k, j - 1>> \notin O
        BY <2>6, <4>1 DEF Alike
      <4>2. CASE k = kind /\ j - 1 = i
        <5>1. Len(s[kind]) \in Nat /\ j \in 1 .. Len(s[kind])
          BY <1>1, <3>2, <4>2, VariablesOfKind
        <5>2. QED
          BY <2>8, <4>2, <5>1 DEF InRange
      <4>3. QED
        BY <3>3, <4>1, <4>2
    <3>4. Alike(O \ {<<kind, i>>}, u, w)
      BY <2>6, <3>3 DEF Alike
    <3>5. u.panicked <=> w.panicked
      BY <2>6 DEF Alike
    <3>6. QED
      BY <2>3, <2>4, <2>5, <3>4, <3>5
  <2>9. QED
    BY <2>7, <2>8
<1>5. QED
  BY <1>3, <1>4

-----------------------------------------------------------------------------
(* Blocks that feed forward: the color of a place is its own *)

\* What the first k blocks write, and what those after them write and they do not.
Outputs(q, k) == {Writes(q[j]) : j \in 1 .. k}
Unwritten(q, n, k) == Outputs(q, n) \ Outputs(q, k)

\* One block more leaves one output less, and in the end none.
LEMMA UnwrittenNext ==
  ASSUME NEW q, NEW n \in Nat, NEW k \in 0 .. n - 1
  PROVE  Unwritten(q, n, k + 1) = Unwritten(q, n, k) \ {Writes(q[k + 1])}
<1>1. \A j : j \in 1 .. k + 1 <=> j \in 1 .. k \/ j = k + 1
  OBVIOUS
<1>2. Outputs(q, k + 1) = Outputs(q, k) \cup {Writes(q[k + 1])}
  BY <1>1 DEF Outputs
<1>3. QED
  BY <1>2 DEF Unwritten

LEMMA NothingUnwritten ==
  ASSUME NEW q, NEW n \in Nat
  PROVE  Unwritten(q, n, 0) = Outputs(q, n) /\ Unwritten(q, n, n) = {}
<1>1. 1 .. 0 = {}
  OBVIOUS
<1>2. Outputs(q, 0) = {}
  BY <1>1 DEF Outputs
<1>3. QED
  BY <1>2 DEF Unwritten

\* With blocks that feed forward, a block reads nothing that is yet to be written.
LEMMA ReadsWritten ==
  ASSUME NEW q, NEW n \in Nat, DOMAIN q = 1 .. n, Len(q) = n, FeedsForward(q), NEW k \in 0 .. n - 1
  PROVE  ReadsInFact(q[k + 1]) \cap Unwritten(q, n, k) = {}
<1>1. k + 1 \in 1 .. n /\ (k + 1) - 1 = k
  OBVIOUS
<1>2. \A m \in k + 1 .. n : Writes(q[m]) \in ReadsInFact(q[k + 1]) => \E j \in 1 .. k : Writes(q[j]) = Writes(q[m])
  BY <1>1 DEF FeedsForward
<1>3. ASSUME NEW m \in 1 .. n, Writes(q[m]) \in ReadsInFact(q[k + 1]), Writes(q[m]) \notin Outputs(q, k)
      PROVE  FALSE
  <2>1. m \in k + 1 .. n
    <3>1. m \notin 1 .. k
      BY <1>3 DEF Outputs
    <3>2. QED
      BY <3>1
  <2>2. PICK j \in 1 .. k : Writes(q[j]) = Writes(q[m])
    BY <1>2, <1>3, <2>1
  <2>3. QED
    BY <1>3, <2>2 DEF Outputs
<1>4. QED
  BY <1>3 DEF Unwritten, Outputs

\* Executing them, what they write does not depend on what was there before.
LEMMA ExecutedReads ==
  ASSUME NEW s \in Variables, NEW t \in Variables, NEW q, NEW n, BlockList(q, n), Len(q) = n,
         FeedsForward(q), Alike(Outputs(q, n), s, t)
  PROVE  /\ Executed(s, q).panicked <=> Executed(t, q).panicked
         /\ ~Executed(s, q).panicked => Alike({}, Executed(s, q), Executed(t, q))
<1>1. n \in Nat /\ DOMAIN q = 1 .. n /\ \A k \in 1 .. n : IsBlock(q[k])
  BY DEF BlockList
<1>2. ExecutedBySteps(s, q, n) /\ ExecutedBySteps(t, q, n)
  BY ExecutedSteps
<1>3. PICK h \in [0 .. n -> Variables] : /\ h[0] = s
                                         /\ \A k \in 1 .. n : h[k] = execute(h[k - 1], q[k])
                                         /\ Executed(s, q) = h[n]
  BY <1>2 DEF ExecutedBySteps
<1>4. PICK g \in [0 .. n -> Variables] : /\ g[0] = t
                                         /\ \A k \in 1 .. n : g[k] = execute(g[k - 1], q[k])
                                         /\ Executed(t, q) = g[n]
  BY <1>2 DEF ExecutedBySteps
<1> DEFINE T == {k \in 0 .. n : \/ h[k].panicked /\ g[k].panicked
                                \/ ~h[k].panicked /\ Alike(Unwritten(q, n, k), h[k], g[k])}
<1>5. 0 \in T
  <2>1. Alike(Unwritten(q, n, 0), h[0], g[0])
    BY <1>1, <1>3, <1>4, NothingUnwritten
  <2>2. h[0].panicked = g[0].panicked
    BY <2>1 DEF Alike
  <2>3. QED
    BY <1>1, <2>1, <2>2
<1>6. ASSUME NEW k \in 0 .. n - 1, k \in T
      PROVE  k + 1 \in T
  <2>1. k + 1 \in 1 .. n /\ (k + 1) - 1 = k /\ k \in 0 .. n /\ k + 1 \in 0 .. n
    BY <1>1
  <2>2. PICK a, c, b : a = h[k] /\ c = g[k] /\ b = q[k + 1]
    OBVIOUS
  <2>3. a \in Variables /\ c \in Variables /\ IsBlock(b)
    BY <1>1, <2>1, <2>2
  <2>4. h[k + 1] = execute(a, b) /\ g[k + 1] = execute(c, b)
    BY <1>3, <1>4, <2>1, <2>2
  <2>5. CASE a.panicked /\ c.panicked
    <3>1. execute(a, b).panicked /\ execute(c, b).panicked
      BY <2>3, <2>5, PanickedTyped DEF execute
    <3>2. QED
      BY <2>1, <2>4, <3>1
  <2>6. CASE Alike(Unwritten(q, n, k), a, c)
    <3>1. LooksAlike(Unwritten(q, n, k), a, c, b)
      BY <1>1, <2>2, <2>3, <2>6, ReadsWritten DEF LooksAlike
    <3>2. /\ execute(a, b).panicked <=> execute(c, b).panicked
          /\ ~execute(a, b).panicked => Alike(Unwritten(q, n, k) \ {Writes(b)}, execute(a, b), execute(c, b))
      BY <3>1, executeReads
    <3>3. Unwritten(q, n, k + 1) = Unwritten(q, n, k) \ {Writes(b)}
      BY <1>1, <2>2, UnwrittenNext
    <3>4. QED
      BY <2>1, <2>4, <3>2, <3>3
  <2>7. QED
    BY <1>6, <2>2, <2>5, <2>6
<1>7. n \in T
  <2> HIDE DEF T
  <2>1. \A k \in 0 .. n : k \in T
    BY <1>1, <1>5, <1>6, UpTo
  <2>2. QED
    BY <1>1, <2>1
<1>8. Unwritten(q, n, n) = {}
  BY <1>1, NothingUnwritten
<1>9. (h[n].panicked /\ g[n].panicked) \/ (~h[n].panicked /\ Alike({}, h[n], g[n]))
  BY <1>7, <1>8
<1>10. Alike({}, h[n], g[n]) => h[n].panicked = g[n].panicked
  BY DEF Alike
<1>11. QED
  BY <1>3, <1>4, <1>9, <1>10

-----------------------------------------------------------------------------
\* A scalar that has been set, if it is there.
Coordinate(st, i, v) == InRange(st, "scalar", i) => Get(st, "scalar", i) = v

\* Variables whose three coordinates are those of a place.
AtPlace(st, num, x, y) ==
    Coordinate(st, 0, F32(num * ONE)) /\ Coordinate(st, 1, x * ONE) /\ Coordinate(st, 2, y * ONE)

\* The variables of a pixel that is drawn on its own.
OnItsOwn(st, num, x, y) ==
    set_scalar(set_scalar(set_scalar(st, 0, F32(num * ONE)), 1, x * ONE), 2, y * ONE)

\* A coordinate that is set is there; setting another, or anything else, keeps it.
LEMMA CoordinateSet ==
  ASSUME NEW st \in Variables, NEW i \in Nat, NEW v \in Int
  PROVE  /\ Coordinate(set_scalar(st, i, v), i, v)
         /\ \A j \in Nat, w \in Int : j # i /\ Coordinate(st, j, w) => Coordinate(set_scalar(st, i, v), j, w)
<1>1. "scalar" \in Kinds /\ set_scalar(st, i, v) = SetVariable(st, "scalar", i, v)
  BY DEF SetVariable, Kinds
<1>2. PICK u : u = SetVariable(st, "scalar", i, v)
  OBVIOUS
<1>3. Len(st["scalar"]) \in Nat
  BY <1>1, VariablesOfKind
<1>4. CASE InRange(st, "scalar", i)
  <2>1. /\ Len(u["scalar"]) = Len(st["scalar"])
        /\ \A j \in 1 .. Len(st["scalar"]) : u["scalar"][j] = IF j = i + 1 THEN v ELSE st["scalar"][j]
    BY <1>1, <1>2, <1>4, VariableSet
  <2>2. ASSUME NEW j \in Nat, InRange(u, "scalar", j)
        PROVE  InRange(st, "scalar", j) /\ Get(u, "scalar", j) = IF j = i THEN v ELSE Get(st, "scalar", j)
    <3>1. j + 1 \in 1 .. Len(st["scalar"]) /\ (j + 1 = i + 1 <=> j = i)
      BY <1>3, <2>1, <2>2 DEF InRange
    <3>2. QED
      BY <2>1, <2>2, <3>1 DEF InRange, Get
  <2>3. QED
    BY <1>1, <1>2, <2>2 DEF Coordinate
<1>5. CASE ~InRange(st, "scalar", i)
  <2>1. u["scalar"] = st["scalar"]
    BY <1>1, <1>2, <1>5, VariableSet
  <2>2. QED
    BY <1>1, <1>2, <1>5, <2>1 DEF Coordinate, InRange, Get
<1>6. QED
  BY <1>4, <1>5

LEMMA CoordinateAlike ==
  ASSUME NEW O, NEW s \in Variables, NEW t \in Variables, Alike(O, s, t),
         NEW i \in Nat, <<"scalar", i>> \notin O, NEW v, Coordinate(s, i, v)
  PROVE  Coordinate(t, i, v)
<1>1. "scalar" \in Kinds
  BY DEF Kinds
<1>2. QED
  BY <1>1, Reading DEF Coordinate

LEMMA AtPlaceAlike ==
  ASSUME NEW O, O \cap Coordinates = {}, NEW s \in Variables, NEW t \in Variables, Alike(O, s, t),
         NEW num, NEW x, NEW y, AtPlace(s, num, x, y)
  PROVE  AtPlace(t, num, x, y)
<1>1. <<"scalar", 0>> \notin O /\ <<"scalar", 1>> \notin O /\ <<"scalar", 2>> \notin O
  BY DEF Coordinates
<1>2. QED
  BY <1>1, CoordinateAlike, 0 \in Nat, 1 \in Nat, 2 \in Nat DEF AtPlace

\* Where the frame number or the column is not set, it is still that of the pixel before.
LEMMA PlacedAt ==
  ASSUME NEW st \in Variables, NEW num \in Int, NEW x \in Int, NEW y \in Int,
         (x = 0 /\ y = 0) \/ Coordinate(st, 0, F32(num * ONE)),
         y = 0 \/ Coordinate(st, 1, x * ONE)
  PROVE  AtPlace(Placed(st, num, x, y), num, x, y)
<1>1. ONE \in Int
  BY OneAssumption DEF OneAssumption
<1>2. num * ONE \in Int /\ x * ONE \in Int /\ y * ONE \in Int
  BY <1>1
<1>3. PICK a \in Int, b \in Int, c \in Int : a = F32(num * ONE) /\ b = x * ONE /\ c = y * ONE
  BY <1>2, Arithmetic
<1>4. PICK framed \in Variables : framed = IF x = 0 /\ y = 0 THEN set_scalar(st, 0, a) ELSE st
  BY set_scalarTyped, 0 \in Nat
<1>5. Coordinate(framed, 0, a)
  BY <1>3, <1>4, CoordinateSet, 0 \in Nat
<1>6. y = 0 \/ Coordinate(framed, 1, b)
  BY <1>3, <1>4
<1>7. PICK column \in Variables : column = IF y = 0 THEN set_scalar(framed, 1, b) ELSE framed
  BY set_scalarTyped, 1 \in Nat
<1>8. Coordinate(column, 0, a)
  BY <1>5, <1>7, CoordinateSet, 0 \in Nat, 1 \in Nat, 0 # 1
<1>9. Coordinate(column, 1, b)
  BY <1>6, <1>7, CoordinateSet, 1 \in Nat
<1>10. PICK u : u = set_scalar(column, 2, c)
  OBVIOUS
<1>11. Coordinate(u, 2, c)
  BY <1>10, CoordinateSet, 2 \in Nat
<1>12. Coordinate(u, 0, a) /\ Coordinate(u, 1, b)
  BY <1>8, <1>9, <1>10, CoordinateSet, 0 \in Nat, 1 \in Nat, 2 \in Nat, 0 # 2, 1 # 2
<1>13. Placed(st, num, x, y) = u
  BY <1>3, <1>4, <1>7, <1>10 DEF Placed
<1>14. QED
  BY <1>3, <1>11, <1>12, <1>13 DEF AtPlace

\* A pixel drawn on its own is at its place, and nothing else has changed.
LEMMA OnItsOwnAt ==
  ASSUME NEW O, Coordinates \subseteq O, NEW st \in Variables, NEW num \in Int, NEW x \in Int, NEW y \in Int
  PROVE  /\ OnItsOwn(st, num, x, y) \in Variables
         /\ AtPlace(OnItsOwn(st, num, x, y), num, x, y)
         /\ Alike(O, st, OnItsOwn(st, num, x, y))
<1>1. ONE \in Int
  BY OneAssumption DEF OneAssumption
<1>2. num * ONE \in Int /\ x * ONE \in Int /\ y * ONE \in Int
  BY <1>1
<1>3. PICK a \in Int, b \in Int, c \in Int : a = F32(num * ONE) /\ b = x * ONE /\ c = y * ONE
  BY <1>2, Arithmetic
<1>4. <<"scalar", 0>> \in O /\ <<"scalar", 1>> \in O /\ <<"scalar", 2>> \in O
  BY DEF Coordinates
<1>5. PICK s0 \in Variables : s0 = set_scalar(st, 0, a) /\ Alike(O, st, s0)
  BY <1>4, ScalarOwned
<1>6. PICK s1 \in Variables : s1 = set_scalar(s0, 1, b) /\ Alike(O, s0, s1)
  BY <1>4, ScalarOwned
<1>7. PICK s2 \in Variables : s2 = set_scalar(s1, 2, c) /\ Alike(O, s1, s2)
  BY <1>4, ScalarOwned
<1>8. Coordinate(s0, 0, a)
  BY <1>5, CoordinateSet, 0 \in Nat
<1>9. Coordinate(s1, 0, a)
  BY <1>6, <1>8, CoordinateSet, 0 \in Nat, 1 \in Nat, 0 # 1
<1>10. Coordinate(s1, 1, b)
  BY <1>6, CoordinateSet, 1 \in Nat
<1>11. Coordinate(s2, 0, a) /\ Coordinate(s2, 1, b)
  BY <1>7, <1>9, <1>10, CoordinateSet, 0 \in Nat, 1 \in Nat, 2 \in Nat, 0 # 2, 1 # 2
<1>12. Coordinate(s2, 2, c)
  BY <1>7, CoordinateSet, 2 \in Nat
<1>13. Alike(O, st, s2)
  BY <1>5, <1>6, <1>7, AlikeTransitive
<1>14. OnItsOwn(st, num, x, y) = s2
  BY <1>3, <1>5, <1>6, <1>7 DEF OnItsOwn
<1>15. QED
  BY <1>3, <1>11, <1>12, <1>13, <1>14 DEF AtPlace

\* Variables at the same place that differ in the coordinates do not differ there.
LEMMA SamePlace ==
  ASSUME NEW O, NEW s \in Variables, NEW t \in Variables, Alike(O \cup Coordinates, s, t),
         NEW num, NEW x, NEW y, AtPlace(s, num, x, y), AtPlace(t, num, x, y)
  PROVE  Alike(O, s, t)
<1>1. s.panicked = t.panicked /\ \A k \in Kinds : Len(s[k]) = Len(t[k])
  BY DEF Alike
<1>2. ASSUME NEW k \in Kinds, NEW i \in 1 .. Len(s[k]), <<k, i - 1>> \notin O
      PROVE  s[k][i] = t[k][i]
  <2>1. CASE <<k, i - 1>> \notin Coordinates
    <3>1. <<k, i - 1>> \notin O \cup Coordinates
      BY <1>2, <2>1
    <3>2. QED
      BY <3>1 DEF Alike
  <2>2. CASE <<k, i - 1>> \in Coordinates
    <3>1. PICK c \in 0 .. 2 : k = "scalar" /\ i - 1 = c /\ c + 1 = i
      BY <1>1, <2>2, VariablesOfKind DEF Coordinates
    <3>2. Len(s["scalar"]) \in Nat
      BY <3>1, VariablesOfKind
    <3>3. InRange(s, "scalar", c) /\ InRange(t, "scalar", c)
      BY <1>1, <3>1, <3>2 DEF InRange
    <3>4. \E v : Coordinate(s, c, v) /\ Coordinate(t, c, v)
      BY <3>1 DEF AtPlace
    <3>5. Get(s, "scalar", c) = Get(t, "scalar", c)
      BY <3>3, <3>4 DEF Coordinate
    <3>6. QED
      BY <3>1, <3>5 DEF Get
  <2>3. QED
    BY <2>1, <2>2
<1>3. QED
  BY <1>1, <1>2 DEF Alike

-----------------------------------------------------------------------------
(* A picture is a function of the commands *)

\* Alike is symmetric.
LEMMA AlikeSymmetric ==
  ASSUME NEW O, NEW s, NEW t, Alike(O, s, t)
  PROVE  Alike(O, t, s)
<1>1. s.panicked = t.panicked /\ \A k \in Kinds : Len(s[k]) = Len(t[k])
  BY DEF Alike
<1>2. ASSUME NEW k \in Kinds, NEW i \in 1 .. Len(t[k]), <<k, i - 1>> \notin O
      PROVE  t[k][i] = s[k][i]
  BY <1>1, <1>2 DEF Alike
<1>3. QED
  BY <1>1, <1>2 DEF Alike

\* What a renderer owns, if its blocks leave the coordinates alone.
LEMMA OwnedParts ==
  ASSUME NEW x, IsRenderer(x), FeedsForward(x.blocks)
  PROVE  /\ Owned(x) = Outputs(x.blocks, Len(x.blocks)) \cup Coordinates
         /\ Outputs(x.blocks, Len(x.blocks)) \cap Coordinates = {}
<1>1. PICK n, q : n = Len(x.blocks) /\ q = x.blocks
  OBVIOUS
<1>2. DOMAIN q = 1 .. n
  BY <1>1, RendererParts DEF BlockList
<1>3. Outputs(q, n) = {Writes(b) : b \in Range(q)}
  BY <1>2 DEF Outputs, Range
<1>4. \A k \in 1 .. n : Writes(q[k]) \notin Coordinates
  BY <1>1, <1>2 DEF FeedsForward, Coordinates
<1>5. Outputs(q, n) \cap Coordinates = {}
  BY <1>4 DEF Outputs
<1>6. Owned(x) = Outputs(q, n) \cup Coordinates
  BY <1>1, <1>3 DEF Owned, Coordinates
<1>7. QED
  BY <1>1, <1>5, <1>6

\* The pixel of a place is what it would be on its own, whatever was drawn before it,
\* and leaves the coordinates where they are.
LEMMA PixelShows ==
  ASSUME NEW x, IsRenderer(x), FeedsForward(x.blocks), NEW last \in Variables, Alike(Owned(x), x.st, last),
         NEW num \in Int, NEW col \in Int, NEW row \in Int,
         AtPlace(Placed(x.st, num, col, row), num, col, row), ~PixelState(x, num, col, row).panicked
  PROVE  /\ Get(PixelState(x, num, col, row), "color", 0)
              = ColorAt([st |-> last, blocks |-> x.blocks], num, col, row)
         /\ AtPlace(PixelState(x, num, col, row), num, col, row)
<1>1. x.st \in Variables /\ BlockList(x.blocks, Len(x.blocks))
  BY RendererParts
<1>2. PICK n \in Nat : n = Len(x.blocks)
  BY <1>1 DEF BlockList
<1>3. PICK q : q = x.blocks /\ BlockList(q, n) /\ Len(q) = n /\ FeedsForward(q)
  BY <1>1, <1>2
<1>4. PICK O : O = Outputs(q, n) /\ Owned(x) = O \cup Coordinates /\ O \cap Coordinates = {}
  BY <1>2, <1>3, OwnedParts
<1>5. Coordinates \subseteq Owned(x)
  BY <1>4
<1>6. PICK p \in Variables : p = Placed(x.st, num, col, row) /\ Alike(Owned(x), x.st, p)
  BY <1>1, <1>5, PlacedTyped, PlacedAlike
<1>7. PICK t \in Variables : /\ t = OnItsOwn(last, num, col, row)
                             /\ AtPlace(t, num, col, row) /\ Alike(Owned(x), last, t)
  BY <1>5, OnItsOwnAt
<1>8. Alike(O \cup Coordinates, p, t)
  <2>1. Alike(Owned(x), p, x.st)
    BY <1>6, AlikeSymmetric
  <2>2. Alike(Owned(x), p, last)
    BY <2>1, AlikeTransitive
  <2>3. QED
    BY <1>4, <1>7, <2>2, AlikeTransitive
<1>9. Alike(O, p, t)
  BY <1>6, <1>7, <1>8, SamePlace
<1>10. PICK st \in Variables, u \in Variables : st = Executed(p, q) /\ u = Executed(t, q)
  BY <1>3, ExecutedTyped
<1>11. PixelState(x, num, col, row) = IF InRange(st, "color", 0) THEN st ELSE Panicked(st)
  BY <1>3, <1>6, <1>10 DEF PixelState, Executed
<1>12. InRange(st, "color", 0) /\ ~st.panicked /\ PixelState(x, num, col, row) = st
  BY <1>11, PanickedTyped
<1>13. Alike({}, st, u)
  BY <1>3, <1>4, <1>9, <1>10, <1>12, ExecutedReads
<1>14. Get(st, "color", 0) = Get(u, "color", 0)
  <2>1. "color" \in Kinds
    BY DEF Kinds
  <2>2. PICK none, kind, i : none = {} /\ kind = "color" /\ i = 0
    OBVIOUS
  <2>3. Alike(none, st, u) /\ kind \in Kinds /\ i \in Nat /\ <<kind, i>> \notin none /\ InRange(st, kind, i)
    BY <1>12, <1>13, <2>1, <2>2
  <2>4. Get(st, kind, i) = Get(u, kind, i)
    BY <2>3, Reading
  <2>5. QED
    BY <2>2, <2>4
<1>15. ColorAt([st |-> last, blocks |-> x.blocks], num, col, row) = Get(u, "color", 0)
  BY <1>3, <1>7, <1>10 DEF ColorAt, OnItsOwn, Executed
<1>16. AtPlace(st, num, col, row)
  <2>1. \A k \in 1 .. n : Writes(q[k]) \in O
    BY <1>4 DEF Outputs
  <2>2. Alike(O, p, st)
    BY <1>3, <1>10, <1>12, <2>1, ExecutedAlike
  <2>3. QED
    BY <1>4, <1>6, <2>2, AtPlaceAlike
<1>17. QED
  BY <1>12, <1>14, <1>15, <1>16

\* Drawing starts in a corner and stays in a column until its end.
LEMMA FirstPlace ==
  /\ PIXEL_COUNT \in Nat \ {0}
  /\ DrawingOrder[1][1] = 0 /\ DrawingOrder[1][2] = 0
<1>1. STRING_COUNT \in Nat \ {0} /\ LED_COUNT \in Nat \ {0}
  BY Layout
<1>2. PIXEL_COUNT \in Nat \ {0}
  BY <1>1 DEF PIXEL_COUNT
<1>3. 1 \in 1 .. PIXEL_COUNT /\ 1 - 1 = 0
  BY <1>2
<1>4. 0 \div STRING_COUNT = 0 /\ 0 % STRING_COUNT = 0
  BY <1>1
<1>5. DrawingOrder[1] = <<0, 0>>
  BY <1>3, <1>4, VisitedPlaces DEF Pixel
<1>6. QED
  BY <1>2, <1>5

LEMMA NextPlace ==
  ASSUME NEW k \in 1 .. PIXEL_COUNT, k + 1 \in 1 .. PIXEL_COUNT, DrawingOrder[k + 1][2] # 0
  PROVE  DrawingOrder[k + 1][1] = DrawingOrder[k][1]
<1>1. STRING_COUNT \in Nat \ {0} /\ k \in Nat /\ (k + 1) - 1 = k /\ k - 1 \in Int
  BY Layout
<1>2. DrawingOrder[k + 1] = Pixel(k) /\ DrawingOrder[k] = Pixel(k - 1)
  BY <1>1, VisitedPlaces
<1>3. PICK x \in Int, y \in 0 .. STRING_COUNT - 1 : k = STRING_COUNT * x + y
  <2>1. k \in Int /\ STRING_COUNT \in Nat \ {0}
    BY <1>1
  <2>2. QED
    BY <2>1, Divided
<1>4. k \div STRING_COUNT = x /\ k % STRING_COUNT = y
  BY <1>1, <1>3, QuotientIs
<1>5. y - 1 \in 0 .. STRING_COUNT - 1
  BY <1>1, <1>2, <1>3, <1>4 DEF Pixel
<1>6. k - 1 = STRING_COUNT * x + (y - 1)
  BY <1>1, <1>3
<1>7. (STRING_COUNT * x + (y - 1)) \div STRING_COUNT = x
  BY <1>1, <1>5, QuotientIs
<1>8. QED
  BY <1>2, <1>4, <1>6, <1>7 DEF Pixel

-----------------------------------------------------------------------------
\* The variables and the buffer, pixel by pixel.
DrawnAlong(x, buffer, num, h) ==
    /\ h \in [0 .. PIXEL_COUNT -> Drawings]
    /\ h[0] = [st |-> x.st, fb |-> buffer]
    /\ \A k \in 1 .. PIXEL_COUNT : h[k] = DrawNth(x, num, h[k - 1], DrawingOrder[k])
    /\ DrawFrame(x, buffer, num) = h[PIXEL_COUNT]

\* A frame that is drawn to its end panics nowhere.
LEMMA NoPixelPanics ==
  ASSUME NEW x, NEW buffer, NEW num, NEW h, DrawnAlong(x, buffer, num, h),
         ~DrawFrame(x, buffer, num).st.panicked
  PROVE  \A k \in 0 .. PIXEL_COUNT : ~h[k].st.panicked
<1>1. PIXEL_COUNT \in Nat
  BY FirstPlace
<1> DEFINE T == {j \in 0 .. PIXEL_COUNT : ~h[PIXEL_COUNT - j].st.panicked}
<1>2. 0 \in T
  BY <1>1 DEF DrawnAlong
<1>3. ASSUME NEW j \in 0 .. PIXEL_COUNT - 1, j \in T
      PROVE  j + 1 \in T
  <2>1. PICK k \in 1 .. PIXEL_COUNT : k = PIXEL_COUNT - j /\ k - 1 = PIXEL_COUNT - (j + 1)
    BY <1>1
  <2>2. h[k] = DrawNth(x, num, h[k - 1], DrawingOrder[k])
    BY DEF DrawnAlong
  <2>3. h[k - 1].st.panicked => h[k] = h[k - 1]
    BY <2>2 DEF DrawNth
  <2>4. j + 1 \in 0 .. PIXEL_COUNT
    BY <1>1
  <2>5. QED
    BY <1>3, <2>1, <2>3, <2>4
<1>4. \A j \in 0 .. PIXEL_COUNT : j \in T
  <2> HIDE DEF T
  <2>1. QED
    BY <1>1, <1>2, <1>3, UpTo
<1>5. ASSUME NEW k \in 0 .. PIXEL_COUNT
      PROVE  ~h[k].st.panicked
  <2>1. PICK j \in 0 .. PIXEL_COUNT : PIXEL_COUNT - j = k
    <3>1. PIXEL_COUNT - k \in 0 .. PIXEL_COUNT /\ PIXEL_COUNT - (PIXEL_COUNT - k) = k
      BY <1>1
    <3>2. QED
      BY <3>1
  <2>2. QED
    BY <1>4, <2>1
<1>6. QED
  BY <1>5

\* Every pixel leaves what is not owned as it was before the frame.
LEMMA PixelsAlike ==
  ASSUME NEW x, IsRenderer(x), NEW buffer \in Frames, NEW num \in Int, NEW h, DrawnAlong(x, buffer, num, h),
         \A k \in 0 .. PIXEL_COUNT : ~h[k].st.panicked
  PROVE  \A k \in 0 .. PIXEL_COUNT : Alike(Owned(x), x.st, h[k].st)
<1>1. PIXEL_COUNT \in Nat /\ \A k \in 1 .. PIXEL_COUNT : DrawingOrder[k] \in Places
  BY FirstPlace, VisitedPlaces
<1> DEFINE T == {k \in 0 .. PIXEL_COUNT : Alike(Owned(x), x.st, h[k].st)}
<1>2. 0 \in T
  BY <1>1, AlikeItself DEF DrawnAlong
<1>3. ASSUME NEW k \in 0 .. PIXEL_COUNT - 1, k \in T
      PROVE  k + 1 \in T
  <2>1. k + 1 \in 1 .. PIXEL_COUNT /\ (k + 1) - 1 = k /\ k \in 0 .. PIXEL_COUNT /\ k + 1 \in 0 .. PIXEL_COUNT
    BY <1>1
  <2>2. PICK d \in Drawings, at \in Places : d = h[k] /\ at = DrawingOrder[k + 1]
    BY <1>1, <2>1 DEF DrawnAlong
  <2>3. PICK e : e = h[k + 1] /\ e = DrawNth(x, num, d, at)
    BY <2>1, <2>2 DEF DrawnAlong
  <2>4. e.st.panicked \/ Alike(Owned(x), d.st, e.st)
    BY <2>3, DrawNthAlike
  <2>5. Alike(Owned(x), x.st, d.st) /\ ~e.st.panicked
    BY <1>3, <2>1, <2>2, <2>3
  <2>6. Alike(Owned(x), x.st, e.st)
    BY <2>4, <2>5, AlikeTransitive
  <2>7. QED
    BY <2>1, <2>3, <2>6
<1>4. \A k \in 0 .. PIXEL_COUNT : k \in T
  <2> HIDE DEF T
  <2>1. QED
    BY <1>1, <1>2, <1>3, UpTo
<1>5. QED
  BY <1>4

\* One pixel of a frame, if the coordinates that are not set for it are right.
LEMMA PixelOfFrame ==
  ASSUME NEW x, IsRenderer(x), FeedsForward(x.blocks), NEW num \in Int, NEW last \in Variables,
         NEW drawn \in Drawings, NEW at \in Places, NEW next, next = DrawNth(x, num, drawn, at),
         ~drawn.st.panicked, ~next.st.panicked, Alike(Owned(x), drawn.st, last),
         AtPlace(Placed(drawn.st, num, at[1], at[2]), num, at[1], at[2])
  PROVE  /\ next.fb = PutPixel(drawn.fb, at[1], at[2], Get(next.st, "color", 0))
         /\ Get(next.st, "color", 0) = ColorAt([st |-> last, blocks |-> x.blocks], num, at[1], at[2])
         /\ Get(next.st, "color", 0) \in [Channels -> Byte]
         /\ AtPlace(next.st, num, at[1], at[2])
<1>1. at[1] \in Int /\ at[2] \in Int
  BY Layout DEF Places, Columns, Rows
<1>2. drawn.st \in Variables
  BY DEF Drawings
<1>3. PICK z : z = [st |-> drawn.st, blocks |-> x.blocks]
  OBVIOUS
<1>4. [x EXCEPT !.st = drawn.st] = z
  BY <1>3, RendererParts
<1>5. IsRenderer(z) /\ z.st = drawn.st /\ z.blocks = x.blocks /\ Owned(z) = Owned(x)
  BY <1>2, <1>3, RendererParts DEF Owned
<1>6. next = DrawPixel(z, drawn.fb, num, at[1], at[2])
  BY <1>4 DEF DrawNth
<1>7. PICK st : st = PixelState(z, num, at[1], at[2])
  OBVIOUS
<1>8. next.st = st /\ ~st.panicked /\ next.fb = PutPixel(drawn.fb, at[1], at[2], Get(st, "color", 0))
  BY <1>6, <1>7 DEF DrawPixel
<1>9. Get(st, "color", 0) \in [Channels -> Byte]
  BY <1>1, <1>5, <1>7, <1>8, PixelStateTyped
<1>10. /\ Get(st, "color", 0) = ColorAt([st |-> last, blocks |-> z.blocks], num, at[1], at[2])
       /\ AtPlace(st, num, at[1], at[2])
  BY <1>1, <1>5, <1>7, <1>8, PixelShows
<1>11. QED
  BY <1>5, <1>8, <1>9, <1>10

\* Pixel k of a frame that is drawn to its end.
PixelDrawn(x, num, h, k) ==
    LET at == DrawingOrder[k]
        c == Get(h[k].st, "color", 0)
    IN  /\ h[k].fb = PutPixel(h[k - 1].fb, at[1], at[2], c)
        /\ c = ColorAt([st |-> h[PIXEL_COUNT].st, blocks |-> x.blocks], num, at[1], at[2])
        /\ c \in [Channels -> Byte]
        /\ AtPlace(h[k].st, num, at[1], at[2])

\* Pixel after pixel, the coordinates are those of the place: set where the loop sets
\* them, and otherwise left over from the pixel before.
LEMMA EveryPixelDrawn ==
  ASSUME NEW x, IsRenderer(x), FeedsForward(x.blocks), NEW buffer \in Frames, NEW num \in Int,
         NEW h, DrawnAlong(x, buffer, num, h), \A k \in 0 .. PIXEL_COUNT : ~h[k].st.panicked
  PROVE  \A k \in 1 .. PIXEL_COUNT : PixelDrawn(x, num, h, k)
<1>1. PIXEL_COUNT \in Nat \ {0}
  BY FirstPlace
<1>2. PICK last \in Variables : last = h[PIXEL_COUNT].st
  BY <1>1 DEF DrawnAlong, Drawings
<1>3. \A k \in 0 .. PIXEL_COUNT : Alike(Owned(x), h[k].st, last)
  <2>1. \A k \in 0 .. PIXEL_COUNT : Alike(Owned(x), x.st, h[k].st)
    BY PixelsAlike
  <2>2. Alike(Owned(x), x.st, last)
    BY <1>1, <1>2, <2>1
  <2>3. QED
    BY <2>1, <2>2, AlikeSymmetric, AlikeTransitive
<1> DEFINE T == {k \in 0 .. PIXEL_COUNT : k # 0 => PixelDrawn(x, num, h, k)}
<1>4. 0 \in T
  BY <1>1
<1>5. ASSUME NEW k \in 0 .. PIXEL_COUNT - 1, k \in T
      PROVE  k + 1 \in T
  <2>1. k + 1 \in 1 .. PIXEL_COUNT /\ (k + 1) - 1 = k /\ k \in 0 .. PIXEL_COUNT /\ k + 1 \in 0 .. PIXEL_COUNT
    BY <1>1
  <2>2. PICK d \in Drawings, at \in Places : d = h[k] /\ at = DrawingOrder[k + 1]
    BY <2>1, VisitedPlaces DEF DrawnAlong
  <2>3. PICK e : e = h[k + 1] /\ e = DrawNth(x, num, d, at)
    BY <2>1, <2>2 DEF DrawnAlong
  <2>4. d.st \in Variables /\ at[1] \in Int /\ at[2] \in Int
    BY Layout DEF Drawings, Places, Columns, Rows
  <2>5. /\ (at[1] = 0 /\ at[2] = 0) \/ Coordinate(d.st, 0, F32(num * ONE))
        /\ at[2] = 0 \/ Coordinate(d.st, 1, at[1] * ONE)
    <3>1. CASE k = 0
      BY <2>2, <3>1, FirstPlace
    <3>2. CASE k # 0
      <4>1. k \in 1 .. PIXEL_COUNT /\ PixelDrawn(x, num, h, k)
        BY <1>5, <2>1, <3>2
      <4>2. AtPlace(d.st, num, DrawingOrder[k][1], DrawingOrder[k][2])
        BY <2>2, <4>1 DEF PixelDrawn
      <4>3. Coordinate(d.st, 0, F32(num * ONE)) /\ Coordinate(d.st, 1, DrawingOrder[k][1] * ONE)
        BY <4>2 DEF AtPlace
      <4>4. at[2] # 0 => at[1] = DrawingOrder[k][1]
        BY <2>1, <2>2, <4>1, NextPlace
      <4>5. QED
        BY <4>3, <4>4
    <3>3. QED
      BY <3>1, <3>2
  <2>6. AtPlace(Placed(d.st, num, at[1], at[2]), num, at[1], at[2])
    BY <2>4, <2>5, PlacedAt
  <2>7. ~d.st.panicked /\ ~e.st.panicked /\ Alike(Owned(x), d.st, last)
    BY <1>3, <2>1, <2>2, <2>3
  <2>8. /\ e.fb = PutPixel(d.fb, at[1], at[2], Get(e.st, "color", 0))
        /\ Get(e.st, "color", 0) = ColorAt([st |-> last, blocks |-> x.blocks], num, at[1], at[2])
        /\ Get(e.st, "color", 0) \in [Channels -> Byte]
        /\ AtPlace(e.st, num, at[1], at[2])
    BY <2>3, <2>6, <2>7, PixelOfFrame
  <2>9. PixelDrawn(x, num, h, k + 1)
    BY <1>2, <2>1, <2>2, <2>3, <2>8 DEF PixelDrawn
  <2>10. QED
    BY <2>1, <2>9
<1>6. \A k \in 0 .. PIXEL_COUNT : k \in T
  <2> HIDE DEF T
  <2>1. QED
    BY <1>1, <1>4, <1>5, UpTo
<1>7. ASSUME NEW k \in 1 .. PIXEL_COUNT
      PROVE  PixelDrawn(x, num, h, k)
  <2>1. k \in 0 .. PIXEL_COUNT /\ k # 0
    BY <1>1
  <2>2. QED
    BY <1>6, <2>1
<1>8. QED
  BY <1>7

\* A frame that is drawn to its end shows the picture.
LEMMA FramePictured ==
  ASSUME NEW x, IsRenderer(x), FeedsForward(x.blocks), NEW buffer \in Frames, NEW num \in Int,
         NEW drawn, drawn = DrawFrame(x, buffer, num), ~drawn.st.panicked
  PROVE  ShowsPicture(drawn.fb, [st |-> drawn.st, blocks |-> x.blocks], num)
<1>1. PIXEL_COUNT \in Nat \ {0}
  BY FirstPlace
<1>2. FrameBySteps(x, buffer, num)
  BY FrameSteps
<1>3. PICK h : DrawnAlong(x, buffer, num, h)
  BY <1>2 DEF FrameBySteps, DrawnAlong
<1>4. drawn = h[PIXEL_COUNT] /\ h \in [0 .. PIXEL_COUNT -> Drawings]
  BY <1>3 DEF DrawnAlong
<1>5. \A k \in 0 .. PIXEL_COUNT : ~h[k].st.panicked
  BY <1>3, NoPixelPanics
<1>6. \A k \in 1 .. PIXEL_COUNT : PixelDrawn(x, num, h, k)
  BY <1>3, <1>5, EveryPixelDrawn
<1>7. PICK z : z = [st |-> drawn.st, blocks |-> x.blocks]
  OBVIOUS
<1> DEFINE c == [k \in 1 .. PIXEL_COUNT |-> Get(h[k].st, "color", 0)]
           g == [k \in 0 .. PIXEL_COUNT |-> h[k].fb]
<1>8. c \in [1 .. PIXEL_COUNT -> [Channels -> Byte]]
  BY <1>6 DEF PixelDrawn
<1>9. g \in [0 .. PIXEL_COUNT -> Frames]
  BY <1>4 DEF Drawings
<1>10. \A k \in 1 .. PIXEL_COUNT : g[k] = PutPixel(g[k - 1], DrawingOrder[k][1], DrawingOrder[k][2], c[k])
  <2>1. ASSUME NEW k \in 1 .. PIXEL_COUNT
        PROVE  g[k] = PutPixel(g[k - 1], DrawingOrder[k][1], DrawingOrder[k][2], c[k])
    <3>1. k \in 0 .. PIXEL_COUNT /\ k - 1 \in 0 .. PIXEL_COUNT
      BY <1>1
    <3>2. g[k] = h[k].fb /\ g[k - 1] = h[k - 1].fb /\ c[k] = Get(h[k].st, "color", 0)
      BY <3>1
    <3>3. QED
      BY <1>6, <3>2 DEF PixelDrawn
  <2>2. QED
    BY <2>1
<1>11. g[PIXEL_COUNT] = drawn.fb
  BY <1>1, <1>4
<1>12. \A k \in 1 .. PIXEL_COUNT : c[k] = ColorAt(z, num, DrawingOrder[k][1], DrawingOrder[k][2])
  BY <1>4, <1>6, <1>7 DEF PixelDrawn
<1> HIDE DEF c, g
<1>13. \A k \in 1 .. PIXEL_COUNT : Shown(drawn.fb, DrawingOrder[k], c[k])
  BY <1>8, <1>9, <1>10, <1>11, Painted
<1>14. ASSUME NEW s \in 0 .. Strings - 1, NEW n \in Positions
       PROVE  LedColor(drawn.fb, s, n) = ColorAt(z, num, HangsAtColumn(n), HangsAtRow(s, n))
  <2>1. PICK col \in Columns, row \in Rows : col = HangsAtColumn(n) /\ row = HangsAtRow(s, n)
    BY LedsShowTheirPlace, 0 \in 0 .. 2
  <2>2. PICK k \in 1 .. PIXEL_COUNT : DrawingOrder[k] = <<col, row>>
    BY EveryPlaceIsDrawn
  <2>3. PICK d \in [Channels -> Byte] : d = c[k]
    BY <1>8
  <2>4. Shown(drawn.fb, <<HangsAtColumn(n), HangsAtRow(s, n)>>, d)
    BY <1>13, <2>1, <2>2, <2>3
  <2>5. LedColor(drawn.fb, s, n) = [r |-> d.r, g |-> d.g, b |-> d.b]
    BY <2>4, LedShowsPlace
  <2>6. [r |-> d.r, g |-> d.g, b |-> d.b] = d
    BY DEF Channels
  <2>7. d = ColorAt(z, num, col, row)
    BY <1>12, <2>2, <2>3
  <2>8. QED
    BY <2>1, <2>5, <2>6, <2>7
<1>15. QED
  BY <1>7, <1>14 DEF ShowsPicture

-----------------------------------------------------------------------------
(* A frame is the work of its own drawing *)

\* Each byte of the frame is one of the three of a place that drawing visits.
LEMMA EveryByteIsOfAPlace ==
  ASSUME NEW i \in 0 .. FRAME_SIZE_BYTES - 1
  PROVE  \E k \in 1 .. PIXEL_COUNT :
            LET idx == fb_idx(DrawingOrder[k][1], DrawingOrder[k][2])
            IN  i \in {idx, idx + 1, idx + 2}
<1>1. LED_COUNT \in Nat \ {0} /\ Strings \in Nat \ {0} /\ STRING_COUNT = 2 * Strings
  BY Layout, RowsArePairs
<1>2. PICK places \in Nat : places = 2 * LED_COUNT * Strings
  BY <1>1
<1>3. FRAME_SIZE_BYTES = 3 * places
  <2>1. LED_COUNT * STRING_COUNT = 2 * LED_COUNT * Strings
    BY <1>1
  <2>2. QED
    BY <1>2, <2>1 DEF FRAME_SIZE_BYTES, PIXEL_COUNT, BYTES_PER_LED
<1>4. PICK p \in Nat, b \in 0 .. 2 : i = 3 * p + b /\ p < places
  <2>1. PICK p \in Int, b \in 0 .. 3 - 1 : i = 3 * p + b
    <3>1. i \in Int /\ 3 \in Nat \ {0}
      BY Layout
    <3>2. QED
      BY <3>1, Divided
  <2>2. i >= 0 /\ i < 3 * places /\ places \in Nat
    BY <1>2, <1>3
  <2>3. p \in Nat /\ p < places
    BY <2>1, <2>2
  <2>4. QED
    BY <2>1, <2>3
<1>5. PICK n \in Int, s \in 0 .. Strings - 1 : p = Strings * n + s
  <2>1. p \in Int /\ Strings \in Nat \ {0}
    BY <1>1
  <2>2. QED
    BY <2>1, Divided
<1>6. n \in Positions
  <2>1. n >= 0
    <3>1. SUFFICES ASSUME n <= -1
                   PROVE  FALSE
      BY <1>5
    <3>2. Strings * n <= -Strings
      BY <1>1, <3>1
    <3>3. QED
      BY <1>1, <1>5, <3>2
  <2>2. n < 2 * LED_COUNT
    <3>1. SUFFICES ASSUME n >= 2 * LED_COUNT
                   PROVE  FALSE
      BY <1>1, <1>5
    <3>2. Strings * n >= 2 * LED_COUNT * Strings /\ Strings * n \in Int
      BY <1>1, <3>1
    <3>3. QED
      BY <1>1, <1>2, <1>4, <1>5, <3>2
  <2>3. QED
    BY <1>1, <2>1, <2>2 DEF Positions
<1>7. LedByte(s, n, b) = i
  <2>1. Strings * n = n * Strings /\ n * Strings \in Int
    BY <1>1
  <2>2. (s + n * Strings) * 3 + b = i
    BY <1>4, <1>5, <2>1
  <2>3. QED
    BY <2>2 DEF LedByte, BYTES_PER_LED
<1>8. PICK col \in Columns, row \in Rows :
          col = HangsAtColumn(n) /\ row = HangsAtRow(s, n) /\ LedByte(s, n, b) = fb_idx(col, row) + b
  BY <1>6, LedsShowTheirPlace
<1>9. PICK k \in 1 .. PIXEL_COUNT : DrawingOrder[k] = <<col, row>>
  BY EveryPlaceIsDrawn
<1>10. fb_idx(col, row) \in Int
  BY Layout DEF fb_idx, BufferRow, Columns, Rows, BYTES_PER_LED
<1>11. PICK idx \in Int : idx = fb_idx(DrawingOrder[k][1], DrawingOrder[k][2]) /\ i = idx + b
  BY <1>7, <1>8, <1>9, <1>10
<1>12. i \in {idx, idx + 1, idx + 2}
  BY <1>11
<1>13. QED
  BY <1>11, <1>12

\* Frames that show the same color at every place have the same bytes.
LEMMA ShownAlike ==
  ASSUME NEW buffer \in Frames, NEW buffer2 \in Frames, NEW c,
         \A k \in 1 .. PIXEL_COUNT : Shown(buffer, DrawingOrder[k], c[k]) /\ Shown(buffer2, DrawingOrder[k], c[k])
  PROVE  buffer = buffer2
<1>1. ASSUME NEW i \in 0 .. FRAME_SIZE_BYTES - 1
      PROVE  buffer[i] = buffer2[i]
  <2>1. PICK k \in 1 .. PIXEL_COUNT :
            LET idx == fb_idx(DrawingOrder[k][1], DrawingOrder[k][2])
            IN  i \in {idx, idx + 1, idx + 2}
    BY EveryByteIsOfAPlace
  <2>2. PICK idx : idx = fb_idx(DrawingOrder[k][1], DrawingOrder[k][2])
    OBVIOUS
  <2>3. buffer[idx] = buffer2[idx] /\ buffer[idx + 1] = buffer2[idx + 1] /\ buffer[idx + 2] = buffer2[idx + 2]
    BY <2>2 DEF Shown
  <2>4. i \in {idx, idx + 1, idx + 2}
    BY <2>1, <2>2
  <2>5. QED
    BY <2>3, <2>4
<1>2. PICK places : places = 0 .. FRAME_SIZE_BYTES - 1
  OBVIOUS
<1>3. buffer \in [places -> Byte] /\ buffer2 \in [places -> Byte] /\ \A i \in places : buffer[i] = buffer2[i]
  BY <1>1, <1>2 DEF Frames
<1>4. QED
  BY <1>3

\* The pixels of a frame that is drawn to its end are put with the colors of its variables.
LEMMA FrameShown ==
  ASSUME NEW x, IsRenderer(x), NEW buffer \in Frames, NEW num \in Int, NEW h, DrawnAlong(x, buffer, num, h),
         \A k \in 0 .. PIXEL_COUNT : ~h[k].st.panicked
  PROVE  \A k \in 1 .. PIXEL_COUNT : Shown(h[PIXEL_COUNT].fb, DrawingOrder[k], Get(h[k].st, "color", 0))
<1>1. PIXEL_COUNT \in Nat \ {0}
  BY FirstPlace
<1>2. h \in [0 .. PIXEL_COUNT -> Drawings]
  BY DEF DrawnAlong
<1>3. ASSUME NEW k \in 1 .. PIXEL_COUNT
      PROVE  /\ Get(h[k].st, "color", 0) \in [Channels -> Byte]
             /\ h[k].fb = PutPixel(h[k - 1].fb, DrawingOrder[k][1], DrawingOrder[k][2], Get(h[k].st, "color", 0))
  <2>1. k \in 0 .. PIXEL_COUNT /\ k - 1 \in 0 .. PIXEL_COUNT
    BY <1>1
  <2>2. PICK d \in Drawings, at \in Places : d = h[k - 1] /\ at = DrawingOrder[k]
    BY <1>2, <2>1, VisitedPlaces
  <2>3. d.st \in Variables /\ at[1] \in Int /\ at[2] \in Int
    BY Layout DEF Drawings, Places, Columns, Rows
  <2>4. PICK z : z = [x EXCEPT !.st = d.st] /\ IsRenderer(z)
    <3>1. [x EXCEPT !.st = d.st] = [st |-> d.st, blocks |-> x.blocks]
      BY RendererParts
    <3>2. QED
      BY <2>3, <3>1, RendererParts
  <2>5. h[k] = DrawPixel(z, d.fb, num, at[1], at[2])
    <3>1. h[k] = DrawNth(x, num, d, at)
      BY <2>2 DEF DrawnAlong
    <3>2. ~d.st.panicked
      BY <2>1, <2>2
    <3>3. QED
      BY <2>4, <3>1, <3>2 DEF DrawNth
  <2>6. PICK st : st = PixelState(z, num, at[1], at[2])
    OBVIOUS
  <2>7. h[k].st = st /\ ~st.panicked /\ h[k].fb = PutPixel(d.fb, at[1], at[2], Get(st, "color", 0))
    BY <2>1, <2>5, <2>6 DEF DrawPixel
  <2>8. Get(st, "color", 0) \in [Channels -> Byte]
    <3>1. PICK col \in Int, row \in Int : col = at[1] /\ row = at[2]
      BY <2>3
    <3>2. Get(PixelState(z, num, col, row), "color", 0) \in [Channels -> Byte]
      <4>1. ~PixelState(z, num, col, row).panicked
        BY <2>6, <2>7, <3>1
      <4>2. QED
        BY <2>4, <4>1, PixelStateTyped
    <3>3. QED
      BY <2>6, <3>1, <3>2
  <2>9. QED
    BY <2>2, <2>7, <2>8
<1> DEFINE c == [k \in 1 .. PIXEL_COUNT |-> Get(h[k].st, "color", 0)]
           g == [k \in 0 .. PIXEL_COUNT |-> h[k].fb]
<1>4. c \in [1 .. PIXEL_COUNT -> [Channels -> Byte]] /\ g \in [0 .. PIXEL_COUNT -> Frames]
  BY <1>2, <1>3 DEF Drawings
<1>5. ASSUME NEW k \in 1 .. PIXEL_COUNT
      PROVE  g[k] = PutPixel(g[k - 1], DrawingOrder[k][1], DrawingOrder[k][2], c[k])
  <2>1. k \in 0 .. PIXEL_COUNT /\ k - 1 \in 0 .. PIXEL_COUNT
    BY <1>1
  <2>2. g[k] = h[k].fb /\ g[k - 1] = h[k - 1].fb /\ c[k] = Get(h[k].st, "color", 0)
    BY <2>1
  <2>3. QED
    BY <1>3, <2>2
<1>6. g[PIXEL_COUNT] = h[PIXEL_COUNT].fb /\ \A k \in 1 .. PIXEL_COUNT : c[k] = Get(h[k].st, "color", 0)
  BY <1>1
<1> HIDE DEF c, g
<1>7. \A k \in 1 .. PIXEL_COUNT : Shown(g[PIXEL_COUNT], DrawingOrder[k], c[k])
  BY <1>4, <1>5, Painted
<1>8. QED
  BY <1>6, <1>7

\* The variables of a frame do not depend on the buffer it is drawn in.
LEMMA SameVariables ==
  ASSUME NEW x, NEW num, NEW buffer, NEW buffer2, NEW h, NEW h2,
         DrawnAlong(x, buffer, num, h), DrawnAlong(x, buffer2, num, h2)
  PROVE  \A k \in 0 .. PIXEL_COUNT : h[k].st = h2[k].st
<1>1. PIXEL_COUNT \in Nat
  BY FirstPlace
<1> DEFINE T == {k \in 0 .. PIXEL_COUNT : h[k].st = h2[k].st}
<1>2. 0 \in T
  BY <1>1 DEF DrawnAlong
<1>3. ASSUME NEW k \in 0 .. PIXEL_COUNT - 1, k \in T
      PROVE  k + 1 \in T
  <2>1. k + 1 \in 1 .. PIXEL_COUNT /\ (k + 1) - 1 = k /\ k + 1 \in 0 .. PIXEL_COUNT
    BY <1>1
  <2>2. PICK at : at = DrawingOrder[k + 1]
    OBVIOUS
  <2>3. h[k + 1] = DrawNth(x, num, h[k], at) /\ h2[k + 1] = DrawNth(x, num, h2[k], at)
    BY <2>1, <2>2 DEF DrawnAlong
  <2>4. PICK st : st = h[k].st /\ st = h2[k].st
    BY <1>3
  <2>5. CASE st.panicked
    BY <2>1, <2>3, <2>4, <2>5 DEF DrawNth
  <2>6. CASE ~st.panicked
    <3>1. PICK z : z = [x EXCEPT !.st = st]
      OBVIOUS
    <3>2. h[k + 1] = DrawPixel(z, h[k].fb, num, at[1], at[2]) /\ h2[k + 1] = DrawPixel(z, h2[k].fb, num, at[1], at[2])
      BY <2>3, <2>4, <2>6, <3>1 DEF DrawNth
    <3>3. QED
      BY <2>1, <3>2 DEF DrawPixel
  <2>7. QED
    BY <2>5, <2>6
<1>4. QED
  <2> HIDE DEF T
  <2>1. \A k \in 0 .. PIXEL_COUNT : k \in T
    BY <1>1, <1>2, <1>3, UpTo
  <2>2. QED
    BY <2>1 DEF T

(* A frame that is drawn to its end owes nothing to the buffer it was drawn in:   *)
(* whatever borrow_fb returns, an older frame, an image or a blanked buffer, the  *)
(* drawing loop and fb_idx overwrite every byte of it, for every picture size and *)
(* every list of blocks (mod_ctrl.rs:70-88, constants.rs:23-37).                  *)
THEOREM NothingOfTheOldFrame ==
  ASSUME NEW x, IsRenderer(x), NEW buffer \in Frames, NEW buffer2 \in Frames, NEW num \in Int,
         ~DrawFrame(x, buffer, num).st.panicked
  PROVE  DrawFrame(x, buffer2, num) = DrawFrame(x, buffer, num)
<1>1. PIXEL_COUNT \in Nat /\ PIXEL_COUNT \in 0 .. PIXEL_COUNT
  BY FirstPlace
<1>2. PICK h : DrawnAlong(x, buffer, num, h)
  <2>1. FrameBySteps(x, buffer, num)
    BY FrameSteps
  <2>2. QED
    BY <2>1 DEF FrameBySteps, DrawnAlong
<1>3. PICK h2 : DrawnAlong(x, buffer2, num, h2)
  <2>1. FrameBySteps(x, buffer2, num)
    BY FrameSteps
  <2>2. QED
    BY <2>1 DEF FrameBySteps, DrawnAlong
<1>4. PICK d \in Drawings, d2 \in Drawings :
          /\ d = h[PIXEL_COUNT] /\ d = DrawFrame(x, buffer, num)
          /\ d2 = h2[PIXEL_COUNT] /\ d2 = DrawFrame(x, buffer2, num)
  BY <1>1, <1>2, <1>3 DEF DrawnAlong
<1>5. \A k \in 0 .. PIXEL_COUNT : h[k].st = h2[k].st
  BY <1>2, <1>3, SameVariables
<1>6. \A k \in 0 .. PIXEL_COUNT : ~h[k].st.panicked
  BY <1>2, NoPixelPanics
<1>7. \A k \in 0 .. PIXEL_COUNT : ~h2[k].st.panicked
  BY <1>5, <1>6
<1> DEFINE c == [k \in 1 .. PIXEL_COUNT |-> Get(h[k].st, "color", 0)]
<1>8. \A k \in 1 .. PIXEL_COUNT : c[k] = Get(h[k].st, "color", 0) /\ c[k] = Get(h2[k].st, "color", 0)
  <2>1. \A k \in 1 .. PIXEL_COUNT : k \in 0 .. PIXEL_COUNT
    BY <1>1
  <2>2. QED
    BY <1>5, <2>1
<1> HIDE DEF c
<1>9. \A k \in 1 .. PIXEL_COUNT : Shown(d.fb, DrawingOrder[k], c[k]) /\ Shown(d2.fb, DrawingOrder[k], c[k])
  <2>1. \A k \in 1 .. PIXEL_COUNT : Shown(d.fb, DrawingOrder[k], Get(h[k].st, "color", 0))
    BY <1>2, <1>4, <1>6, FrameShown
  <2>2. \A k \in 1 .. PIXEL_COUNT : Shown(d2.fb, DrawingOrder[k], Get(h2[k].st, "color", 0))
    BY <1>3, <1>4, <1>7, FrameShown
  <2>3. QED
    BY <1>8, <2>1, <2>2
<1>10. d.fb = d2.fb
  <2>1. d.fb \in Frames /\ d2.fb \in Frames
    BY DEF Drawings
  <2>2. QED
    BY <1>9, <2>1, ShownAlike
<1>11. d.st = d2.st
  BY <1>1, <1>4, <1>5
<1>12. QED
  BY <1>4, <1>10, <1>11 DEF Drawings

-----------------------------------------------------------------------------

\* Drawing shows the picture of the frame number it starts with, and counts it.
LEMMA PictureDrawn ==
  ASSUME TasksInv, TypesInv, Draw, UNCHANGED workload
  PROVE  PictureFollowsCommands'
<1>1. IsRenderer(r) /\ fb \in Frames /\ frame \in 0 .. FrameModulus - 1 /\ FrameModulus \in Nat \ {0}
  BY TypesParts, CeilingAssumption DEF MainTyped, CeilingAssumption
<1>2. PICK drawn : /\ drawn = DrawFrame(r, fb, frame)
                   /\ r' = [r EXCEPT !.st = drawn.st] /\ fb' = drawn.fb
                   /\ proc' = (IF drawn.st.panicked THEN "dead" ELSE proc)
                   /\ frame' = (frame + 1) % FrameModulus
  BY DEF Draw
<1>3. r' = [st |-> drawn.st, blocks |-> r.blocks]
  BY <1>1, <1>2, RendererParts
<1>4. (frame' - 1) % FrameModulus = frame
  BY <1>1, <1>2
<1>5. ASSUME proc' = "running", FeedsForward(r'.blocks)
      PROVE  ShowsPicture(fb', r', (frame' - 1) % FrameModulus)
  <2>1. ~drawn.st.panicked
    BY <1>2, <1>5
  <2>2. FeedsForward(r.blocks)
    BY <1>3, <1>5
  <2>3. frame \in Int
    BY <1>1
  <2>4. ShowsPicture(drawn.fb, [st |-> drawn.st, blocks |-> r.blocks], frame)
    BY <1>1, <1>2, <2>1, <2>2, <2>3, FramePictured
  <2>5. QED
    BY <1>2, <1>3, <1>4, <2>4
<1>6. QED
  BY <1>5 DEF PictureFollowsCommands

\* Between two frames nothing is claimed once a command is taken.
LEMMA PictureStep ==
  ASSUME TasksInv, TypesInv, [Next]_vars, PictureFollowsCommands
  PROVE  PictureFollowsCommands'
<1>1. CASE UNCHANGED <<workload, mainVars>>
  BY <1>1 DEF PictureFollowsCommands, mainVars, program
<1>2. CASE Main
  <2>1. UNCHANGED workload
    BY <1>2 DEF Main
  <2>2. CASE TakeCommand
    BY <2>2 DEF TakeCommand, PictureFollowsCommands
  <2>3. CASE EndDrain
    BY <2>3 DEF EndDrain, PictureFollowsCommands
  <2>4. CASE Draw
    BY <2>1, <2>4, PictureDrawn
  <2>5. CASE ShowImage
    BY <2>5 DEF ShowImage, PictureFollowsCommands
  <2>6. CASE EndMovie
    <3>1. program # "cloud_ceiling"
      BY <2>6, TypesParts DEF EndMovie, MainTyped
    <3>2. QED
      BY <2>1, <3>1 DEF PictureFollowsCommands, program
  <2>7. CASE Exit
    BY <2>7 DEF Exit, PictureFollowsCommands
  <2>8. QED
    BY <1>2, <2>2, <2>3, <2>4, <2>5, <2>6, <2>7 DEF Main
<1>3. QED
  BY <1>1, <1>2 DEF Next, Network, Connect, Disconnect, AcceptFails, Handle, Led, vars

\* After each frame every LED shows the color that the blocks compute for its place and
\* the frame number, for every size of the picture and all blocks that feed forward,
\* whatever was drawn or sent before; a client that sets the scalars 0 to 2 does not
\* move it, since the loop sets them before they are read (mod_ctrl.rs:70-87).
THEOREM PictureIsOfTheCommands == Spec => []PictureFollowsCommands
<1>1. Init => PictureFollowsCommands
  BY DEF Init, PictureFollowsCommands, NewRenderer, NoVariables
<1>2. TasksInv /\ TypesInv /\ [Next]_vars /\ PictureFollowsCommands => PictureFollowsCommands'
  BY PictureStep
<1>3. TasksInv /\ TasksInv' /\ TypesInv /\ [Next]_vars => TypesInv'
  BY TypesStep
<1>4. Init => TypesInv
  BY TypesInit
<1>5. QED
  BY <1>1, <1>2, <1>3, <1>4, TasksInvariant, PTL DEF Spec

-----------------------------------------------------------------------------
(* Nobody panics without a cause *)

\* The renderer is as a configuration in use made it, but for the values of its
\* variables, and of these a lookup finds the modes fit.
Serves(w, x) ==
    /\ ~x.st.panicked
    /\ \E obj \in InUse(w) : /\ \A k \in Kinds : Len(x.st[k]) = Len(ListOf(obj, k))
                             /\ Range(x.blocks) = Primitives(obj)
    /\ \A m \in Modes(w) : InRange(x.st, "scalar", m) => IsMode(Get(x.st, "scalar", m))

\* A configuration in use is JSON, serves, and makes blocks.
LEMMA InUseTyped ==
  ASSUME NEW w \in Workloads, w.program = "cloud_ceiling", NEW obj \in InUse(w)
  PROVE  /\ Json([obj |-> obj]) /\ ConfigServes(w, obj)
         /\ \A b \in Primitives(obj) : IsBlock(b)
<1>1. Json([obj |-> obj])
  <2>1. CASE obj = InitialConfig
    BY <2>1, JsonAssumption DEF JsonAssumption
  <2>2. CASE obj # InitialConfig
    <3>1. PICK req \in w.requests : req.path = "set_config" /\ Sends(req) /\ obj = req.body.obj
      BY <2>2 DEF InUse
    <3>2. Is(req.body, "obj") /\ Json(req.body)
      BY <3>1, JsonAssumption DEF JsonAssumption, Sends
    <3>3. \A k \in DOMAIN obj : Json5(obj[k])
      BY <3>1, <3>2, JsonLevels
    <3>4. PICK v : v = [obj |-> obj]
      OBVIOUS
    <3>5. Is(v, "obj") /\ v.obj = obj /\ ~Is(v, "num") /\ ~Is(v, "b64") /\ ~Is(v, "arr")
      BY <3>4 DEF Is
    <3>6. \A k \in DOMAIN v.obj : Json5(v.obj[k])
      BY <3>3, <3>5
    <3>7. Json(v)
      BY <3>5, <3>6, Zenon DEF Json, JsonShape, Members
    <3>8. QED
      BY <3>4, <3>7
  <2>3. QED
    BY <2>1, <2>2
<1>2. ConfigServes(w, obj)
  BY RendererAssumption DEF RendererAssumption
<1>3. ASSUME NEW b \in Primitives(obj)
      PROVE  IsBlock(b)
  <2>1. /\ Has(obj, "primitives") /\ Is(obj.primitives, "arr")
        /\ \A v \in Range(obj.primitives.arr) : BlockFits(v)
    BY <1>2 DEF ConfigServes, ConfigFits
  <2>2. PICK v0 : v0 = [obj |-> obj]
    OBVIOUS
  <2>3. Is(v0, "obj") /\ v0.obj = obj /\ Json(v0)
    BY <1>1, <2>2 DEF Is
  <2>4. \A k \in DOMAIN obj : Json5(obj[k])
    BY <2>3, JsonLevels
  <2>5. Json5(obj["primitives"])
    BY <2>1, <2>4 DEF Has
  <2>6. PICK a : a = obj.primitives.arr
    OBVIOUS
  <2>7. \A v \in Range(a) : Json4(v) /\ BlockFits(v)
    BY <2>1, <2>5, <2>6, JsonLevels
  <2>8. PICK v \in Range(a) : b = block_factory(v)
    BY <2>6 DEF Primitives
  <2>9. QED
    BY <2>7, <2>8, block_factoryTyped
<1>4. QED
  BY <1>1, <1>2, <1>3

LEMMA ModesTyped ==
  ASSUME NEW w \in Workloads, w.program = "cloud_ceiling", NEW m \in Modes(w)
  PROVE  m \in Nat
<1>1. PICK b : b \in UNION {Primitives(obj) : obj \in InUse(w)} /\ b.type = "image_lookup" /\ m = b.i.mode
  BY DEF Modes
<1>2. PICK obj \in InUse(w) : b \in Primitives(obj)
  BY <1>1
<1>3. IsBlock(b)
  BY <1>2, InUseTyped
<1>4. Signatures[b.type].inputs = [j \in {"width", "height", "x", "y", "mode", "data"} |->
                                      IF j = "data" THEN "data" ELSE "scalar"]
  BY <1>1 DEF Signatures, Signature, ImageLookupSig
<1>5. b.i \in [{"width", "height", "x", "y", "mode", "data"} -> Nat]
  BY <1>3, <1>4, BlockFields
<1>6. QED
  BY <1>1, <1>5

\* A block that finds what it needs in variables of these lengths and with these modes.
BlockServes(O, st, b) ==
    /\ b.type # "color_interp" /\ Readable(st, b)
    /\ b.type = "image_lookup" => IsMode(In(st, b, "mode")) /\ <<"scalar", b.i.mode>> \notin O
    /\ Writes(b)[1] # "scalar" => InRange(st, Writes(b)[1], Writes(b)[2])

\* What serves has such blocks, a color to show, and leaves the modes alone.
LEMMA BlocksServe ==
  ASSUME NEW w \in Workloads, w.program = "cloud_ceiling", NEW x, IsRenderer(x), Serves(w, x)
  PROVE  /\ \A b \in Range(x.blocks) : IsBlock(b) /\ BlockServes(Owned(x), x.st, b)
         /\ InRange(x.st, "color", 0)
         /\ \A m \in Modes(w) : <<"scalar", m>> \notin Owned(x)
<1>1. PICK obj \in InUse(w) : /\ \A k \in Kinds : Len(x.st[k]) = Len(ListOf(obj, k))
                              /\ Range(x.blocks) = Primitives(obj)
  BY DEF Serves
<1>2. ConfigServes(w, obj) /\ Modes(w) \cap 0 .. 2 = {}
  BY RendererAssumption DEF RendererAssumption
<1>3. \A b \in Range(x.blocks) : IsBlock(b)
  BY DEF IsRenderer
<1>4. "color" \in Kinds /\ "scalar" \in Kinds
  BY DEF Kinds
<1>5. \A b \in Primitives(obj) :
        /\ b.type # "color_interp"
        /\ \A rd \in Reads(b) : rd[2] < Len(ListOf(obj, rd[1]))
        /\ Writes(b)[1] # "scalar" => Writes(b)[2] < Len(ListOf(obj, Writes(b)[1]))
        /\ Writes(b)[1] = "scalar" => Writes(b)[2] \notin Modes(w)
  BY <1>2 DEF ConfigServes
<1>6. \A m \in Modes(w) : <<"scalar", m>> \notin Owned(x)
  <2>1. ASSUME NEW m \in Modes(w), NEW i \in 0 .. 2, <<"scalar", m>> = <<"scalar", i>>
        PROVE  FALSE
    BY <1>2, <2>1
  <2>2. ASSUME NEW m \in Modes(w), NEW b \in Range(x.blocks), <<"scalar", m>> = Writes(b)
        PROVE  FALSE
    BY <1>1, <1>5, <2>2
  <2>3. QED
    BY <2>1, <2>2 DEF Owned
<1>7. ASSUME NEW b \in Range(x.blocks)
      PROVE  BlockServes(Owned(x), x.st, b)
  <2>1. b \in Primitives(obj) /\ IsBlock(b)
    BY <1>1, <1>3
  <2>2. Readable(x.st, b)
    <3>1. ASSUME NEW rd \in Reads(b)
          PROVE  InRange(x.st, rd[1], rd[2])
      BY <1>1, <1>5, <2>1, ReadsTyped DEF InRange
    <3>2. QED
      BY <3>1 DEF Readable
  <2>3. Writes(b)[1] # "scalar" => InRange(x.st, Writes(b)[1], Writes(b)[2])
    <3>1. Writes(b)[1] \in Kinds
      BY <2>1, BlockFields, OutputKinds DEF Writes, Kinds
    <3>2. QED
      BY <1>1, <1>5, <2>1, <3>1 DEF InRange
  <2>4. ASSUME b.type = "image_lookup"
        PROVE  IsMode(In(x.st, b, "mode")) /\ <<"scalar", b.i.mode>> \notin Owned(x)
    <3>1. b.i.mode \in Modes(w)
      BY <2>1, <2>4 DEF Modes
    <3>2. InRange(x.st, "scalar", b.i.mode)
      <4>1. Signatures[b.type].inputs = [j \in {"width", "height", "x", "y", "mode", "data"} |->
                                            IF j = "data" THEN "data" ELSE "scalar"]
        BY <2>4 DEF Signatures, Signature, ImageLookupSig
      <4>2. "mode" \in DOMAIN Signatures[b.type].inputs /\ Signatures[b.type].inputs["mode"] = "scalar"
        BY <4>1
      <4>3. x.st \in Variables
        BY RendererParts
      <4>4. QED
        BY <1>4, <2>1, <2>2, <4>2, <4>3, InputsRead
    <3>3. QED
      BY <1>6, <3>1, <3>2 DEF Serves, In
  <2>5. QED
    BY <1>5, <2>1, <2>2, <2>3, <2>4 DEF BlockServes
<1>8. InRange(x.st, "color", 0)
  BY <1>1, <1>2, <1>4 DEF ConfigServes, InRange
<1>9. QED
  BY <1>3, <1>6, <1>7, <1>8

\* A scalar that is a mode is one that to_u8 takes.
LEMMA ModesAreFit ==
  ASSUME NEW st, NEW b, In(st, b, "mode") \in Int, IsMode(In(st, b, "mode"))
  PROVE  ModeFits(st, b)
<1>1. ONE \in Nat \ {0}
  BY OneAssumption DEF OneAssumption
<1>2. PICK m \in Int : m = In(st, b, "mode")
  OBVIOUS
<1>3. m > -ONE /\ m \div ONE <= 255
  BY <1>2 DEF IsMode, Floor
<1>4. CASE m < 0
  <2>1. (-m) \div ONE = 0
    BY <1>1, <1>3, <1>4
  <2>2. Mode(st, b) = -((-m) \div ONE)
    BY <1>2, <1>4 DEF Mode
  <2>3. QED
    BY <1>2, <1>3, <2>1, <2>2 DEF ModeFits, Byte
<1>5. CASE m >= 0
  <2>1. m \div ONE \in Nat
    BY <1>1, <1>5
  <2>2. Mode(st, b) = m \div ONE
    BY <1>2, <1>5 DEF Mode, Floor
  <2>3. QED
    BY <1>2, <1>3, <2>1, <2>2 DEF ModeFits, Byte
<1>6. QED
  BY <1>4, <1>5

\* Such a block panics on no variables like these.
LEMMA BlockDoesNotPanic ==
  ASSUME NEW O, NEW s \in Variables, NEW t \in Variables, Alike(O, s, t), ~t.panicked,
         NEW b, IsBlock(b), BlockServes(O, s, b)
  PROVE  ~execute(t, b).panicked
<1>1. "scalar" \in Kinds
  BY DEF Kinds
<1>2. Readable(t, b)
  <2>1. ASSUME NEW rd \in Reads(b)
        PROVE  InRange(t, rd[1], rd[2])
    <3>1. rd[1] \in Kinds /\ rd[2] \in Nat
      BY ReadsTyped
    <3>2. InRange(s, rd[1], rd[2])
      BY DEF BlockServes, Readable
    <3>3. PICK kind \in Kinds, i \in Nat : kind = rd[1] /\ i = rd[2]
      BY <3>1
    <3>4. InRange(s, kind, i) <=> InRange(t, kind, i)
      BY Reading
    <3>5. QED
      BY <3>2, <3>3, <3>4
  <2>2. QED
    BY <2>1 DEF Readable
<1>3. b.type = "image_lookup" => ModeFits(t, b)
  <2>1. SUFFICES ASSUME b.type = "image_lookup"
                 PROVE  ModeFits(t, b)
    OBVIOUS
  <2>2. Signatures[b.type].inputs = [j \in {"width", "height", "x", "y", "mode", "data"} |->
                                        IF j = "data" THEN "data" ELSE "scalar"]
    BY <2>1 DEF Signatures, Signature, ImageLookupSig
  <2>3. "mode" \in DOMAIN Signatures[b.type].inputs /\ Signatures[b.type].inputs["mode"] = "scalar"
    BY <2>2
  <2>4. Readable(s, b)
    BY DEF BlockServes
  <2>5. b.i["mode"] \in Nat /\ InRange(s, "scalar", b.i["mode"])
    BY <1>1, <2>3, <2>4, InputsRead
  <2>6. In(t, b, "mode") \in Int
    BY <1>1, <1>2, <2>3, InputsRead
  <2>7. IsMode(In(s, b, "mode")) /\ <<"scalar", b.i["mode"]>> \notin O
    BY <2>1 DEF BlockServes
  <2>8. Get(s, "scalar", b.i["mode"]) = Get(t, "scalar", b.i["mode"])
    BY <1>1, <2>5, <2>7, Reading
  <2>9. In(s, b, "mode") = In(t, b, "mode")
    BY <2>8 DEF In
  <2>10. QED
    BY <2>6, <2>7, <2>9, ModesAreFit
<1>4. Computes(t, b)
  BY <1>2, <1>3 DEF Computes, BlockServes
<1>0. PICK v : v = Computed(t, b)
  OBVIOUS
<1>5. PICK kind \in Kinds, i \in Nat : kind = Signatures[b.type].output /\ i = b.o
  BY BlockFields, OutputKinds DEF Kinds
<1>6. execute(t, b) = SetVariable(t, kind, i, v)
  BY <1>0, <1>4, <1>5 DEF execute
<1>7. kind # "scalar" => InRange(t, kind, i)
  <2>1. kind # "scalar" => InRange(s, kind, i)
    BY <1>5 DEF BlockServes, Writes
  <2>2. QED
    BY <2>1, Reading
<1>8. ~SetVariable(t, kind, i, v).panicked
  <2>1. InRange(t, kind, i) => SetVariable(t, kind, i, v).panicked = t.panicked
    BY VariableSet
  <2>2. ~InRange(t, kind, i) => SetVariable(t, kind, i, v).panicked = (t.panicked \/ kind # "scalar")
    BY VariableSet
  <2>3. QED
    BY <1>7, <2>1, <2>2
<1>9. QED
  BY <1>6, <1>8

LEMMA BlocksDoNotPanic ==
  ASSUME NEW O, NEW s \in Variables, NEW t \in Variables, Alike(O, s, t), ~t.panicked,
         NEW q, NEW n, BlockList(q, n), \A k \in 1 .. n : BlockServes(O, s, q[k]) /\ Writes(q[k]) \in O
  PROVE  ~Executed(t, q).panicked /\ Alike(O, s, Executed(t, q))
<1>1. n \in Nat /\ \A k \in 1 .. n : IsBlock(q[k])
  BY DEF BlockList
<1>2. ExecutedBySteps(t, q, n)
  BY ExecutedSteps
<1>3. PICK h \in [0 .. n -> Variables] : /\ h[0] = t
                                         /\ \A k \in 1 .. n : h[k] = execute(h[k - 1], q[k])
                                         /\ Executed(t, q) = h[n]
  BY <1>2 DEF ExecutedBySteps
<1> DEFINE T == {k \in 0 .. n : ~h[k].panicked /\ Alike(O, s, h[k])}
<1>4. 0 \in T
  BY <1>1, <1>3
<1>5. ASSUME NEW k \in 0 .. n - 1, k \in T
      PROVE  k + 1 \in T
  <2>1. k + 1 \in 1 .. n /\ (k + 1) - 1 = k /\ k \in 0 .. n /\ k + 1 \in 0 .. n
    BY <1>1
  <2>2. PICK b : b = q[k + 1] /\ IsBlock(b) /\ BlockServes(O, s, b) /\ Writes(b) \in O
    BY <1>1, <2>1
  <2>9. PICK a \in Variables : a = h[k]
    BY <2>1
  <2>3. h[k + 1] = execute(a, b)
    BY <1>3, <2>1, <2>2, <2>9
  <2>4. ~a.panicked /\ Alike(O, s, a)
    BY <1>5, <2>9
  <2>5. ~execute(a, b).panicked
    BY <2>2, <2>4, BlockDoesNotPanic
  <2>6. Alike(O, a, execute(a, b))
    BY <2>2, <2>5, executeAlike
  <2>7. Alike(O, s, execute(a, b))
    BY <2>4, <2>6, AlikeTransitive
  <2>8. QED
    BY <2>1, <2>3, <2>5, <2>7
<1>6. n \in T
  <2> HIDE DEF T
  <2>1. \A k \in 0 .. n : k \in T
    BY <1>1, <1>4, <1>5, UpTo
  <2>2. QED
    BY <1>1, <2>1
<1>7. QED
  BY <1>3, <1>6

\* No pixel panics, and no frame.
LEMMA PixelDoesNotPanic ==
  ASSUME NEW w \in Workloads, w.program = "cloud_ceiling", NEW x, IsRenderer(x), Serves(w, x),
         NEW z, IsRenderer(z), z.blocks = x.blocks, Alike(Owned(x), x.st, z.st), ~z.st.panicked,
         NEW num \in Int, NEW col \in Int, NEW row \in Int
  PROVE  ~PixelState(z, num, col, row).panicked
<1>1. x.st \in Variables /\ z.st \in Variables /\ BlockList(x.blocks, Len(x.blocks))
  BY RendererParts
<1>2. PICK q, n : q = x.blocks /\ n = Len(x.blocks) /\ BlockList(q, n) /\ n \in Nat /\ DOMAIN q = 1 .. n
  BY <1>1 DEF BlockList
<1>3. PICK O : O = Owned(x) /\ Coordinates \subseteq O
  BY DEF Owned, Coordinates
<1>4. PICK p \in Variables : p = Placed(z.st, num, col, row) /\ Alike(O, z.st, p)
  BY <1>1, <1>3, PlacedTyped, PlacedAlike
<1>5. Alike(O, x.st, p)
  BY <1>3, <1>4, AlikeTransitive
<1>6. ~p.panicked
  BY <1>4 DEF Alike
<1>7. \A k \in 1 .. n : BlockServes(O, x.st, q[k]) /\ Writes(q[k]) \in O
  <2>1. ASSUME NEW k \in 1 .. n
        PROVE  BlockServes(O, x.st, q[k]) /\ Writes(q[k]) \in O
    <3>1. q[k] \in Range(x.blocks)
      BY <1>2 DEF Range
    <3>2. QED
      BY <1>3, <3>1, BlocksServe DEF Owned
  <2>2. QED
    BY <2>1
<1>8. PICK st \in Variables : st = Executed(p, q)
  BY <1>2, ExecutedTyped
<1>9. ~st.panicked /\ Alike(O, x.st, st)
  BY <1>1, <1>2, <1>5, <1>6, <1>7, <1>8, BlocksDoNotPanic
<1>10. InRange(st, "color", 0)
  <2>1. InRange(x.st, "color", 0) /\ "color" \in Kinds
    BY BlocksServe DEF Kinds
  <2>2. QED
    BY <1>1, <1>9, <2>1, Reading, 0 \in Nat
<1>11. PixelState(z, num, col, row) = IF InRange(st, "color", 0) THEN st ELSE Panicked(st)
  BY <1>2, <1>4, <1>8 DEF PixelState, Executed
<1>12. QED
  BY <1>9, <1>10, <1>11

LEMMA FrameDoesNotPanic ==
  ASSUME NEW w \in Workloads, w.program = "cloud_ceiling", NEW x, IsRenderer(x), Serves(w, x),
         NEW buffer \in Frames, NEW num \in Int
  PROVE  ~DrawFrame(x, buffer, num).st.panicked
<1>1. PIXEL_COUNT \in Nat /\ \A k \in 1 .. PIXEL_COUNT : DrawingOrder[k] \in Places
  BY FirstPlace, VisitedPlaces
<1>2. FrameBySteps(x, buffer, num)
  BY FrameSteps
<1>3. PICK h : DrawnAlong(x, buffer, num, h)
  BY <1>2 DEF FrameBySteps, DrawnAlong
<1> DEFINE T == {k \in 0 .. PIXEL_COUNT : ~h[k].st.panicked /\ Alike(Owned(x), x.st, h[k].st)}
<1>4. 0 \in T
  BY <1>1, <1>3, AlikeItself DEF DrawnAlong, Serves
<1>5. ASSUME NEW k \in 0 .. PIXEL_COUNT - 1, k \in T
      PROVE  k + 1 \in T
  <2>1. k + 1 \in 1 .. PIXEL_COUNT /\ (k + 1) - 1 = k /\ k \in 0 .. PIXEL_COUNT /\ k + 1 \in 0 .. PIXEL_COUNT
    BY <1>1
  <2>2. PICK d \in Drawings, at \in Places : d = h[k] /\ at = DrawingOrder[k + 1]
    BY <1>1, <1>3, <2>1 DEF DrawnAlong
  <2>3. PICK e : e = h[k + 1] /\ e = DrawNth(x, num, d, at)
    BY <1>3, <2>1, <2>2 DEF DrawnAlong
  <2>4. ~d.st.panicked /\ Alike(Owned(x), x.st, d.st) /\ d.st \in Variables
    BY <1>5, <2>2 DEF Drawings
  <2>5. at[1] \in Int /\ at[2] \in Int
    BY Layout DEF Places, Columns, Rows
  <2>6. PICK z : z = [st |-> d.st, blocks |-> x.blocks]
    OBVIOUS
  <2>7. [x EXCEPT !.st = d.st] = z
    BY <2>6, RendererParts
  <2>8. IsRenderer(z) /\ z.st = d.st /\ z.blocks = x.blocks
    BY <2>4, <2>6, RendererParts
  <2>9. ~PixelState(z, num, at[1], at[2]).panicked
    BY <2>4, <2>5, <2>8, PixelDoesNotPanic
  <2>10. e.st = PixelState(z, num, at[1], at[2])
    BY <2>3, <2>4, <2>7 DEF DrawNth, DrawPixel
  <2>11. ~e.st.panicked
    BY <2>9, <2>10
  <2>12. Alike(Owned(x), d.st, e.st)
    BY <2>3, <2>11, DrawNthAlike
  <2>13. Alike(Owned(x), x.st, e.st)
    BY <2>4, <2>12, AlikeTransitive
  <2>14. QED
    BY <2>1, <2>3, <2>11, <2>13
<1>6. PIXEL_COUNT \in T
  <2> HIDE DEF T
  <2>1. \A k \in 0 .. PIXEL_COUNT : k \in T
    BY <1>1, <1>4, <1>5, UpTo
  <2>2. QED
    BY <1>1, <2>1
<1>7. QED
  BY <1>3, <1>6 DEF DrawnAlong

\* What has been drawn still serves.
LEMMA DrawnServes ==
  ASSUME NEW w \in Workloads, w.program = "cloud_ceiling", NEW x, IsRenderer(x), Serves(w, x),
         NEW buffer \in Frames, NEW num \in Int, NEW drawn, drawn = DrawFrame(x, buffer, num)
  PROVE  ~drawn.st.panicked /\ Serves(w, [st |-> drawn.st, blocks |-> x.blocks])
<1>1. ~drawn.st.panicked
  BY FrameDoesNotPanic
<1>2. Alike(Owned(x), x.st, drawn.st)
  BY <1>1, DrawFrameAlike
<1>3. x.st \in Variables /\ drawn.st \in Variables
  BY RendererParts, DrawFrameTyped DEF Drawings
<1>4. PICK z : z = [st |-> drawn.st, blocks |-> x.blocks]
  OBVIOUS
<1>5. \A k \in Kinds : Len(z.st[k]) = Len(x.st[k])
  BY <1>2, <1>4 DEF Alike
<1>6. PICK obj \in InUse(w) : /\ \A k \in Kinds : Len(x.st[k]) = Len(ListOf(obj, k))
                              /\ Range(x.blocks) = Primitives(obj)
  BY DEF Serves
<1>7. ASSUME NEW m \in Modes(w), InRange(z.st, "scalar", m)
      PROVE  IsMode(Get(z.st, "scalar", m))
  <2>1. "scalar" \in Kinds /\ <<"scalar", m>> \notin Owned(x) /\ m \in Nat
    <3>1. m \in Nat
      BY ModesTyped
    <3>2. QED
      BY <3>1, BlocksServe DEF Kinds
  <2>2. InRange(x.st, "scalar", m) /\ Get(x.st, "scalar", m) = Get(z.st, "scalar", m)
    BY <1>2, <1>3, <1>4, <1>7, <2>1, Reading
  <2>3. QED
    BY <2>2 DEF Serves
<1>8. Serves(w, z)
  BY <1>1, <1>4, <1>5, <1>6, <1>7 DEF Serves
<1>9. QED
  BY <1>1, <1>4, <1>8

\* A configuration in use makes what serves of any renderer that has not panicked.
LEMMA ConfigServed ==
  ASSUME NEW w \in Workloads, w.program = "cloud_ceiling",
         NEW x, IsRenderer(x), ~x.st.panicked, NEW obj \in InUse(w)
  PROVE  Serves(w, update_cfg(x, obj))
<1>1. /\ ConfigFits(obj) /\ Json([obj |-> obj])
      /\ \A m \in Modes(w) : m < Len(ListOf(obj, "scalar")) => IsMode(ListOf(obj, "scalar")[m + 1].num)
  BY InUseTyped DEF ConfigServes
<1>2. /\ Has(obj, "vars") /\ StanzasFit(obj.vars)
      /\ Has(obj, "primitives") /\ Is(obj.primitives, "arr")
  BY <1>1 DEF ConfigFits
<1>3. PICK v0 : v0 = [obj |-> obj]
  OBVIOUS
<1>4. \A k \in DOMAIN obj : Json5(obj[k])
  <2>1. Is(v0, "obj") /\ v0.obj = obj /\ Json(v0)
    BY <1>1, <1>3 DEF Is
  <2>2. QED
    BY <2>1, JsonLevels
<1>5. PICK stanzas : stanzas = obj.vars /\ Json5(stanzas) /\ StanzasFit(stanzas)
  <2>1. Json5(obj["vars"])
    BY <1>2, <1>4 DEF Has
  <2>2. QED
    BY <1>2, <2>1
<1>6. ASSUME NEW kind \in Kinds
      PROVE  /\ Len(ListOf(obj, kind)) \in Nat
             /\ DOMAIN ListOf(obj, kind) = 1 .. Len(ListOf(obj, kind))
  <2>1. Is(stanzas, "obj") /\ Has(stanzas.obj, Stanza[kind]) /\ Is(stanzas.obj[Stanza[kind]], "arr")
    BY <1>5 DEF StanzasFit
  <2>2. PICK v : v = stanzas.obj[Stanza[kind]] /\ Json4(v) /\ Is(v, "arr")
    BY <1>5, <2>1, JsonLevels DEF Has
  <2>3. PICK a : a = v.arr /\ a \in Seq(Range(a))
    BY <2>2, JsonLevels DEF JsonShape
  <2>4. ListOf(obj, kind) = a
    BY <1>5, <2>2, <2>3 DEF ListOf
  <2>5. QED
    BY <2>3, <2>4, SequenceOf
<1>7. x.st \in Variables
  BY RendererParts
<1>8. DOMAIN x.st = Kinds \cup {"panicked"} /\ "panicked" \notin Kinds
  BY <1>7 DEF Variables, Kinds
<1>9. PICK st : st = from_obj(x.st, obj.vars)
  OBVIOUS
<1>10. st = [k \in DOMAIN x.st |->
                IF k = "panicked" THEN x.st.panicked
                ELSE [i \in DOMAIN ListOf(obj, k) |-> FromJson(k, ListOf(obj, k)[i])]]
  BY <1>2, <1>9 DEF from_obj, ListOf
<1>11. ~st.panicked
  BY <1>8, <1>10
<1>12. \A kind \in Kinds : st[kind] = [i \in 1 .. Len(ListOf(obj, kind)) |-> FromJson(kind, ListOf(obj, kind)[i])]
  BY <1>6, <1>8, <1>10
<1>13. ASSUME NEW kind \in Kinds
       PROVE  Len(st[kind]) = Len(ListOf(obj, kind))
  <2>1. PICK n, f : n \in Nat /\ n = Len(ListOf(obj, kind)) /\ f = st[kind]
    BY <1>6
  <2>2. DOMAIN f = 1 .. n
    BY <1>12, <2>1
  <2>3. QED
    BY <2>1, <2>2
<1>14. ASSUME NEW m \in Modes(w), InRange(st, "scalar", m)
       PROVE  IsMode(Get(st, "scalar", m))
  <2>1. m \in Nat /\ "scalar" \in Kinds
    BY ModesTyped DEF Kinds
  <2>2. m < Len(ListOf(obj, "scalar"))
    BY <1>13, <1>14, <2>1 DEF InRange
  <2>3. PICK n \in Nat : n = Len(ListOf(obj, "scalar"))
    BY <1>6, <2>1
  <2>4. m + 1 \in 1 .. n
    BY <2>1, <2>2, <2>3
  <2>5. st["scalar"][m + 1] = FromJson("scalar", ListOf(obj, "scalar")[m + 1])
    BY <1>12, <2>1, <2>3, <2>4
  <2>6. Get(st, "scalar", m) = ListOf(obj, "scalar")[m + 1].num
    BY <2>5 DEF Get, FromJson
  <2>7. QED
    BY <1>1, <2>2, <2>6
<1>15. PICK y : y = update_cfg(x, obj)
  OBVIOUS
<1>16. y = [st |-> st, blocks |-> [i \in DOMAIN obj.primitives.arr |-> block_factory(obj.primitives.arr[i])]]
  BY <1>1, <1>9, <1>15 DEF update_cfg
<1>17. y.st = st /\ Range(y.blocks) = Primitives(obj)
  BY <1>16 DEF Range, Primitives
<1>18. Serves(w, y)
  BY <1>11, <1>13, <1>14, <1>17 DEF Serves
<1>19. QED
  BY <1>15, <1>18

\* So does a setting that fits the configurations in use.
LEMMA SettingServed ==
  ASSUME NEW w \in Workloads, w.program = "cloud_ceiling", NEW x, IsRenderer(x), Serves(w, x),
         NEW kind \in Kinds, NEW i \in Nat, NEW v, SettingServes(w, kind, i, v)
  PROVE  Serves(w, Apply(x, VarMsg(kind, i, v)))
<1>1. PICK s \in Variables : s = x.st /\ x = [st |-> s, blocks |-> x.blocks]
  BY RendererParts
<1>2. PICK t : t = SetVariable(s, kind, i, v)
  OBVIOUS
<1>3. PICK y : y = Apply(x, VarMsg(kind, i, v))
  OBVIOUS
<1>4. y = [st |-> t, blocks |-> x.blocks]
  BY <1>1, <1>2, <1>3, ApplySetting
<1>5. PICK obj \in InUse(w) : /\ \A k \in Kinds : Len(s[k]) = Len(ListOf(obj, k))
                              /\ Range(x.blocks) = Primitives(obj)
  BY <1>1 DEF Serves
<1>6. kind # "scalar" => InRange(s, kind, i)
  BY <1>5 DEF SettingServes, InRange
<1>7. ~s.panicked
  BY <1>1 DEF Serves
<1>8. ~t.panicked
  <2>1. InRange(s, kind, i) => t.panicked = s.panicked
    BY <1>2, VariableSet
  <2>2. ~InRange(s, kind, i) => t.panicked = (s.panicked \/ kind # "scalar")
    BY <1>2, VariableSet
  <2>3. QED
    BY <1>6, <1>7, <2>1, <2>2
<1>9. \A k \in Kinds : Len(t[k]) = Len(s[k])
  BY <1>2, VariableSet
<1>10. ASSUME NEW m \in Modes(w), InRange(t, "scalar", m)
       PROVE  IsMode(Get(t, "scalar", m))
  <2>1. m \in Nat /\ "scalar" \in Kinds
    BY ModesTyped DEF Kinds
  <2>2. InRange(s, "scalar", m)
    BY <1>9, <1>10, <2>1 DEF InRange
  <2>3. IsMode(Get(s, "scalar", m))
    BY <1>1, <2>2 DEF Serves
  <2>4. Len(s["scalar"]) \in Nat
    BY <2>1, VariablesOfKind
  <2>5. m + 1 \in 1 .. Len(s["scalar"])
    BY <2>1, <2>2, <2>4 DEF InRange
  <2>6. CASE InRange(s, kind, i)
    <3>1. t["scalar"][m + 1] = IF "scalar" = kind /\ m + 1 = i + 1 THEN v ELSE s["scalar"][m + 1]
      BY <1>2, <2>1, <2>5, <2>6, VariableSet
    <3>2. CASE kind = "scalar" /\ m = i
      BY <3>1, <3>2 DEF SettingServes, Get
    <3>3. CASE ~(kind = "scalar" /\ m = i)
      <4>1. ~("scalar" = kind /\ m + 1 = i + 1)
        BY <2>1, <3>3
      <4>2. QED
        BY <2>3, <3>1, <4>1 DEF Get
    <3>4. QED
      BY <3>2, <3>3
  <2>7. CASE ~InRange(s, kind, i)
    <3>1. t["scalar"] = s["scalar"]
      BY <1>2, <2>1, <2>7, VariableSet
    <3>2. QED
      BY <2>3, <3>1 DEF Get
  <2>8. QED
    BY <2>6, <2>7
<1>11. Serves(w, y)
  BY <1>4, <1>5, <1>8, <1>9, <1>10 DEF Serves
<1>12. QED
  BY <1>3, <1>11

\* Such commands are all that is sent while nobody sends a misfit.
CommandServes(w, msg) ==
    \/ \E obj \in InUse(w) : msg = Config(obj)
    \/ \E kind \in Kinds, i \in Nat : \E v : msg = VarMsg(kind, i, v) /\ SettingServes(w, kind, i, v)

LEMMA SentServes ==
  ASSUME NEW w \in Workloads, w.program = "cloud_ceiling", NEW req \in w.requests,
         Sends(req), req \notin Misfits, req.path # "set_white_led"
  PROVE  CommandServes(w, Message(req.path, req.body.obj))
<1>1. Is(req.body, "obj") /\ FieldsFit(req.path, req.body.obj) /\ req.path \in Routes
  BY DEF Sends, NotFound
<1>2. CASE req.path = "set_config"
  <2>1. Message(req.path, req.body.obj) = Config(req.body.obj)
    BY <1>2 DEF Message
  <2>2. req.body.obj \in InUse(w)
    BY <1>2 DEF InUse
  <2>3. QED
    BY <2>1, <2>2 DEF CommandServes
<1>3. CASE req.path # "set_config"
  <2>1. PICK kind : kind = VariableRoutes[req.path]
    OBVIOUS
  <2>2. req.path \in DOMAIN VariableRoutes /\ kind \in Kinds
    BY <1>1, <1>3, <2>1 DEF Routes, VariableRoutes, Kinds
  <2>3. PICK obj : obj = req.body.obj
    OBVIOUS
  <2>4. Has(obj, "index") /\ IsUsize(obj.index)
    BY <1>1, <1>3, <2>3 DEF FieldsFit
  <2>5. Json5(obj["index"])
    <3>1. Json(req.body)
      BY <1>1, JsonAssumption DEF JsonAssumption
    <3>2. \A k \in DOMAIN req.body.obj : Json5(req.body.obj[k])
      BY <1>1, <3>1, JsonLevels
    <3>3. QED
      BY <2>3, <2>4, <3>2 DEF Has
  <2>6. PICK i \in Nat : i = AsUsize(obj.index)
    BY <2>4, <2>5, JsonLevels, UsizeIsNat
  <2>7. PICK v : v = FromJson(kind, obj.value)
    OBVIOUS
  <2>8. Message(req.path, req.body.obj) = VarMsg(kind, i, v)
    BY <1>3, <2>1, <2>3, <2>6, <2>7 DEF Message
  <2>9. SettingServes(w, kind, i, v)
    <3>1. LET k == VariableRoutes[req.path]
          IN  SettingServes(w, k, AsUsize(req.body.obj.index), FromJson(k, req.body.obj.value))
      BY <2>2, RendererAssumption DEF RendererAssumption
    <3>2. QED
      BY <2>1, <2>3, <2>6, <2>7, <3>1
  <2>10. QED
    BY <2>2, <2>8, <2>9 DEF CommandServes
<1>4. QED
  BY <1>2, <1>3

LEMMA CommandServed ==
  ASSUME NEW w \in Workloads, w.program = "cloud_ceiling", NEW x, IsRenderer(x), NEW msg, CommandServes(w, msg),
         \/ Serves(w, x)
         \/ ~x.st.panicked /\ msg = Config(InitialConfig)
  PROVE  Serves(w, Apply(x, msg))
<1>1. ~x.st.panicked
  BY DEF Serves
<1>2. ASSUME NEW obj \in InUse(w), msg = Config(obj)
      PROVE  Serves(w, Apply(x, msg))
  <2>1. Apply(x, Config(obj)) = update_cfg(x, obj)
    BY ApplyConfig
  <2>2. Serves(w, update_cfg(x, obj))
    BY <1>1, ConfigServed
  <2>3. QED
    BY <1>2, <2>1, <2>2
<1>3. CASE msg = Config(InitialConfig)
  BY <1>2, <1>3 DEF InUse
<1>4. CASE Serves(w, x)
  <2>1. ASSUME NEW kind \in Kinds, NEW i \in Nat, NEW v, msg = VarMsg(kind, i, v), SettingServes(w, kind, i, v)
        PROVE  Serves(w, Apply(x, msg))
    BY <1>4, <2>1, SettingServed
  <2>2. QED
    BY <1>2, <2>1 DEF CommandServes
<1>5. QED
  BY <1>3, <1>4

\* While no burst overflowed the channel and nobody sent a misfit, the renderer serves,
\* or is about to take its first configuration, and what waits leaves it serving.
FirstWaits ==
    /\ phase = "drain" /\ r = NewRenderer
    /\ mods.unread # <<>> /\ mods.unread[1] = Config(InitialConfig)

RendererServes ==
    program = "cloud_ceiling" /\ "mods" \notin overrun /\ ~misfit =>
        /\ proc # "dead"
        /\ \A i \in DOMAIN mods.unread : CommandServes(workload, mods.unread[i])
        /\ Serves(workload, r) \/ FirstWaits

LEMMA ServesAccepted ==
  ASSUME TasksInv, RendererServes, NEW req \in workload.requests, Sends(req), req.path # "set_white_led",
         NEW msg \in Commands, msg = Message(req.path, req.body.obj), SendMod(msg),
         misfit' = (misfit \/ req \in Misfits), UNCHANGED <<workload, mainVars>>
  PROVE  RendererServes'
<1>1. SUFFICES ASSUME program' = "cloud_ceiling", "mods" \notin overrun', ~misfit'
               PROVE  /\ proc' # "dead"
                      /\ \A i \in DOMAIN mods'.unread : CommandServes(workload', mods'.unread[i])
                      /\ Serves(workload', r') \/ FirstWaits'
  BY DEF RendererServes
<1>2. program' = program /\ workload.program = "cloud_ceiling" /\ UNCHANGED <<workload, proc, phase, r>>
  BY <1>1 DEF program, mainVars
<1>3. /\ "mods" \notin overrun /\ ~Full(mods) /\ ~misfit /\ req \notin Misfits
      /\ workload \in Workloads /\ ChannelOK(mods)
  BY <1>1 DEF SendMod, TasksInv, ChannelsOK
<1>4. /\ proc # "dead"
      /\ \A i \in DOMAIN mods.unread : CommandServes(workload, mods.unread[i])
      /\ Serves(workload, r) \/ FirstWaits
  BY <1>1, <1>2, <1>3 DEF RendererServes
<1>5. CommandServes(workload, msg)
  BY <1>2, <1>3, SentServes
<1>6. mods' = [mods EXCEPT !.unread = Append(mods.unread, msg)]
  BY <1>3 DEF SendMod, Sent
<1>7. PICK q \in Seq(Commands) : q = mods.unread /\ mods'.unread = Append(q, msg)
  BY <1>3, <1>6 DEF ChannelOK, Channel
<1>8. PICK q2 : /\ q2 = Append(q, msg) /\ q2 \in Seq(Commands) /\ Len(q2) = Len(q) + 1 /\ q2[Len(q) + 1] = msg
                /\ \A i \in 1 .. Len(q) : q2[i] = q[i]
  <2>1. PICK q2 : q2 = Append(q, msg)
    OBVIOUS
  <2>2. QED
    BY <2>1, AppendProperties
<1>9. Len(q) \in Nat /\ DOMAIN q = 1 .. Len(q) /\ DOMAIN q2 = 1 .. Len(q) + 1
  BY <1>8, LenProperties
<1>10. \A i \in DOMAIN q2 : CommandServes(workload, q2[i])
  BY <1>4, <1>5, <1>7, <1>8, <1>9
<1>11. FirstWaits => FirstWaits'
  <2>1. ASSUME FirstWaits
        PROVE  q2 # <<>> /\ q2[1] = q[1]
    <3>1. q # <<>>
      BY <1>7, <2>1 DEF FirstWaits
    <3>2. Len(q) # 0
      BY <3>1, EmptySeq
    <3>3. Len(q2) # 0 /\ 1 \in 1 .. Len(q)
      BY <1>8, <1>9, <3>2
    <3>4. q2 # <<>>
      BY <3>3
    <3>5. QED
      BY <1>8, <3>3, <3>4
  <2>2. QED
    BY <1>2, <1>7, <1>8, <2>1 DEF FirstWaits
<1>12. QED
  BY <1>2, <1>4, <1>7, <1>8, <1>10, <1>11

LEMMA ServesMain ==
  ASSUME TasksInv, TypesInv, RendererServes, Main, proc = "running"
  PROVE  RendererServes'
<1>1. SUFFICES ASSUME program' = "cloud_ceiling", "mods" \notin overrun', ~misfit'
               PROVE  /\ proc' # "dead"
                      /\ \A i \in DOMAIN mods'.unread : CommandServes(workload', mods'.unread[i])
                      /\ Serves(workload', r') \/ FirstWaits'
  BY DEF RendererServes
<1>2. /\ UNCHANGED <<workload, overrun, misfit>> /\ program' = program
      /\ workload.program = "cloud_ceiling" /\ program = "cloud_ceiling"
  BY <1>1 DEF Main, history, program
<1>3. /\ \A i \in DOMAIN mods.unread : CommandServes(workload, mods.unread[i])
      /\ Serves(workload, r) \/ FirstWaits
  BY <1>1, <1>2 DEF RendererServes
<1>4. /\ workload \in Workloads /\ ChannelOK(mods) /\ IsRenderer(r) /\ phase # "recv"
      /\ ~mods.lagged /\ fb \in Frames /\ frame \in Int
  BY <1>1, <1>2 DEF TasksInv, ChannelsOK, TypesInv, TypeOK, Frames
<1>5. CASE TakeCommand
  <2>1. PICK msg : msg = Head(mods.unread)
    OBVIOUS
  <2>2. /\ HasMessage(mods) /\ mods' = Taken(mods) /\ r' = Apply(r, msg)
        /\ proc' = (IF r'.st.panicked THEN "dead" ELSE proc)
    BY <1>5, <2>1 DEF TakeCommand
  <2>3. /\ 1 \in DOMAIN mods.unread /\ msg = mods.unread[1]
        /\ \A i \in DOMAIN mods'.unread :
              i + 1 \in DOMAIN mods.unread /\ mods'.unread[i] = mods.unread[i + 1]
    BY <1>4, <2>1, <2>2, TakenOK
  <2>4. CommandServes(workload, msg)
    BY <1>3, <2>3
  <2>5. FirstWaits => ~r.st.panicked /\ msg = Config(InitialConfig)
    BY <2>3 DEF FirstWaits, NewRenderer, NoVariables
  <2>6. Serves(workload, Apply(r, msg))
    BY <1>2, <1>3, <1>4, <2>4, <2>5, CommandServed
  <2>7. ~r'.st.panicked
    BY <2>2, <2>6 DEF Serves
  <2>8. QED
    BY <1>2, <1>3, <2>2, <2>3, <2>6, <2>7
<1>6. CASE Draw
  <2>1. PICK drawn : drawn = DrawFrame(r, fb, frame)
    OBVIOUS
  <2>2. /\ UNCHANGED mods /\ r' = [r EXCEPT !.st = drawn.st]
        /\ proc' = (IF drawn.st.panicked THEN "dead" ELSE proc) /\ phase = "draw"
    BY <1>6, <2>1 DEF Draw
  <2>3. Serves(workload, r)
    BY <1>3, <2>2 DEF FirstWaits
  <2>4. ~drawn.st.panicked /\ Serves(workload, [st |-> drawn.st, blocks |-> r.blocks])
    BY <1>2, <1>4, <2>1, <2>3, DrawnServes
  <2>5. r' = [st |-> drawn.st, blocks |-> r.blocks]
    BY <1>4, <2>2, RendererParts
  <2>6. QED
    BY <1>2, <1>3, <2>2, <2>4, <2>5
<1>7. CASE EndDrain
  <2>1. mods.unread = <<>>
    BY <1>4, <1>7 DEF EndDrain, HasMessage
  <2>2. Serves(workload, r) /\ UNCHANGED <<r, proc>> /\ mods'.unread = mods.unread
    BY <1>3, <1>4, <1>7, <2>1, ToldOK DEF EndDrain, FirstWaits
  <2>3. QED
    BY <1>2, <1>3, <2>2
<1>8. CASE Exit
  <2>1. UNCHANGED <<r, mods, phase>> /\ proc' = "exited"
    BY <1>8 DEF Exit
  <2>2. QED
    BY <1>2, <1>3, <2>1 DEF FirstWaits
<1>9. CASE ShowImage \/ EndMovie
  BY <1>4, <1>9 DEF ShowImage, EndMovie
<1>10. QED
  BY <1>5, <1>6, <1>7, <1>8, <1>9 DEF Main

LEMMA ServesStep ==
  ASSUME TasksInv, TypesInv, RendererServes, [Next]_vars
  PROVE  RendererServes'
<1>1. UNCHANGED <<workload, mainVars, mods, overrun>> /\ (misfit => misfit') => RendererServes'
  BY DEF RendererServes, FirstWaits, mainVars, program
<1>2. CASE UNCHANGED vars
  BY <1>1, <1>2 DEF vars, history
<1>3. CASE AcceptFails \/ \E c \in Clients : Connect(c) \/ Disconnect(c)
  BY <1>1, <1>3 DEF AcceptFails, Connect, Disconnect, history
<1>4. ASSUME NEW c \in Clients, NEW req \in workload.requests, Handle(c, req)
      PROVE  RendererServes'
  <2>1. UNCHANGED <<workload, mainVars>> /\ workload \in Workloads
    BY <1>4 DEF Handle, TasksInv
  <2>2. CASE ~Sends(req)
    BY <1>1, <1>4, <2>1, <2>2 DEF Handle, history
  <2>3. CASE Sends(req)
    <3>1. PICK msg : msg = Message(req.path, req.body.obj)
      OBVIOUS
    <3>2. misfit' = (misfit \/ req \in Misfits)
      BY <1>4, <2>3 DEF Handle
    <3>3. CASE req.path = "set_white_led"
      <4>1. SendLed(msg)
        BY <1>4, <2>3, <3>1, <3>3 DEF Handle
      <4>2. /\ UNCHANGED mods
            /\ overrun' = overrun \/ overrun' = overrun \cup (IF Full(leds) THEN {"leds"} ELSE {})
        BY <4>1 DEF SendLed
      <4>3. "mods" \notin overrun' <=> "mods" \notin overrun
        BY <4>2
      <4>4. QED
        BY <2>1, <3>2, <4>2, <4>3 DEF RendererServes, FirstWaits, mainVars, program
    <3>4. CASE req.path # "set_white_led"
      <4>1. SendMod(msg)
        BY <1>4, <2>3, <3>1, <3>4 DEF Handle
      <4>2. msg \in Commands
        BY <2>1, <2>3, <3>1 DEF Commands
      <4>3. QED
        BY <2>1, <2>3, <3>1, <3>2, <3>4, <4>1, <4>2, ServesAccepted
    <3>5. QED
      BY <3>3, <3>4
  <2>4. QED
    BY <2>2, <2>3
<1>5. CASE Next /\ Main
  BY <1>5, ServesMain DEF Next
<1>6. CASE Led
  BY <1>1, <1>6 DEF Led, history
<1>7. QED
  BY <1>2, <1>3, <1>4, <1>5, <1>6 DEF Next, Network

LEMMA ServesInit ==
  ASSUME Init
  PROVE  RendererServes
<1>1. SUFFICES ASSUME program = "cloud_ceiling"
               PROVE  /\ proc # "dead"
                      /\ \A i \in DOMAIN mods.unread : CommandServes(workload, mods.unread[i])
                      /\ FirstWaits
  BY DEF RendererServes
<1>2. PICK msg : msg = Config(InitialConfig)
  OBVIOUS
<1>3. proc = "running" /\ phase = "drain" /\ r = NewRenderer /\ mods = Sent(Idle, msg)
  BY <1>1, <1>2 DEF Init
<1>4. ~Full(Idle)
  BY EmptySeq, LenProperties, CeilingAssumption DEF Full, Idle, CeilingAssumption
<1>5. mods.unread = Append(<<>>, msg)
  BY <1>3, <1>4 DEF Sent, Idle
<1>6. mods.unread = <<msg>>
  BY <1>5
<1>7. CommandServes(workload, msg)
  BY <1>2 DEF CommandServes, InUse
<1>8. QED
  BY <1>2, <1>3, <1>6, <1>7 DEF FirstWaits

\* The main thread of either program panics only after a command that does not fit was
\* accepted, or a burst pushed a message out of its channel; the LED task ends only after
\* such a command, a burst, or with the server: for all requests, any capacity and all
\* configurations that RendererAssumption lets pass (mod_ctrl.rs:58-87;
\* movie_ctrl.rs:29-41; led_ctrl.rs:33-44).
THEOREM NobodyPanicsWithoutCause == Spec => []TasksEndForACause
<1>1. TasksInv /\ TypesInv /\ RendererServes /\ [Next]_vars => RendererServes'
  BY ServesStep
<1>2. Init => RendererServes
  BY ServesInit
<1>3. TasksInv /\ TasksInv' /\ TypesInv /\ [Next]_vars => TypesInv'
  BY TypesStep
<1>4. Init => TypesInv
  BY TypesInit
<1>5. TasksInv /\ RendererServes => TasksEndForACause
  <2>1. SUFFICES ASSUME TasksInv, RendererServes
                 PROVE  TasksEndForACause
    OBVIOUS
  <2>2. program \in {"cloud_ceiling", "movie_ceiling"}
    <3>1. workload \in Workloads
      BY <2>1 DEF TasksInv
    <3>2. QED
      BY <3>1, CeilingAssumption DEF CeilingAssumption, program
  <2>3. proc = "dead" => misfit \/ "mods" \in overrun
    <3>1. CASE program = "cloud_ceiling"
      BY <2>1, <3>1 DEF RendererServes
    <3>2. CASE program = "movie_ceiling"
      BY <2>1, <3>2 DEF TasksInv, MovieEndedForACause
    <3>3. QED
      BY <2>2, <3>1, <3>2
  <2>4. led.at = "ended" => misfit \/ "leds" \in overrun \/ SendersGone
    BY <2>1 DEF TasksInv, LedEndedForACause
  <2>5. QED
    BY <2>3, <2>4 DEF TasksEndForACause
<1>6. QED
  BY <1>1, <1>2, <1>3, <1>4, <1>5, TasksInvariant, PTL DEF Spec
=============================================================================
