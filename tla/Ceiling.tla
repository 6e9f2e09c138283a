------------------------------ MODULE Ceiling ------------------------------
(***************************************************************************)
(* The two server programs.  cloud_ceiling (modular.rs) computes pictures  *)
(* (fb_main, mod_ctrl.rs); movie_ceiling (movie.rs) shows uploaded ones    *)
(* (movie_main, movie_ctrl.rs).  Both answer HTTP requests (server.rs) and *)
(* fade the white LEDs (led_main, led_ctrl.rs), each in a task of its own; *)
(* two tokio broadcast channels join the tasks.                            *)
(*                                                                         *)
(* A frame is drawn in one step: nobody else reads the renderer's data.    *)
(* What becomes of the frame buffer in flush is modelled in FrameFlush.    *)
(***************************************************************************)
EXTENDS Server, LedCtrl

CONSTANTS Capacity,       \* messages a channel keeps, 16
          FrameModulus,   \* frame is a u32: 2^32
          Workloads,      \* the programs, their argument and what clients send to them
          InitialConfig,  \* the object in the file args.json
          Clients,        \* HTTP connections
          Misfits,        \* requests that do not fit the configurations in use
          Alphas          \* how far a fade may be when a step of it is seen

ASSUME CeilingAssumption ==
    /\ Capacity \in Nat \ {0}
    /\ FrameModulus \in Nat \ {0}
    /\ \A w \in Workloads : /\ w.program \in {"cloud_ceiling", "movie_ceiling"}
                            /\ w.frame_cnt \in 0 .. FrameModulus - 1
    /\ Alphas \subseteq 0 .. ONE - 1

VARIABLES workload,       \* the program that runs, args.frame_cnt, and the requests sent to it
          proc,           \* "running", "exited" or "dead"
          phase,          \* where its main thread is
          outcome,        \* what that thread's last look at the channel gave
          r, frame, fb,   \* its data, its frame number and its frame buffer
          mods, leds,     \* the channels
          led,            \* the task of the white LEDs
          white,          \* the white_led register
          listening,      \* whether new connections are accepted
          conn,           \* the connections: closed or open
          want,           \* history: the data if commands applied when accepted
          lastWhite,      \* history: the last white command accepted
          overrun,        \* history: the channels that have lost a message
          misfit          \* history: whether a misfit was accepted

mainVars == <<proc, phase, outcome, r, frame, fb>>
ledVars == <<led, white>>
netVars == <<listening, conn>>
history == <<want, lastWhite, overrun, misfit>>
vars == <<workload, mainVars, mods, leds, ledVars, netVars, history>>
program == workload.program
frame_cnt == workload.frame_cnt
----------------------------------------------------------------------------
(* tokio::sync::broadcast with one receiver, as its user sees it: the newest *)
(* Capacity messages are kept, and a receiver that lost some is told once.   *)
Idle == [unread |-> <<>>, lagged |-> FALSE]

Full(ch) == Len(ch.unread) = Capacity

\* Mutant: the channel grows.
SentUnbounded(ch, msg) == [ch EXCEPT !.unread = Append(@, msg)]

Sent(ch, msg) ==
    IF Full(ch) THEN [unread |-> Append(Tail(ch.unread), msg), lagged |-> TRUE]
    ELSE [ch EXCEPT !.unread = Append(@, msg)]

HasMessage(ch) == ~ch.lagged /\ ch.unread # <<>>
Taken(ch) == [ch EXCEPT !.unread = Tail(@)]
Told(ch) == [ch EXCEPT !.lagged = FALSE]

\* The senders live in the server task and its connections, and the main
\* function of modular.rs keeps one more.
SendersGone == ~listening /\ \A c \in Clients : conn[c] = "closed"
----------------------------------------------------------------------------
\* cloud_ceiling sends itself the initial configuration before the server and
\* the renderer start; movie_ceiling starts with nothing.
Init ==
    /\ workload \in Workloads
    /\ proc = "running"
    /\ phase = (IF program = "cloud_ceiling" THEN "drain" ELSE "recv")
    /\ outcome = "none"
    /\ r = NewRenderer /\ frame = 0 /\ fb = BlankFrame
    /\ mods = (IF program = "cloud_ceiling" THEN Sent(Idle, Config(InitialConfig)) ELSE Idle)
    /\ leds = Idle
    /\ led = [at |-> "recv", color |-> Dark, target |-> Dark] /\ white = 0
    /\ listening = TRUE
    /\ conn = [c \in Clients |-> "closed"]
    /\ want = (IF program = "cloud_ceiling" THEN update_cfg(NewRenderer, InitialConfig) ELSE NewRenderer)
    /\ lastWhite = <<>>
    /\ overrun = {}
    /\ misfit = FALSE
----------------------------------------------------------------------------
(* server.rs. *)
Connect(c) ==
    /\ listening /\ conn[c] = "closed"
    /\ conn' = [conn EXCEPT ![c] = "open"]
    /\ UNCHANGED <<workload, mainVars, mods, leds, ledVars, listening, history>>

\* A client that is gone before peer_addr() is asked ends the accept loop.
AcceptFails ==
    /\ listening
    /\ listening' = FALSE
    /\ UNCHANGED <<workload, mainVars, mods, leds, ledVars, conn, history>>

Disconnect(c) ==
    /\ conn[c] = "open"
    /\ conn' = [conn EXCEPT ![c] = "closed"]
    /\ UNCHANGED <<workload, mainVars, mods, leds, ledVars, listening, history>>

SendMod(msg) ==
    LET lost == Full(mods)
    IN  /\ mods' = Sent(mods, msg)
        /\ overrun' = overrun \cup (IF lost THEN {"mods"} ELSE {})
        /\ want' = (IF program = "movie_ceiling" \/ "mods" \in overrun' THEN NewRenderer
                    ELSE Apply(want, msg))
        /\ UNCHANGED <<leds, lastWhite>>

\* A receiver that has returned or panicked is gone, and send fails: the answer is 500.
SendLed(msg) ==
    /\ IF led.at = "ended" THEN UNCHANGED <<leds, overrun, lastWhite>>
       ELSE /\ leds' = Sent(leds, msg)
            /\ overrun' = overrun \cup (IF Full(leds) THEN {"leds"} ELSE {})
            /\ lastWhite' = msg
    /\ UNCHANGED <<mods, want>>

\* A connection serves one request after the other, and its body is read before
\* anything is done with it, so one step is enough for a request.  A panic of the
\* task closes the connection; an answer 400 or 404 has no effect.
Handle(c, req) ==
    /\ conn[c] = "open"
    /\ IF Sends(req)
       THEN LET msg == Message(req.path, req.body.obj)
            IN  /\ IF req.path = "set_white_led" THEN SendLed(msg) ELSE SendMod(msg)
                /\ misfit' = (misfit \/ req \in Misfits)
                /\ UNCHANGED conn
       ELSE /\ conn' = [conn EXCEPT ![c] = IF Breaks(req) THEN "closed" ELSE @]
            /\ UNCHANGED <<mods, leds, history>>
    /\ UNCHANGED <<workload, mainVars, ledVars, listening>>

Network == AcceptFails \/ \E c \in Clients : \/ Connect(c) \/ Disconnect(c)
                                             \/ \E req \in workload.requests : Handle(c, req)
----------------------------------------------------------------------------
(* fb_main. *)
\* Mutant: the newest command is applied and the others are dropped.
TakeNewest ==
    /\ phase = "drain" /\ HasMessage(mods)
    /\ mods' = [mods EXCEPT !.unread = <<>>]
    /\ outcome' = "message"
    /\ UNCHANGED <<phase, frame, fb>>
    /\ r' = Apply(r, Last(mods.unread))
    /\ proc' = (IF r'.st.panicked THEN "dead" ELSE proc)

TakeCommand ==
    /\ phase = "drain" /\ HasMessage(mods)
    /\ mods' = Taken(mods)
    /\ outcome' = "message"
    /\ UNCHANGED <<phase, frame, fb>>
    /\ r' = Apply(r, Head(mods.unread))
    /\ proc' = (IF r'.st.panicked THEN "dead" ELSE proc)

\* Mutant: the drain may end before the channel is empty.
EndDrainEarly ==
    /\ phase = "drain"
    /\ phase' = "draw"
    /\ mods' = Told(mods)
    /\ outcome' = (IF mods.lagged THEN "lagged" ELSE "empty")
    /\ UNCHANGED <<proc, r, frame, fb>>

\* while let Ok(msg): an empty channel ends the loop, and so does a lag.
EndDrain ==
    /\ phase = "drain" /\ ~HasMessage(mods)
    /\ phase' = "draw"
    /\ mods' = Told(mods)
    /\ outcome' = (IF mods.lagged THEN "lagged" ELSE "empty")
    /\ UNCHANGED <<proc, r, frame, fb>>

Draw ==
    /\ phase = "draw"
    /\ frame' = (frame + 1) % FrameModulus
    /\ phase' = (IF frame_cnt # 0 /\ frame' >= frame_cnt THEN "exit" ELSE "drain")
    /\ outcome' = "none"
    /\ UNCHANGED mods
    /\ LET drawn == DrawFrame(r, fb, frame)
       IN  /\ r' = [r EXCEPT !.st = drawn.st] /\ fb' = drawn.fb
           /\ proc' = (IF drawn.st.panicked THEN "dead" ELSE proc)
----------------------------------------------------------------------------
(* movie_main. *)
ImageFits(data) == Len(data) >= FRAME_SIZE_BYTES

\* RGB to BRG, and rows to strings.
PutFrom(data, buffer, at) ==
    LET src == px_idx_tpose(at[1], at[2])
    IN  PutPixel(buffer, at[1], at[2],
                 [r |-> data[src + 1], g |-> data[src + 2], b |-> data[src + 3]])

Swizzle(data) == FoldLeft(LAMBDA buffer, at : PutFrom(data, buffer, at), BlankFrame, DrawingOrder)

ShowImage ==
    /\ phase = "recv" /\ HasMessage(mods)
    /\ mods' = Taken(mods)
    /\ LET msg == Head(mods.unread)
       IN  CASE Variant(msg) # "data" -> UNCHANGED <<proc, fb>>
             [] Variant(msg) = "data" /\ ImageFits(msg.data) -> fb' = Swizzle(msg.data) /\ UNCHANGED proc
             [] OTHER -> proc' = "dead" /\ UNCHANGED fb
    /\ UNCHANGED <<phase, outcome, r, frame>>

\* while let Ok(msg): a lag ends the program, and so does a closed channel.
EndMovie ==
    /\ phase = "recv" /\ (mods.lagged \/ (mods.unread = <<>> /\ SendersGone))
    /\ phase' = "exit"
    /\ mods' = Told(mods)
    /\ UNCHANGED <<proc, outcome, r, frame, fb>>

\* Both programs blank the LEDs before they return.
Exit ==
    /\ phase = "exit"
    /\ fb' = BlankFrame
    /\ proc' = "exited"
    /\ UNCHANGED <<phase, outcome, r, frame, mods>>

Main ==
    /\ UNCHANGED <<workload, leds, ledVars, netVars, history>>
    /\ TakeCommand \/ EndDrain \/ Draw \/ ShowImage \/ EndMovie \/ Exit
----------------------------------------------------------------------------
(* led_main. *)
LedTake ==
    /\ led.at = "recv" /\ HasMessage(leds)
    /\ leds' = Taken(leds)
    /\ LET msg == Head(leds.unread)
       IN  led' = IF ~WhiteFits(msg) THEN [led EXCEPT !.at = "ended"]
                  ELSE [led EXCEPT !.at = IF msg.delay > 0 THEN "fading" ELSE "set",
                                   !.target = WhiteColor(msg)]
    /\ UNCHANGED white

LedFade(alpha) ==
    /\ led.at = "fading"
    /\ white' = WhiteWord(Lerp(led.color, led.target, alpha))
    /\ UNCHANGED <<led, leds>>

\* Mutant: a fade does not end.
LedSetUnfaded ==
    /\ led.at = "set"
    /\ white' = WhiteWord(led.target)
    /\ led' = [at |-> "recv", color |-> led.target, target |-> Dark]
    /\ UNCHANGED leds

LedSet ==
    /\ led.at \in {"fading", "set"}
    /\ white' = WhiteWord(led.target)
    /\ led' = [at |-> "recv", color |-> led.target, target |-> Dark]
    /\ UNCHANGED leds

\* A lag ends the task for good, and so does a closed channel.
LedEnd ==
    /\ led.at = "recv" /\ (leds.lagged \/ (leds.unread = <<>> /\ SendersGone))
    /\ led' = [led EXCEPT !.at = "ended"]
    /\ leds' = Told(leds)
    /\ UNCHANGED white

Led ==
    /\ UNCHANGED <<workload, mainVars, mods, netVars, history>>
    /\ LedTake \/ LedSet \/ LedEnd \/ \E alpha \in Alphas : LedFade(alpha)

LedFinishes == UNCHANGED <<workload, mainVars, mods, netVars, history>> /\ LedSet
----------------------------------------------------------------------------
\* The process ends as a whole.
Next == proc = "running" /\ (Network \/ Main \/ Led)

\* Threads that can run do, and a fade is over after its delay.  Clients need
\* not do anything.  The first is WF_vars(proc = "running" /\ Main), with what
\* enables Main written out: TLC would draw a picture to find out.
MainCanRun ==
    proc = "running" /\ (phase = "recv" => mods # Idle \/ SendersGone)

Fairness == /\ []<>~MainCanRun \/ []<><<Main>>_vars
            /\ WF_vars(proc = "running" /\ Led)
            /\ WF_vars(proc = "running" /\ LedFinishes)

Spec == Init /\ [][Next]_vars /\ Fairness
----------------------------------------------------------------------------
\* Every body that is JSON is a JSON value.
ASSUME JsonAssumption ==
    /\ Json([obj |-> InitialConfig])
    /\ \A w \in Workloads : \A req \in w.requests : Is(req.body, "obj") => Json(req.body)

\* A request that the LED task or movie_main panics over is a misfit.
ASSUME MisfitsAssumption ==
    \A w \in Workloads : \A req \in w.requests : Sends(req) /\ req \notin Misfits =>
        LET msg == Message(req.path, req.body.obj)
        IN  /\ req.path = "set_white_led" => WhiteFits(msg)
            /\ req.path # "set_white_led" /\ w.program = "movie_ceiling" /\ Variant(msg) = "data" =>
                   ImageFits(msg.data)

\* The configurations the renderer may have while nobody sends a misfit.
InUse(w) ==
    {InitialConfig} \cup
        {req.body.obj : req \in {q \in w.requests \ Misfits : q.path = "set_config" /\ Sends(q)}}

ListOf(obj, kind) == obj.vars.obj[Stanza[kind]].arr
Primitives(obj) == {block_factory(v) : v \in Range(obj.primitives.arr)}

\* The scalars that image lookups take their mode from, and what they can use.
Modes(w) ==
    {b.i.mode : b \in {c \in UNION {Primitives(obj) : obj \in InUse(w)} : c.type = "image_lookup"}}
IsMode(v) == v > -ONE /\ Floor(v) <= 255

\* Whether an interpolated value stays between its points is a matter of numbers, and
\* so no configuration with a color_interp is known not to panic.
ConfigServes(w, obj) ==
    /\ ConfigFits(obj)
    /\ Len(ListOf(obj, "color")) > 0
    /\ \A b \in Primitives(obj) :
        /\ b.type # "color_interp"
        /\ \A rd \in Reads(b) : rd[2] < Len(ListOf(obj, rd[1]))
        /\ Writes(b)[1] # "scalar" => Writes(b)[2] < Len(ListOf(obj, Writes(b)[1]))
        /\ Writes(b)[1] = "scalar" => Writes(b)[2] \notin Modes(w)
    /\ \A m \in Modes(w) : m < Len(ListOf(obj, "scalar")) => IsMode(ListOf(obj, "scalar")[m + 1].num)

\* set_scalar checks the index, the other setters do not.
SettingServes(w, kind, i, v) ==
    IF kind = "scalar" THEN i \in Modes(w) => IsMode(v)
    ELSE \A obj \in InUse(w) : i < Len(ListOf(obj, kind))

\* A request that fb_main panics over, then or when it draws, is a misfit, and so is
\* one that may make it panic for all that can be told from the configurations.
ASSUME RendererAssumption ==
    \A w \in Workloads : w.program = "cloud_ceiling" =>
        /\ \A obj \in InUse(w) : ConfigServes(w, obj)
        /\ Modes(w) \cap 0 .. 2 = {}
        /\ \A req \in w.requests \ Misfits : Sends(req) /\ req.path \in DOMAIN VariableRoutes =>
               LET kind == VariableRoutes[req.path]
               IN  SettingServes(w, kind, AsUsize(req.body.obj.index), FromJson(kind, req.body.obj.value))

\* The types of the control state; data is of the types its operations make.
TypeOK ==
    /\ proc \in {"running", "exited", "dead"}
    /\ phase \in (IF program = "cloud_ceiling" THEN {"drain", "draw", "exit"} ELSE {"recv", "exit"})
    /\ outcome \in {"none", "message", "empty", "lagged"}
    /\ frame \in 0 .. FrameModulus - 1
    /\ IsRenderer(r) /\ IsRenderer(want)
    /\ fb \in [0 .. FRAME_SIZE_BYTES - 1 -> Byte]
    /\ Len(mods.unread) <= Capacity /\ Len(leds.unread) <= Capacity
    /\ led.at \in {"recv", "fading", "set", "ended"}
    /\ white \in 0 .. 2 ^ 24 - 1
    /\ conn \in [Clients -> {"closed", "open"}]

(* The main thread panics only over a command that does not fit, or because a *)
(* burst has pushed a configuration out of the channel: the initial one, if it *)
(* comes before the first drain, leaves the renderer without the color 0 it    *)
(* always reads (mod_ctrl.rs:58-68,82; movie_ctrl.rs:29-41).  The LED task     *)
(* ends only over such a command, a burst, or with the server                  *)
(* (led_ctrl.rs:33-44).                                                        *)
TasksEndForACause ==
    /\ proc = "dead" => misfit \/ "mods" \in overrun
    /\ led.at = "ended" => misfit \/ "leds" \in overrun \/ SendersGone

\* What the renderer itself writes, and so owns: coordinates and block outputs.
Owned(x) == {<<"scalar", i>> : i \in 0 .. 2} \cup {Writes(b) : b \in Range(x.blocks)}

Settable(x) ==
    [x EXCEPT !.st = [k \in DOMAIN @ |->
        IF k = "panicked" THEN @[k]
        ELSE [i \in DOMAIN @[k] |-> IF <<k, i - 1>> \in Owned(x) THEN 0 ELSE @[k][i]]]]

(* Unless a burst overflowed the channel, the renderer's variables and blocks  *)
(* are, at any time, those that all accepted commands make, in the order the   *)
(* server accepted them and less those still in the channel: none is lost,     *)
(* reordered or undone by drawing (server.rs:98,136 with mod_ctrl.rs:58-68).   *)
CommandsTakeEffectInOrder ==
    program = "cloud_ceiling" /\ proc = "running" /\ "mods" \notin overrun =>
        Settable(want) = Settable(FoldLeft(Apply, r, mods.unread))

(* After each frame every LED shows the pixel that the blocks compute for its  *)
(* place and the frame number, whatever commands came before; in particular a  *)
(* client that sets the scalars 0 to 2 does not move it (mod_ctrl.rs:70-87).   *)
PictureFollowsCommands ==
    program = "cloud_ceiling" /\ proc = "running" /\ phase \in {"drain", "exit"} /\ outcome = "none"
        /\ "color" \in DOMAIN r.st /\ Len(r.st.color) > 0 /\ FeedsForward(r.blocks) =>
            ShowsPicture(fb, r, (frame - 1) % FrameModulus)

(* When the LED task has caught up, the white LEDs shine with the brightness   *)
(* and, from 1900 to 6500 K, the mean color temperature that the last command  *)
(* the server accepted asked for, to the rounding of two bytes, unless a burst *)
(* during a fade overflowed the channel or the task has ended.  A brightness   *)
(* below 0, whose power is NaN, leaves them dark and harms no later command;   *)
(* one beyond 1 is cut off channel by channel, and so shifts the color         *)
(* (led_ctrl.rs:33-74, display.rs:90-102).                                     *)
WhiteFollowsCommands ==
    led.at = "recv" /\ leds.unread = <<>> /\ "leds" \notin overrun
        /\ lastWhite # <<>> /\ lastWhite.value <= ONE =>
        LET cold == (white \div 256) % 256
            cool == white % 256
            hot == white \div 65536
            level == Round(LED_MAX * Pow(Clamp(lastWhite.value, 0, ONE), 2 * ONE))
            kelvin == Floor(lastWhite.temp)
        IN  /\ Abs(cold + cool + hot - level) <= 1
            /\ kelvin \in 1900 .. 6500 =>
                    Abs(1900 * cold + 3000 * cool + 6500 * hot - kelvin * level) <= 6500

(* An image that has been shown puts its pixel x + y * LED_COUNT on the LED    *)
(* that hangs at column x and row y, its three colors in place                 *)
(* (movie_ctrl.rs:30-41).                                                      *)
ImageLiesAsItHangs ==
    [][phase = "recv" /\ fb' # fb =>
        LET data == Head(mods.unread).data
        IN  \A s \in 0 .. Strings - 1, n \in Positions :
                LET at == 3 * (HangsAtColumn(n) + HangsAtRow(s, n) * LED_COUNT)
                IN  LedColor(fb', s, n) = [r |-> data[at + 1], g |-> data[at + 2], b |-> data[at + 3]]]_vars

(* A command that waits while a frame is drawn is followed by one being        *)
(* applied: unless the channel overflows first, the next drain reaches it      *)
(* (mod_ctrl.rs:57-68).                                                        *)
CommandsAppliedWithoutBursts ==
    phase = "draw" /\ mods.unread # <<>> /\ ~mods.lagged
        ~> outcome = "message" \/ mods.lagged \/ proc # "running"

(* Once the clients are gone for good the LED task works off what they have    *)
(* sent, fade after fade, and the white register comes to rest on the last     *)
(* command, if the task and the program live (led_ctrl.rs:33-74).              *)
WhiteSettles ==
    <>[](\A c \in Clients : conn[c] = "closed") =>
        <>[]((led.at = "recv" /\ leds.unread = <<>>) \/ led.at = "ended" \/ proc # "running")
============================================================================
