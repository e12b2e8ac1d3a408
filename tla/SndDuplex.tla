------------------------------ MODULE SndDuplex ------------------------------
(***************************************************************************)
(* How the drivers for audio and music units share one pair of isochronous *)
(* streams between PCM playback, PCM capture and MIDI: digi00x, tascam,    *)
(* fireface (ff400, ff800 and the latter models), motu, dice, fireworks    *)
(* (efw), oxfw and bebob.                                                  *)
(*                                                                         *)
(* Each driver keeps a counter of configured substreams, a mutex, a count  *)
(* that locks out user-land streaming, the isochronous resources of the tx *)
(* and rx streams and, for units on CMP, their connections.  A driver's    *)
(* operation is written below as the sequence of steps its function takes. *)
(* A step is a set of effects with, if it may fail, the effects of its     *)
(* error path.  Step(s) takes the next step of thread s, so bus resets,    *)
(* stream errors and other threads come between any two steps the mutex    *)
(* does not protect.                                                       *)
(*                                                                         *)
(* External: ALSA (which calls the operations of a substream one at a time *)
(* and calls hw_free after a failed hw_params), the unit's registers.      *)
(***************************************************************************)
EXTENDS Integers, Sequences, SequencesExt, FiniteSets

CONSTANTS DupDrivers,     \* the drivers to look at
          DupMaxGen,      \* bound: bus generations
          DupMaxFault,    \* bound: failing steps and stream errors
          DupMaxBusy      \* bound: threads inside the driver at a time

VARIABLES dev,    \* what the driver keeps for the unit
          th,     \* what the threads do
          pcm,    \* the substreams as ALSA sees them
          own,    \* holder of the driver's mutex
          bus,    \* bus generation, the one .update saw, faults so far
          odd     \* ghost: what the code does not exclude and has happened

dupvars == <<dev, th, pcm, own, bus, odd>>

Side == {"tx", "rx"}
Substream == {"play", "capt", "midi"}
DupThread == Substream \union {"unit"}     \* "unit": probe, update, remove
SideOf(s) == IF s = "play" THEN "rx" ELSE "tx"
Cmp == {"efw", "oxfw", "bebob"}
\* Drivers whose MIDI ports are carried by the streams.
MidiInStream == {"dg00x", "motu", "dice"} \union Cmp
Idle == [op |-> "idle", todo |-> <<>>, err |-> FALSE, rate |-> "same"]

DupInit ==
  /\ dev = [kind |-> "none", card |-> "none", count |-> 0,
            lock |-> 0, ses |-> FALSE, res |-> [x \in Side |-> FALSE],
            rgen |-> [x \in Side |-> 0], con |-> [x \in Side |-> FALSE],
            list |-> {}, run |-> [x \in Side |-> "no"],
            mem |-> [x \in Side |-> "none"], cache |-> FALSE]
  /\ th = [s \in DupThread |-> Idle]
  /\ pcm = [s \in Substream |-> "closed"]
  /\ own = "nobody"
  /\ bus = [gen |-> 1, seen |-> 1, faults |-> 0]
  /\ odd = {}

-----------------------------------------------------------------------------
(* Effects, and the steps made of them. *)
Keep(x) == <<"keep", x>>            \* reserve channel and bandwidth
Free(x) == <<"free", x>>
Update(x) == <<"update", x>>        \* reserve again after a bus reset
Establish(x) == <<"establish", x>>  \* CMP connection
Break(x) == <<"break", x>>
Add(x) == <<"add", x>>              \* to the AMDTP domain
Abort(x) == <<"abort", x>>          \* amdtp_stream_pcm_abort()
InitStream(x) == <<"init", x>>
Destroy(x) == <<"destroy", x>>
Stop == <<"stop">>                  \* amdtp_domain_stop()
Start == <<"start">>                \* amdtp_domain_start()
Begin == <<"begin">>                \* the unit's session
Finish == <<"finish">>
Cache == <<"cache">>                \* motu: offsets of events, none for MIDI
DropCache == <<"drop cache">>       \* motu: freed, and the pointer NULL
CountUp == <<"count up">>
CountDown == <<"count down">>
Mutex == <<"mutex">>
Unlock == <<"unlock">>
LockTry == <<"lock">>               \* snd_*_stream_lock_try()
LockRelease == <<"release">>
FreeBoth == {Free("tx"), Free("rx")}
SessionOff == {Stop, Finish}
CmpOff == {Stop, Break("tx"), Break("rx")}

Must(A) == [do |-> "must", on |-> A, bad |-> {}]
\* User land must not stream; else the operation ends with -EBUSY.
LockAndMutex == [do |-> "enter", on |-> {LockTry, Mutex}, bad |-> {}]
Try(A, bad) == [do |-> "try", on |-> A, bad |-> bad]
\* Failures the code does not look at.
Anyway(A) == [do |-> "anyway", on |-> A, bad |-> {}]
If(c, then) == [do |-> "if", on |-> c, bad |-> then]
\* The end of a function that may have failed, with what its caller does then.
Ret(bad) == [do |-> "ret", on |-> {}, bad |-> bad]
\* No substream: return 0, or -EIO.
NoneReturns(bad) == If("none", <<[do |-> "return", on |-> {}, bad |-> bad]>>)
\* A request to the unit, with nothing to change here.
Ask(bad) == Try({}, bad)
SetRate == Ask({})
\* amdtp_domain_set_events_per_period(): what the next pcm open looks at.
SetEvents == Must({})
StartAndWait(A, off) == <<Try(A \union {Start}, off), Ask(off)>>

\* The streams are initialized by probe: a failure destroys what the
\* function has done, then the card and with it the streams once more.
InitDuplex(x, y) == <<Try({InitStream(x)}, {}), Try({InitStream(y)}, {Destroy(x)})>>
DestroyDuplex == <<Must({Destroy("rx"), Destroy("tx")})>>

-----------------------------------------------------------------------------
(* digi00x *)
dg00x_begin_session == {Begin}
dg00x_finish_session == {Finish}
dg00x_keep_resources(x, bad) == Try({Keep(x)}, bad)
snd_dg00x_stream_reserve_duplex ==
  <<Ask({}),
    If("new", <<Must({Stop} \union dg00x_finish_session \union FreeBoth), SetRate,
                dg00x_keep_resources("rx", {}), dg00x_keep_resources("tx", {Free("rx")}),
                SetEvents>>)>>
snd_dg00x_stream_start_duplex ==
  <<NoneReturns({}), If("error", <<Must(SessionOff)>>),
    If("stale", <<Try({Update("tx")}, SessionOff), Try({Update("rx")}, SessionOff)>>),
    If("rx idle", StartAndWait(dg00x_begin_session \union {Add("rx"), Add("tx")}, SessionOff))>>
\* Mutant: the rx stream keeps its channel and bandwidth.
StopForgetsRx ==
  <<If("none", <<Must({Stop, Free("tx")} \union dg00x_finish_session)>>)>>
snd_dg00x_stream_stop_duplex ==
  <<If("none", <<Must({Stop} \union dg00x_finish_session \union FreeBoth)>>)>>
snd_dg00x_stream_update_duplex == <<Anyway({Update("tx")}), Anyway({Update("rx")})>>
snd_dg00x_stream_init_duplex == InitDuplex("rx", "tx")

(* tascam *)
tscm_begin_session == {Begin}
tscm_finish_session == {Finish}
tscm_keep_resources(x, bad) == Try({Keep(x)}, bad)
snd_tscm_stream_reserve_duplex ==
  <<Ask({}),
    If("new", <<Must({Stop} \union tscm_finish_session \union FreeBoth), SetRate,
                tscm_keep_resources("tx", {}), tscm_keep_resources("rx", {Free("tx")}),
                SetEvents>>)>>
snd_tscm_stream_start_duplex ==
  <<NoneReturns({}), If("error", <<Must(SessionOff)>>),
    If("stale", <<Try({Update("tx")}, SessionOff), Try({Update("rx")}, SessionOff)>>),
    If("rx idle", StartAndWait(tscm_begin_session \union {Add("rx"), Add("tx")}, SessionOff))>>
snd_tscm_stream_stop_duplex ==
  <<If("none", <<Must({Stop} \union tscm_finish_session \union FreeBoth)>>)>>
snd_tscm_stream_update_duplex == <<Must({Stop, Abort("tx"), Abort("rx")})>>
snd_tscm_stream_init_duplex == InitDuplex("tx", "rx")

(* fireface; the unit chooses the channel of ff800's tx stream itself. *)
ff800_allocate_resources == <<SetRate, Try({Keep("rx")}, {}), Ask({})>>
ff800_begin_session == <<If("stale", <<Try({Update("rx")}, SessionOff)>>)>>
ff400_allocate_resources ==
  <<SetRate, Try({Keep("tx")}, {}), Try({Keep("rx")}, {Free("tx")})>>
ff400_begin_session ==
  <<If("stale", <<Try({Update("tx")}, SessionOff), Try({Update("rx")}, SessionOff)>>)>>
latter_allocate_resources ==
  <<SetRate, Try({Keep("tx")}, {}), Try({Keep("rx")}, {Free("tx")})>>
latter_begin_session ==
  <<If("stale", <<Try({Update("tx")}, SessionOff), Try({Update("rx")}, SessionOff)>>)>>
former_switch_fetching_mode == Ask(SessionOff)
latter_switch_fetching_mode == Ask(SessionOff)
snd_ff_stream_reserve_duplex(allocate) ==
  <<Ask({}), If("new", <<Must(SessionOff \union FreeBoth)>> \o allocate \o <<SetEvents>>)>>
snd_ff_stream_start_duplex(begin, switch) ==
  <<NoneReturns({}), If("error", <<Must(SessionOff)>>),
    If("rx idle", begin \o StartAndWait({Begin, Add("rx"), Add("tx")}, SessionOff)
                  \o <<switch>>)>>
snd_ff_stream_stop_duplex == <<If("none", <<Must(SessionOff \union FreeBoth)>>)>>
snd_ff_stream_update_duplex == <<Must({Stop}), Must({Abort("tx"), Abort("rx")})>>
snd_ff_stream_init_duplex == InitDuplex("rx", "tx")

(* motu: nothing is undone if start_duplex fails before the session. *)
motu_begin_session == {Begin}
motu_finish_session == {Finish}
motu_keep_resources(x, bad) == Try({Keep(x)}, bad)
snd_motu_stream_cache_packet_formats == Ask({})
ensure_packet_formats == Ask({})
motu_switch_fetching_mode == Ask(SessionOff)
snd_motu_stream_reserve_duplex ==
  <<Ask({}),
    If("new", <<Must({Stop, DropCache} \union motu_finish_session \union FreeBoth), SetRate,
                snd_motu_stream_cache_packet_formats,
                motu_keep_resources("tx", {}), motu_keep_resources("rx", {Free("tx")}),
                Try({Cache}, FreeBoth)>>)>>
snd_motu_stream_start_duplex ==
  <<NoneReturns({}), If("error", <<Must(SessionOff)>>),
    If("stale", <<Try({Update("rx")}, {}), Try({Update("tx")}, {})>>),
    If("rx idle", <<ensure_packet_formats>>
                  \o StartAndWait(motu_begin_session \union {Add("tx"), Add("rx")}, SessionOff)
                  \o <<motu_switch_fetching_mode>>)>>
snd_motu_stream_stop_duplex ==
  <<If("none", <<Must({Stop, DropCache} \union motu_finish_session \union FreeBoth)>>)>>
snd_motu_stream_init_duplex == InitDuplex("tx", "rx")

(* dice: the register parameters are asked for first. *)
get_register_params == Ask({})
dice_finish_session == {Finish}
keep_dual_resources(x) == Try({Keep(x)}, FreeBoth)
select_clock == SetRate
start_streams(x) == {Add(x)}
snd_dice_stream_reserve_duplex ==
  <<Ask({}),
    If("new", <<Must({Stop}), get_register_params,
                Must(dice_finish_session \union FreeBoth),
                select_clock, get_register_params,
                keep_dual_resources("tx"), keep_dual_resources("rx"), SetEvents>>)>>
snd_dice_stream_start_duplex ==
  <<NoneReturns({}), get_register_params, If("error", <<Must(SessionOff)>>),
    If("stale", <<Anyway({Update("tx")}), Anyway({Update("rx")})>>), Ask({}),
    If("any idle",
       StartAndWait(start_streams("tx") \union start_streams("rx") \union {Begin}, SessionOff))>>
snd_dice_stream_stop_duplex ==
  <<If("none", <<Anyway(dice_finish_session), Must({Stop} \union FreeBoth)>>)>>
\* global_enabled is cleared first: if the registers cannot be read, the streams go on.
snd_dice_stream_update_duplex == <<Must({Finish}), get_register_params, Must({Stop})>>
snd_dice_stream_init_duplex == InitDuplex("tx", "rx")

(* fireworks; a failed reservation for rx releases rx and keeps tx. *)
efw_check_connection_used_by_others == Ask({})
efw_keep_resources(x, bad) == Try({Keep(x)}, bad)
efw_start_stream(x) == {Establish(x), Add(x)}
snd_efw_stream_reserve_duplex ==
  <<efw_check_connection_used_by_others,
    If("other rate", <<Must(CmpOff \union FreeBoth)>>),
    If("new", <<SetRate, efw_keep_resources("tx", {}),
                efw_keep_resources("rx", {Free("rx")}), SetEvents>>)>>
snd_efw_stream_start_duplex ==
  <<NoneReturns({}), If("error", <<Must(CmpOff)>>), Ask({}),
    If("rx idle", <<Try(efw_start_stream("rx"), CmpOff)>>
                  \o StartAndWait(efw_start_stream("tx"), CmpOff))>>
snd_efw_stream_stop_duplex == <<If("none", <<Must(CmpOff \union FreeBoth)>>)>>
snd_efw_stream_update_duplex == <<Must(CmpOff \union {Abort("rx"), Abort("tx")})>>
snd_efw_stream_init_duplex ==
  InitDuplex("tx", "rx") \o <<Ask({Destroy("tx"), Destroy("rx")})>>

(* oxfw *)
oxfw_check_connection_used_by_others == Ask({})
oxfw_keep_resources(x, bad) == Try({Keep(x)}, bad)
oxfw_start_stream(x) == {Establish(x), Add(x)}
snd_oxfw_stream_reserve_duplex ==
  <<oxfw_check_connection_used_by_others,
    If("other rate", <<Must(CmpOff \union FreeBoth)>>),
    If("new", <<SetRate, oxfw_keep_resources("rx", {}),
                oxfw_keep_resources("tx", {Free("rx")}), SetEvents>>)>>
snd_oxfw_stream_start_duplex ==
  <<NoneReturns({}), If("error", <<Must(CmpOff)>>),
    If("rx idle", <<Try(oxfw_start_stream("rx"), CmpOff),
                    If("tx idle", <<Try(oxfw_start_stream("tx"), CmpOff)>>)>>
                  \o StartAndWait({}, CmpOff))>>
snd_oxfw_stream_stop_duplex == <<If("none", <<Must(CmpOff \union FreeBoth)>>)>>
snd_oxfw_stream_update_duplex == <<Must(CmpOff \union {Abort("rx"), Abort("tx")})>>
snd_oxfw_stream_init_duplex == InitDuplex("rx", "tx")

(* bebob: its .update leaves the streams alone. *)
bebob_check_connection_used_by_others == Ask({})
bebob_keep_resources(x, bad) == Try({Keep(x)}, bad)
bebob_start_stream(x) == {Establish(x), Add(x)}
snd_bebob_stream_reserve_duplex ==
  <<bebob_check_connection_used_by_others,
    If("other rate", <<Must(CmpOff \union FreeBoth)>>),
    If("new", <<SetRate, bebob_keep_resources("tx", {}),
                bebob_keep_resources("rx", {Free("tx")}), SetEvents>>)>>
snd_bebob_stream_start_duplex ==
  <<NoneReturns({}), If("error", <<Must(CmpOff)>>),
    If("rx idle", <<Ask({}), Try(bebob_start_stream("rx"), CmpOff)>>
                  \o StartAndWait(bebob_start_stream("tx"), CmpOff))>>
snd_bebob_stream_stop_duplex == <<If("none", <<Must(CmpOff \union FreeBoth)>>)>>
snd_bebob_stream_init_duplex == InitDuplex("tx", "rx")

-----------------------------------------------------------------------------
(* The operations of PCM and MIDI substreams: what the drivers have in     *)
(* common, then what each makes of it.  The rate is asked for once more    *)
(* and fixed if other substreams have chosen it (or the clock is external, *)
(* which leaves fewer rates to choose from).                               *)
OpenSteps(cond) ==
  <<LockAndMutex,
    If(cond, <<Ask({Unlock, LockRelease})>>), Must({Unlock})>>
HwParamsSteps(reserve) ==
  <<Must({Mutex})>> \o reserve \o <<Ret({Unlock}), Must({CountUp, Unlock})>>
HwFreeSteps(stop) ==
  <<Must({Mutex}), If("set up", <<Must({CountDown})>>)>> \o stop \o <<Must({Unlock})>>
PrepareSteps(start) == <<Must({Mutex})>> \o start \o <<Ret({Unlock}), Must({Unlock})>>
MidiOpenSteps(reserve, start, undo) ==
  <<LockAndMutex>> \o reserve \o
  <<Ret({Unlock, LockRelease}), Must({CountUp})>>
  \o start \o <<Ret(undo \union {Unlock, LockRelease}), Must({Unlock})>>
MidiCloseSteps(stop) ==
  <<Must({Mutex}), Must({CountDown})>> \o stop \o <<Must({Unlock, LockRelease})>>
UpdateSteps(update) == <<Must({Mutex})>> \o update \o <<Ret({Unlock}), Must({Unlock})>>

dg00x_pcm_open == OpenSteps("any")
dg00x_pcm_hw_params == HwParamsSteps(snd_dg00x_stream_reserve_duplex)
dg00x_pcm_hw_free == HwFreeSteps(snd_dg00x_stream_stop_duplex)
dg00x_pcm_prepare == PrepareSteps(snd_dg00x_stream_start_duplex)
dg00x_midi_open ==
  MidiOpenSteps(snd_dg00x_stream_reserve_duplex, snd_dg00x_stream_start_duplex, {CountDown})
dg00x_midi_close == MidiCloseSteps(snd_dg00x_stream_stop_duplex)
snd_dg00x_update == UpdateSteps(snd_dg00x_stream_update_duplex)
snd_dg00x_probe == <<Ask({})>> \o snd_dg00x_stream_init_duplex \o <<Ask({})>>

tscm_pcm_open == OpenSteps("any")
tscm_pcm_hw_params == HwParamsSteps(snd_tscm_stream_reserve_duplex)
tscm_pcm_hw_free == HwFreeSteps(snd_tscm_stream_stop_duplex)
tscm_pcm_prepare == PrepareSteps(snd_tscm_stream_start_duplex)
snd_tscm_update == UpdateSteps(snd_tscm_stream_update_duplex)
snd_tscm_probe == <<Ask({})>> \o snd_tscm_stream_init_duplex \o <<Ask({})>>

ff_pcm_open == OpenSteps("any")
ff_pcm_hw_params(allocate) == HwParamsSteps(snd_ff_stream_reserve_duplex(allocate))
ff_pcm_hw_free == HwFreeSteps(snd_ff_stream_stop_duplex)
ff_pcm_prepare(begin, switch) ==
  PrepareSteps(snd_ff_stream_start_duplex(begin, switch))
snd_ff_update == snd_ff_stream_update_duplex
snd_ff_probe == <<Ask({})>> \o snd_ff_stream_init_duplex \o <<Ask({})>>

motu_pcm_open ==
  <<LockAndMutex, Ask({Unlock, LockRelease}),
    If("any", <<Ask({Unlock, LockRelease})>>), Must({Unlock})>>
motu_pcm_hw_params == HwParamsSteps(snd_motu_stream_reserve_duplex)
motu_pcm_hw_free == HwFreeSteps(snd_motu_stream_stop_duplex)
motu_pcm_prepare == PrepareSteps(snd_motu_stream_start_duplex)
motu_midi_open ==
  MidiOpenSteps(snd_motu_stream_reserve_duplex, snd_motu_stream_start_duplex, {CountDown})
motu_midi_close == MidiCloseSteps(snd_motu_stream_stop_duplex)
motu_bus_update == <<>>
motu_probe == <<Ask({})>> \o snd_motu_stream_init_duplex \o <<Ask({})>>

dice_pcm_open == OpenSteps("any")
dice_pcm_hw_params == HwParamsSteps(snd_dice_stream_reserve_duplex)
dice_pcm_hw_free == HwFreeSteps(snd_dice_stream_stop_duplex)
dice_pcm_prepare == PrepareSteps(snd_dice_stream_start_duplex)
dice_midi_open ==
  MidiOpenSteps(snd_dice_stream_reserve_duplex, snd_dice_stream_start_duplex, {CountDown})
dice_midi_close == MidiCloseSteps(snd_dice_stream_stop_duplex)
dice_bus_reset == UpdateSteps(snd_dice_stream_update_duplex)
dice_probe == <<Ask({})>> \o snd_dice_stream_init_duplex \o <<Ask({})>>

efw_pcm_open == OpenSteps("any")
efw_pcm_hw_params == HwParamsSteps(snd_efw_stream_reserve_duplex)
efw_pcm_hw_free == HwFreeSteps(snd_efw_stream_stop_duplex)
efw_pcm_prepare == snd_efw_stream_start_duplex
efw_midi_open ==
  MidiOpenSteps(snd_efw_stream_reserve_duplex, snd_efw_stream_start_duplex, {CountDown})
efw_midi_close == MidiCloseSteps(snd_efw_stream_stop_duplex)
efw_update == UpdateSteps(snd_efw_stream_update_duplex)
efw_probe == <<Ask({})>> \o snd_efw_stream_init_duplex \o <<Ask({})>>

oxfw_pcm_open == OpenSteps("any")
oxfw_pcm_hw_params == HwParamsSteps(snd_oxfw_stream_reserve_duplex)
oxfw_pcm_hw_free == HwFreeSteps(snd_oxfw_stream_stop_duplex)
oxfw_pcm_prepare == PrepareSteps(snd_oxfw_stream_start_duplex)
\* midi_playback_open; midi_capture_open takes the substream back from the count.
oxfw_midi_open ==
  MidiOpenSteps(snd_oxfw_stream_reserve_duplex, snd_oxfw_stream_start_duplex, {})
oxfw_midi_close == MidiCloseSteps(snd_oxfw_stream_stop_duplex)
oxfw_bus_reset == UpdateSteps(snd_oxfw_stream_update_duplex)
oxfw_probe == <<Ask({})>> \o snd_oxfw_stream_init_duplex \o <<Ask({})>>

bebob_pcm_open == OpenSteps("any")
bebob_pcm_hw_params == HwParamsSteps(snd_bebob_stream_reserve_duplex)
bebob_pcm_hw_free == HwFreeSteps(snd_bebob_stream_stop_duplex)
bebob_pcm_prepare == snd_bebob_stream_start_duplex
bebob_midi_open ==
  MidiOpenSteps(snd_bebob_stream_reserve_duplex, snd_bebob_stream_start_duplex, {CountDown})
bebob_midi_close == MidiCloseSteps(snd_bebob_stream_stop_duplex)
bebob_update == <<>>
bebob_probe == <<Ask({})>> \o snd_bebob_stream_init_duplex \o <<Ask({})>>

FfProgram(allocate, begin, switch) ==
  [open |-> ff_pcm_open, hw_params |-> ff_pcm_hw_params(allocate), hw_free |-> ff_pcm_hw_free,
   prepare |-> ff_pcm_prepare(begin, switch), midi_open |-> <<>>, midi_close |-> <<>>,
   update |-> snd_ff_update, probe |-> snd_ff_probe]

Program(kind) ==
  CASE kind = "dg00x" ->
    [open |-> dg00x_pcm_open, hw_params |-> dg00x_pcm_hw_params, hw_free |-> dg00x_pcm_hw_free,
     prepare |-> dg00x_pcm_prepare, midi_open |-> dg00x_midi_open,
     midi_close |-> dg00x_midi_close, update |-> snd_dg00x_update, probe |-> snd_dg00x_probe]
  [] kind = "tascam" ->
    [open |-> tscm_pcm_open, hw_params |-> tscm_pcm_hw_params, hw_free |-> tscm_pcm_hw_free,
     prepare |-> tscm_pcm_prepare, midi_open |-> <<>>, midi_close |-> <<>>,
     update |-> snd_tscm_update, probe |-> snd_tscm_probe]
  [] kind = "ff400" ->
    FfProgram(ff400_allocate_resources, ff400_begin_session, former_switch_fetching_mode)
  [] kind = "ff800" ->
    FfProgram(ff800_allocate_resources, ff800_begin_session, former_switch_fetching_mode)
  [] kind = "latter" ->
    FfProgram(latter_allocate_resources, latter_begin_session, latter_switch_fetching_mode)
  [] kind = "motu" ->
    [open |-> motu_pcm_open, hw_params |-> motu_pcm_hw_params, hw_free |-> motu_pcm_hw_free,
     prepare |-> motu_pcm_prepare, midi_open |-> motu_midi_open,
     midi_close |-> motu_midi_close, update |-> motu_bus_update, probe |-> motu_probe]
  [] kind = "dice" ->
    [open |-> dice_pcm_open, hw_params |-> dice_pcm_hw_params, hw_free |-> dice_pcm_hw_free,
     prepare |-> dice_pcm_prepare, midi_open |-> dice_midi_open,
     midi_close |-> dice_midi_close, update |-> dice_bus_reset, probe |-> dice_probe]
  [] kind = "efw" ->
    [open |-> efw_pcm_open, hw_params |-> efw_pcm_hw_params, hw_free |-> efw_pcm_hw_free,
     prepare |-> efw_pcm_prepare, midi_open |-> efw_midi_open,
     midi_close |-> efw_midi_close, update |-> efw_update, probe |-> efw_probe]
  [] kind = "oxfw" ->
    [open |-> oxfw_pcm_open, hw_params |-> oxfw_pcm_hw_params, hw_free |-> oxfw_pcm_hw_free,
     prepare |-> oxfw_pcm_prepare, midi_open |-> oxfw_midi_open,
     midi_close |-> oxfw_midi_close, update |-> oxfw_bus_reset, probe |-> oxfw_probe]
  [] kind = "bebob" ->
    [open |-> bebob_pcm_open, hw_params |-> bebob_pcm_hw_params, hw_free |-> bebob_pcm_hw_free,
     prepare |-> bebob_pcm_prepare, midi_open |-> bebob_midi_open,
     midi_close |-> bebob_midi_close, update |-> bebob_update, probe |-> bebob_probe]

-----------------------------------------------------------------------------
(* What a step does. *)
Holds(c, d, s) ==
  CASE c = "new" -> d.count = 0 \/ th[s].rate = "other"
    [] c = "other rate" -> th[s].rate = "other"
    [] c = "none" -> d.count = 0
    [] c = "error" -> \E x \in Side : d.run[x] = "err"
    [] c = "stale" -> d.rgen["rx"] # bus.gen
    [] c = "rx idle" -> d.run["rx"] = "no"
    [] c = "tx idle" -> d.run["tx"] = "no"
    [] c = "any idle" -> \E x \in Side : d.run[x] = "no"
    [] c = "any" -> d.count > 0
    [] c = "set up" -> pcm[s] # "open"

Destroyed(m) == CASE m = "live" -> "freed" [] m = "freed" -> "twice" [] OTHER -> m

\* The driver's state after the effects A of thread s on state d.
Apply(A, d, s) ==
  LET list == IF Stop \in A THEN {} ELSE d.list \union {x \in Side : Add(x) \in A}
      fresh == {x \in Side : \/ Keep(x) \in A \/ Establish(x) \in A
                             \/ (Update(x) \in A /\ d.res[x])}
  IN [d EXCEPT
        !.list = list,
        !.run = [x \in Side |-> IF Stop \in A THEN "no"
                                ELSE IF Start \in A /\ x \in list THEN "run" ELSE @[x]],
        !.res = [x \in Side |-> (@[x] \/ Keep(x) \in A) /\ Free(x) \notin A],
        !.rgen = [x \in Side |-> IF x \in fresh THEN bus.gen ELSE @[x]],
        !.con = [x \in Side |-> (@[x] \/ Establish(x) \in A) /\ Break(x) \notin A],
        !.ses = (@ \/ Begin \in A) /\ Finish \notin A,
        !.cache = IF Cache \in A THEN s # "midi" ELSE @ /\ DropCache \notin A,
        !.count = IF CountUp \in A THEN @ + 1 ELSE IF CountDown \in A THEN @ - 1 ELSE @,
        !.lock = IF LockTry \in A THEN @ + 1
                 ELSE IF LockRelease \in A /\ @ > 0 THEN @ - 1 ELSE @,
        !.mem = [x \in Side |-> IF InitStream(x) \in A THEN "live"
                                ELSE IF Destroy(x) \in A THEN Destroyed(@[x]) ELSE @[x]],
        !.card = IF Start \in A /\ d.kind = "motu" /\ ~d.cache THEN "dead" ELSE @]

\* A connection without resources of the present generation: the update of
\* the resources does nothing, and cmp_connection_establish() tries for ever.
Spins(A) ==
  \E x \in Side : Establish(x) \in A /\ ~dev.con[x] /\ ~dev.res[x] /\ dev.rgen[x] # bus.gen

\* What a step finds wrong whatever the unit and the bus do.
Refused(A) ==
  \/ \E x \in Side : \/ Keep(x) \in A /\ dev.res[x]
                     \/ Establish(x) \in A /\ dev.con[x]
                     \/ Add(x) \in A /\ x \in dev.list
                     \/ Start \in A /\ x \in dev.list /\ dev.run[x] # "no"
  \/ LockTry \in A /\ dev.lock < 0

\* What a failed request leaves: reserving again may have lost the resources.
Remains(A) ==
  {dev, [dev EXCEPT !.res = [x \in Side |-> @[x] /\ Update(x) \notin A]]}

FromRet(q) ==
  LET i == SelectInSeq(q, LAMBDA e : e.do = "ret")
  IN IF i = 0 THEN <<>> ELSE SubSeq(q, i, Len(q))
\* What the caller of a function that fails does.
Undoes(q) == IF FromRet(q) = <<>> THEN {} ELSE Head(FromRet(q)).bad

\* The conditions in front of the next step are decided at once, and a
\* function that has not failed returns.
Decide(q, d, s) ==
  IF q = <<>> THEN q
  ELSE CASE Head(q).do = "if" ->
              IF Holds(Head(q).on, d, s) THEN Head(q).bad \o Tail(q) ELSE Tail(q)
         [] Head(q).do = "ret" -> Tail(q)
         [] Head(q).do = "return" -> FromRet(q)
         [] OTHER -> q
Settle(q, d, s) ==
  FoldLeft(LAMBDA u, i : CHOOSE v \in {Decide(w, d, s) : w \in {u}} : TRUE, q, <<1, 2, 3, 4, 5, 6, 7>>)

\* amdtp_stream_pcm_abort() and cancel_stream() tell ALSA of an xrun.
Told(xs) ==
  [s \in Substream |-> IF pcm[s] = "prep" /\ s # "midi" /\ SideOf(s) \in xs
                       THEN "setup" ELSE pcm[s]]

\* Ghost: the resources of streams are gone though substreams use them.
Robbed(d) ==
  IF \E x \in Side : dev.res[x] /\ ~d.res[x] /\ dev.count > 0 THEN {"robbed"} ELSE {}
\* Ghost: dice's update has forgotten the session and then failed to end the streams.
Unended(s, err) == IF dev.kind = "dice" /\ th[s].op = "update" /\ err THEN {"unended"} ELSE {}
Healed(d) == (IF d.count = 0 \/ \A x \in Side : d.res[x] THEN {"robbed"} ELSE {})
             \union (IF \A x \in Side : d.run[x] = "no" THEN {"unended"} ELSE {})

\* Thread s has taken the effects A to state d, with the steps q to go.
Goes(s, A, d, q, err) ==
  /\ dev' = d
  /\ th' = [th EXCEPT ![s].todo = Settle(q, dev', s), ![s].err = err]
  /\ own' = IF Mutex \in A THEN s ELSE IF Unlock \in A THEN "nobody" ELSE own
  /\ pcm' = Told({x \in Side : Abort(x) \in A})
  /\ odd' = (odd \ Healed(dev')) \union Robbed(dev') \union Unended(s, err)

StepOf(s) == Head(th[s].todo)
RestOf(s) == Tail(th[s].todo)
Ready(s) == th[s].todo # <<>> /\ dev.card # "dead"

StepSucceeds(s) ==
  /\ Ready(s) /\ ~Refused(StepOf(s).on) /\ ~Spins(StepOf(s).on)
  /\ Mutex \in StepOf(s).on => own = "nobody"
  /\ Goes(s, StepOf(s).on, Apply(StepOf(s).on, dev, s), RestOf(s), th[s].err)
  /\ UNCHANGED bus
\* Failures and races are looked at one by one.
MayFail == bus.faults < DupMaxFault /\ "raced" \notin odd
Fails(s) ==
  \/ Refused(StepOf(s).on) /\ UNCHANGED bus
  \/ MayFail /\ bus' = [bus EXCEPT !.faults = @ + 1]
StepFails(s) ==
  /\ Ready(s) /\ StepOf(s).do = "try" /\ Fails(s)
  /\ \E d \in Remains(StepOf(s).on), A \in {StepOf(s).bad \union Undoes(RestOf(s))} :
       Goes(s, A, Apply(A, d, s), <<>>, TRUE)
StepFailsUnseen(s) ==
  /\ Ready(s) /\ StepOf(s).do = "anyway" /\ Fails(s)
  /\ \E d \in Remains(StepOf(s).on) : Goes(s, {}, d, RestOf(s), th[s].err)
LockedOut(s) ==
  /\ Ready(s) /\ StepOf(s).do = "enter" /\ Refused(StepOf(s).on)
  /\ Goes(s, {}, dev, <<>>, TRUE)
  /\ UNCHANGED bus
Step(s) == StepSucceeds(s) \/ StepFails(s) \/ StepFailsUnseen(s) \/ LockedOut(s)

-----------------------------------------------------------------------------
(* The calls of ALSA, and how they end. *)
Busy(s) == th[s].op # "idle"
\* The operations that do not take the mutex, and two at once in the streams.
Unlocked(op) == \/ dev.kind \in {"efw", "bebob"} /\ op = "prepare"
                \/ dev.kind \in {"ff400", "ff800", "latter"} /\ op = "update"
Races(s, op) ==
  IF \E t \in DupThread \ {s} : Busy(t) /\ (Unlocked(op) \/ Unlocked(th[t].op))
  THEN {"raced"} ELSE {}

\* A call that would wait for the mutex is made once the mutex is free.
Enter(s, op, rate) ==
  /\ ~Busy(s) /\ Cardinality({t \in DupThread : Busy(t)}) < DupMaxBusy
  /\ \A t \in DupThread : Busy(t) => Unlocked(op) \/ Unlocked(th[t].op)
  /\ Races(s, op) # {} => bus.faults < DupMaxFault
  /\ th' = [th EXCEPT ![s] = [op |-> op, rate |-> rate, err |-> FALSE,
                              todo |-> Settle(Program(dev.kind)[op], dev, s)]]
  /\ odd' = odd \union Races(s, op)
  /\ UNCHANGED <<own, pcm>>

SndProbe(kind) ==
  /\ dev.card = "none"
  /\ dev' = [dev EXCEPT !.kind = kind, !.card = "probing"]
  /\ th' = [th EXCEPT !["unit"] = [op |-> "probe", todo |-> Program(kind).probe,
                                   err |-> FALSE, rate |-> "same"]]
  /\ UNCHANGED <<own, pcm, bus, odd>>

PcmOpens(s) ==
  /\ s # "midi" /\ pcm[s] = "closed" /\ dev.card = "on"
  /\ Enter(s, "open", "same") /\ UNCHANGED <<dev, bus>>
PcmHwParams(s) ==
  /\ s # "midi" /\ pcm[s] = "open" /\ dev.card = "on"
  /\ \E r \in {"same", "other"} : Enter(s, "hw_params", r)
  /\ UNCHANGED <<dev, bus>>
PcmPrepares(s) ==
  /\ s # "midi" /\ pcm[s] \in {"setup", "prep"} /\ dev.card = "on"
  /\ Enter(s, "prepare", "same") /\ UNCHANGED <<dev, bus>>
PcmHwFrees(s) ==
  /\ s # "midi" /\ pcm[s] \in {"setup", "prep"} /\ dev.card \in {"on", "leaving"}
  /\ Enter(s, "hw_free", "same") /\ UNCHANGED <<dev, bus>>
PcmCloses(s) ==
  /\ s # "midi" /\ pcm[s] = "open" /\ ~Busy(s) /\ dev.card \in {"on", "leaving"}
  /\ dev' = [dev EXCEPT !.lock = IF @ > 0 THEN @ - 1 ELSE @]
  /\ pcm' = [pcm EXCEPT ![s] = "closed"]
  /\ UNCHANGED <<th, own, bus, odd>>
MidiOpens ==
  /\ dev.kind \in MidiInStream /\ pcm["midi"] = "closed" /\ dev.card = "on"
  /\ Enter("midi", "midi_open", "same") /\ UNCHANGED <<dev, bus>>
MidiCloses ==
  /\ pcm["midi"] = "open" /\ dev.card \in {"on", "leaving"}
  /\ Enter("midi", "midi_close", "same") /\ UNCHANGED <<dev, bus>>

\* capture_prepare() of dice and motu returns 0 whatever start_duplex says.
SaysPrepared(s) == ~th[s].err \/ (s = "capt" /\ dev.kind \in {"dice", "motu"})
Outcome(s) ==
  CASE th[s].op = "open" -> IF th[s].err THEN "closed" ELSE "open"
    [] th[s].op = "hw_params" -> IF th[s].err THEN "open" ELSE "setup"
    [] th[s].op = "hw_free" -> "open"
    [] th[s].op = "prepare" -> IF SaysPrepared(s) THEN "prep" ELSE "setup"
    [] th[s].op = "midi_open" -> IF th[s].err THEN "closed" ELSE "open"
    [] th[s].op = "midi_close" -> "closed"

SubstreamReturns(s) ==
  /\ Busy(s) /\ th[s].todo = <<>> /\ dev.card # "dead"
  /\ pcm' = [pcm EXCEPT ![s] = Outcome(s)]
  /\ th' = [th EXCEPT ![s] = IF th[s].op = "hw_params" /\ th[s].err
                             THEN [Idle EXCEPT !.op = "hw_free",
                                               !.todo = Program(dev.kind).hw_free]
                             ELSE Idle]
  /\ odd' = (IF (th[s].op = "hw_params" /\ ~th[s].err) \/ th[s].op = "hw_free" THEN odd \ {"left"}
             ELSE IF th[s].op = "midi_open" /\ th[s].err
             THEN odd \union {"left"} \union (IF dev.kind = "oxfw" THEN {"miscounted"} ELSE {})
             ELSE odd)
            \union Races(s, th'[s].op)
  /\ UNCHANGED <<dev, own, bus>>

\* probe has ended, or update; a failed probe frees the card.
UnitReturns ==
  /\ Busy("unit") /\ th["unit"].todo = <<>> /\ dev.card # "dead"
  /\ LET failed == th["unit"].op = "probe" /\ th["unit"].err
     IN /\ dev' = [dev EXCEPT !.card = CASE th["unit"].op = "free" -> "freed"
                                         [] th["unit"].op = "probe" /\ ~failed -> "on"
                                         [] OTHER -> @]
        /\ th' = [th EXCEPT !["unit"] = IF failed THEN [Idle EXCEPT !.op = "free",
                                                                    !.todo = DestroyDuplex]
                                        ELSE Idle]
  /\ UNCHANGED <<pcm, own, bus, odd>>

BusResets ==
  /\ dev.card \in {"on", "leaving"} /\ bus.gen < DupMaxGen
  /\ bus' = [bus EXCEPT !.gen = @ + 1]
  /\ UNCHANGED <<dev, th, pcm, own, odd>>
UnitUpdates ==
  /\ dev.card = "on" /\ bus.seen # bus.gen
  /\ Enter("unit", "update", "same")
  /\ bus' = [bus EXCEPT !.seen = bus.gen]
  /\ UNCHANGED dev

\* snd_card_free() waits until the last substream is closed.
UnitRemoved ==
  /\ dev.card = "on" /\ ~Busy("unit")
  /\ dev' = [dev EXCEPT !.card = "leaving"]
  /\ UNCHANGED <<th, pcm, own, bus, odd>>
CardFreed ==
  /\ dev.card = "leaving" /\ \A s \in DupThread : ~Busy(s)
  /\ \A s \in Substream : pcm[s] = "closed"
  /\ th' = [th EXCEPT !["unit"] = [Idle EXCEPT !.op = "free", !.todo = DestroyDuplex]]
  /\ dev' = [dev EXCEPT !.card = "freeing"]
  /\ UNCHANGED <<pcm, own, bus, odd>>

\* The packets of running streams are wrong: cancel_stream().
StreamsFail(xs) ==
  /\ MayFail /\ xs # {} /\ \A x \in xs : dev.run[x] = "run"
  /\ dev.card # "dead"
  /\ dev' = [dev EXCEPT !.run = [x \in Side |-> IF x \in xs THEN "err" ELSE @[x]]]
  /\ pcm' = Told(xs)
  /\ bus' = [bus EXCEPT !.faults = @ + 1]
  /\ UNCHANGED <<th, own, odd>>

\* SNDRV_FIREWIRE_IOCTL_LOCK and _UNLOCK: user-land streaming.
HwdepLocks == dev.card = "on" /\ dev.lock = 0 /\ dev' = [dev EXCEPT !.lock = -1]
              /\ UNCHANGED <<th, pcm, own, bus, odd>>
HwdepUnlocks == dev.lock = -1 /\ dev' = [dev EXCEPT !.lock = 0]
                /\ UNCHANGED <<th, pcm, own, bus, odd>>

DupNext ==
  \/ \E k \in DupDrivers : SndProbe(k)
  \/ \E s \in DupThread : Step(s)
  \/ \E s \in Substream : PcmOpens(s) \/ PcmHwParams(s) \/ PcmPrepares(s) \/ PcmHwFrees(s)
                          \/ PcmCloses(s) \/ SubstreamReturns(s)
  \/ MidiOpens \/ MidiCloses \/ UnitReturns \/ BusResets \/ UnitUpdates
  \/ UnitRemoved \/ CardFreed \/ HwdepLocks \/ HwdepUnlocks
  \/ \E xs \in SUBSET Side : StreamsFail(xs)

DupSpec == DupInit /\ [][DupNext]_dupvars

-----------------------------------------------------------------------------
DupTypeOK ==
  /\ dev.card \in {"none", "probing", "on", "leaving", "freeing", "freed", "dead"}
  /\ dev.count \in 0..4 /\ dev.lock \in -1..3
  /\ pcm \in [Substream -> {"closed", "open", "setup", "prep"}]
  /\ own \in DupThread \union {"nobody"}
  /\ odd \subseteq {"robbed", "left", "raced", "miscounted", "unended"}

Quiet == own = "nobody" /\ \A s \in DupThread : ~Busy(s)
Configured == {s \in Substream : pcm[s] \in {"setup", "prep"} \/ (s = "midi" /\ pcm[s] = "open")}
Opened == {s \in Substream : pcm[s] # "closed"}

(* Whenever no operation is under way, the driver has counted exactly the  *)
(* configured substreams (unless oxfw's midi_playback_open() failed, which *)
(* does not take its substream back); with no substream no stream runs, is *)
(* connected or holds bandwidth (unless opening a MIDI port has failed,    *)
(* which leaves the reservation); a running stream has its channel, its    *)
(* connection and its session, unless the resources were lost under it,    *)
(* calls raced where the code takes no mutex, or dice's update for a bus   *)
(* reset cleared global_enabled and then could not read the registers      *)
(* (dice-stream.c:599-606), which leaves the streams running without their *)
(* session until they stop; and the lock count is the number of open       *)
(* substreams.  At any time, the mutex is held by a thread inside the      *)
(* driver, and no thread waits for a connection it cannot establish,       *)
(* unless the resources of the streams were lost before.  Nothing is said  *)
(* once motu's streams were started with no room for event offsets (its    *)
(* size of motu-stream.c:188 is 0 for MIDI, or the room was freed at 156), *)
(* since their first packet divides by zero or writes through NULL (amdtp- *)
(* motu.c:321-323).                                                        *)
DuplexExact ==
  /\ DupTypeOK
  /\ own # "nobody" => Busy(own)
  /\ \A s \in DupThread : Ready(s) /\ Spins(StepOf(s).on) => "robbed" \in odd
  /\ Quiet /\ dev.card # "dead" =>
     /\ dev.count = Cardinality(Configured) \/ "miscounted" \in odd
     /\ dev.count = 0 =>
          /\ dev.list = {} /\ \A x \in Side : dev.run[x] = "no" /\ ~dev.con[x]
          /\ "left" \notin odd => \A x \in Side : ~dev.res[x]
     /\ \A x \in Side : dev.run[x] = "run" =>
          /\ x \in dev.list
          /\ odd \intersect {"robbed", "raced"} = {} =>
               /\ dev.res[x] \/ (dev.kind = "ff800" /\ x = "tx")
               /\ IF dev.kind \in Cmp THEN dev.con[x] ELSE dev.ses \/ "unended" \in odd
     /\ dev.lock \in {Cardinality(Opened), -1}

====
