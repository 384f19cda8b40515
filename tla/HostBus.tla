-------------------------------- MODULE HostBus --------------------------------
(***************************************************************************)
(* The GPIO and analog output ports of HostBus: the level and mode of each *)
(* pin, and the analog slot of each pin, driven by ledc*, analogWrite,     *)
(* dacWrite and tone, with the LEDC channels the pins share.               *)
(*                                                                         *)
(* A call that is refused changes nothing, and is no step.  The two ports  *)
(* share no state.  Left out: what the hooks are told, the injected ADC    *)
(* readings, which are handed back as they are, and the flag that          *)
(* ledcOutputInvert sets.                                                  *)
(***************************************************************************)
EXTENDS Integers, FiniteSets, Powers

CONSTANTS
  Pins,            (* pin numbers                                          *)
  Channels,        (* LEDC channel numbers                                 *)
  Nothing,         (* no channel, no pin                                   *)
  Frequencies,     (* frequencies given to the calls, 0 among them         *)
  Resolutions,     (* resolutions given to the calls                       *)
  Duties,          (* duties, and DAC values, given to the calls           *)
  MaxResolution,   (* kLedcMaxResolution, 20                               *)
  ToneResolution,  (* 10                                                   *)
  ToneDuty,        (* 0x1FF                                                *)
  DacResolution,   (* 8                                                    *)
  DefaultBits, DefaultHz  (* what analogWrite attaches with, 8 and 1000    *)

ASSUME BusAssumption ==
  /\ Pins \subseteq Nat /\ Channels \subseteq Nat /\ Nothing \notin Nat
  /\ Frequencies \subseteq Nat /\ Resolutions \subseteq Nat /\ Duties \subseteq Nat
  /\ MaxResolution \in Nat /\ ToneResolution \in 1..MaxResolution /\ ToneDuty \in Nat
  /\ DacResolution \in Nat /\ DefaultBits \in Nat /\ DefaultHz \in Nat

VARIABLES
  pin_value, pin_mode,  (* the tables of the GPIO port                     *)
  analog,          (* AnalogTables::out                                    *)
  write_bits, write_hz, (* the defaults of analogWrite                     *)
  tone_pin,        (* the pin tone() plays on                              *)
  toned,           (* the pin that tone() has attached, until it is not    *)
  asked,           (* pins attached to a channel the sketch has named      *)
  retuned          (* channels whose pins were retuned one by one          *)

gpio_vars == <<pin_value, pin_mode>>
defaults == <<write_bits, write_hz>>
sharing == <<asked, retuned>>
analog_vars == <<analog, defaults, tone_pin, toned, sharing>>

Modes == {"INPUT", "OUTPUT", "INPUT_PULLUP", "INPUT_PULLDOWN"}
Unattached == [channel |-> Nothing, duty |-> 0, frequency |-> 0, resolution |-> 0,
               attached |-> FALSE, dac |-> FALSE]

GpioInit ==
  /\ pin_value = [p \in Pins |-> 0] /\ pin_mode = [p \in Pins |-> "INPUT"]

AnalogInit ==
  /\ analog = [p \in Pins |-> Unattached]
  /\ write_bits = DefaultBits /\ write_hz = DefaultHz
  /\ tone_pin = Nothing /\ toned = Nothing /\ asked = {} /\ retuned = {}
------------------------------------------------------------------------------
(* GPIO.                                                                   *)
Pulled(mode, level) ==
  CASE mode = "INPUT_PULLUP" -> 1 [] mode = "INPUT_PULLDOWN" -> 0 [] OTHER -> level

PinMode(p, mode) ==
  /\ pin_mode' = [pin_mode EXCEPT ![p] = mode]
  /\ pin_value' = [pin_value EXCEPT ![p] = Pulled(mode, @)]

DigitalWrite(p, level) ==
  /\ pin_value' = [pin_value EXCEPT ![p] = level]
  /\ UNCHANGED pin_mode

(* The driver's own calls.                                                 *)
SetPinValue(p, level) == DigitalWrite(p, level)

ResetPinState ==
  /\ pin_value' = [p \in Pins |-> 0] /\ pin_mode' = [p \in Pins |-> "INPUT"]

GpioNext ==
  \/ \E p \in Pins : \E mode \in Modes : PinMode(p, mode)
  \/ \E p \in Pins : \E level \in 0..1 : DigitalWrite(p, level)
  \/ ResetPinState
------------------------------------------------------------------------------
(* The LEDC slots and channels. *)
LedcSlot(p) == analog[p].attached /\ ~analog[p].dac
OnChannel(c) == {p \in Pins : LedcSlot(p) /\ analog[p].channel = c}
Lowest(S) == CHOOSE n \in S : \A m \in S : n <= m

FreeChannels == {c \in Channels : OnChannel(c) = {}}

ClampDuty(duty, resolution) ==
  LET max == Power(2)[resolution] - 1 IN
  IF duty >= max /\ max # 1 THEN max + 1 ELSE duty

(* What attachChannel and ledcChangeFrequency accept.                      *)
Tunable(f, r) == f # 0 /\ r # 0 /\ r <= MaxResolution

MutantAttached(p, f, r, c) ==
  [analog[p] EXCEPT !.channel = c, !.frequency = f, !.resolution = r,
                    !.attached = TRUE, !.dac = FALSE]

(* The slot of a pin attached to a channel: one in use has its own tuning. *)
Attached(p, f, r, c) ==
  LET tuning == IF OnChannel(c) = {} THEN [frequency |-> f, resolution |-> r]
                ELSE analog[Lowest(OnChannel(c))] IN
  [analog[p] EXCEPT !.channel = c, !.frequency = tuning.frequency,
                    !.resolution = tuning.resolution, !.attached = TRUE, !.dac = FALSE]

Detached(slot) ==
  [slot EXCEPT !.attached = FALSE, !.channel = Nothing, !.duty = 0]

(* ledcWriteTone on a slot: silence is a duty of 0.                        *)
Toned(slot, f) ==
  IF f = 0 THEN [slot EXCEPT !.duty = 0]
  ELSE [slot EXCEPT !.frequency = f, !.resolution = ToneResolution, !.duty = ToneDuty]

Change(p, slot) == analog' = [analog EXCEPT ![p] = slot]

(* A pin is no longer attached as it was, or a channel is retuned.         *)
Leaves(p) == asked' = asked \ {p} /\ toned' = IF toned = p THEN Nothing ELSE toned
Retunes(R) == retuned' = {c \in retuned \cup R : OnChannel(c)' # {}}

LedcAttachChannel(p, f, r, c) ==
  /\ ~LedcSlot(p) /\ Tunable(f, r)
  /\ Change(p, Attached(p, f, r, c))
  /\ asked' = asked \cup {p}
  /\ UNCHANGED <<defaults, tone_pin, toned, retuned>>

LedcAttach(p, f, r) ==
  /\ ~LedcSlot(p) /\ Tunable(f, r) /\ FreeChannels # {}
  /\ Change(p, Attached(p, f, r, Lowest(FreeChannels)))
  /\ UNCHANGED <<defaults, tone_pin, toned, sharing>>

LedcWrite(p, duty) ==
  /\ LedcSlot(p)
  /\ Change(p, [analog[p] EXCEPT !.duty = ClampDuty(duty, analog[p].resolution)])
  /\ UNCHANGED <<defaults, tone_pin, toned, sharing>>

(* Every pin of the channel is written.                                    *)
LedcWriteChannel(c, duty) ==
  /\ OnChannel(c) # {}
  /\ analog' = [p \in Pins |-> IF p \in OnChannel(c)
                  THEN [analog[p] EXCEPT !.duty = ClampDuty(duty, analog[p].resolution)]
                  ELSE analog[p]]
  /\ UNCHANGED <<defaults, tone_pin, toned, sharing>>

LedcWriteTone(p, f) ==
  /\ LedcSlot(p)
  /\ Change(p, Toned(analog[p], f))
  /\ Retunes(IF f = 0 THEN {} ELSE {analog[p].channel})
  /\ UNCHANGED <<defaults, tone_pin, toned, asked>>

LedcDetach(p) ==
  /\ LedcSlot(p)
  /\ Change(p, Detached(analog[p]))
  /\ Leaves(p) /\ Retunes({})
  /\ UNCHANGED <<defaults, tone_pin>>

Retune(p, f, r) ==
  /\ LedcSlot(p) /\ Tunable(f, r)
  /\ Change(p, [analog[p] EXCEPT !.frequency = f, !.resolution = r])
  /\ Retunes({analog[p].channel})
  /\ UNCHANGED <<tone_pin, toned, asked>>

LedcChangeFrequency(p, f, r) == Retune(p, f, r) /\ UNCHANGED defaults

(* Both ends of a fade are written at once; the second stays.              *)
LedcFade(p, start, target) ==
  LET begun == [analog[p] EXCEPT !.duty = ClampDuty(start, analog[p].resolution)] IN
  /\ LedcSlot(p)
  /\ Change(p, [begun EXCEPT !.duty = ClampDuty(target, begun.resolution)])
  /\ UNCHANGED <<defaults, tone_pin, toned, sharing>>
------------------------------------------------------------------------------
(* analogWrite, which attaches a pin at its first use, and its defaults.   *)
AnalogWrite(p, value) ==
  LET slot == IF LedcSlot(p) THEN analog[p]
              ELSE Attached(p, write_hz, write_bits, Lowest(FreeChannels)) IN
  /\ LedcSlot(p) \/ (FreeChannels # {} /\ Tunable(write_hz, write_bits))
  /\ Change(p, [slot EXCEPT !.duty = ClampDuty(value, slot.resolution)])
  /\ UNCHANGED <<defaults, tone_pin, toned, sharing>>

(* The spellings with a pin retune it with the other default as it is now. *)
AnalogWriteFrequency(p, f) ==
  /\ IF LedcSlot(p) THEN Retune(p, f, write_bits)
     ELSE UNCHANGED <<analog, tone_pin, toned, sharing>>
  /\ write_hz' = f
  /\ UNCHANGED write_bits

AnalogWriteResolution(p, r) ==
  /\ IF LedcSlot(p) THEN Retune(p, write_hz, r)
     ELSE UNCHANGED <<analog, tone_pin, toned, sharing>>
  /\ write_bits' = r
  /\ UNCHANGED write_hz

(* The spellings without one.                                              *)
AnalogWriteDefaults(f, r) ==
  /\ \/ write_hz' = f /\ UNCHANGED write_bits
     \/ write_bits' = r /\ UNCHANGED write_hz
  /\ UNCHANGED <<analog, tone_pin, toned, sharing>>
------------------------------------------------------------------------------
(* A DAC write takes the pin off its channel without a detach.             *)
DacWrite(p, value) ==
  /\ Change(p, [analog[p] EXCEPT !.channel = Nothing, !.frequency = 0,
                                 !.resolution = DacResolution, !.duty = value,
                                 !.attached = TRUE, !.dac = TRUE])
  /\ Leaves(p) /\ Retunes({})
  /\ UNCHANGED <<defaults, tone_pin>>

DacDisable(p) ==
  /\ analog[p].dac
  /\ Change(p, [analog[p] EXCEPT !.attached = FALSE, !.dac = FALSE, !.duty = 0])
  /\ UNCHANGED <<defaults, tone_pin, toned, sharing>>
------------------------------------------------------------------------------
(* tone() attaches the pin unless it plays already; a note with a duration *)
(* is over at once.  A pin whose channel was taken away plays nothing.     *)
Tone(p, f, duration) ==
  LET starts == tone_pin = Nothing
      slot == IF starts THEN Attached(p, f, ToneResolution, Lowest(FreeChannels)) ELSE analog[p]
  IN
  /\ tone_pin \in {Nothing, p}
  /\ IF starts THEN ~LedcSlot(p) /\ Tunable(f, ToneResolution) /\ FreeChannels # {}
     ELSE LedcSlot(p)
  /\ Change(p, IF duration THEN Toned(Toned(slot, f), 0) ELSE Toned(slot, f))
  /\ tone_pin' = p
  /\ toned' = IF starts THEN p ELSE toned
  /\ Retunes(IF f = 0 THEN {} ELSE {slot.channel})
  /\ UNCHANGED <<defaults, asked>>

MutantNoTone(p) ==
  /\ tone_pin = p
  /\ IF LedcSlot(p) /\ analog[p].duty # 0
     THEN Change(p, Detached(analog[p])) /\ Leaves(p) /\ Retunes({})
     ELSE UNCHANGED <<analog, toned, sharing>>
  /\ tone_pin' = Nothing
  /\ UNCHANGED defaults

NoTone(p) ==
  /\ tone_pin = p
  /\ IF LedcSlot(p) THEN Change(p, Detached(analog[p])) /\ Leaves(p) /\ Retunes({})
     ELSE UNCHANGED <<analog, toned, sharing>>
  /\ tone_pin' = Nothing
  /\ UNCHANGED defaults

(* The driver resets everything.                                           *)
ResetAnalogState ==
  /\ analog' = [p \in Pins |-> Unattached]
  /\ write_bits' = DefaultBits /\ write_hz' = DefaultHz
  /\ tone_pin' = Nothing /\ toned' = Nothing /\ asked' = {} /\ retuned' = {}

Ledc(p) ==
  \/ \E f \in Frequencies, r \in Resolutions :
       \/ \E c \in Channels : LedcAttachChannel(p, f, r, c)
       \/ LedcAttach(p, f, r)
       \/ LedcChangeFrequency(p, f, r)
  \/ \E duty \in Duties : LedcWrite(p, duty)
  \/ \E f \in Frequencies : LedcWriteTone(p, f)
  \/ LedcDetach(p)
  \/ \E start, target \in Duties : LedcFade(p, start, target)

AnalogNext ==
  \/ \E p \in Pins : Ledc(p)
  \/ \E c \in Channels, duty \in Duties : LedcWriteChannel(c, duty)
  \/ \E p \in Pins, value \in Duties : AnalogWrite(p, value) \/ DacWrite(p, value)
  \/ \E p \in Pins, f \in Frequencies : AnalogWriteFrequency(p, f)
  \/ \E p \in Pins, r \in Resolutions : AnalogWriteResolution(p, r)
  \/ \E f \in Frequencies, r \in Resolutions : AnalogWriteDefaults(f, r)
  \/ \E p \in Pins : DacDisable(p) \/ NoTone(p)
  \/ \E p \in Pins, f \in Frequencies, duration \in BOOLEAN : Tone(p, f, duration)
  \/ ResetAnalogState

GpioSpec == GpioInit /\ [][GpioNext]_gpio_vars
AnalogSpec == AnalogInit /\ [][AnalogNext]_analog_vars
------------------------------------------------------------------------------
(* Every variable of the two ports has its type.                           *)
BusTypeOK ==
  /\ pin_value \in [Pins -> 0..1] /\ pin_mode \in [Pins -> Modes]
  /\ analog \in [Pins -> [channel : Channels \cup {Nothing}, duty : Nat, frequency : Nat,
                          resolution : Nat, attached : BOOLEAN,
                          dac : BOOLEAN]]
  /\ write_bits \in Nat /\ write_hz \in Nat
  /\ tone_pin \in Pins \cup {Nothing} /\ toned \in Pins \cup {Nothing}
  /\ asked \subseteq Pins /\ retuned \subseteq Channels

(* Pins share a channel only where the sketch has named the channel of one *)
(* of them, and they agree on its frequency and resolution unless one was  *)
(* retuned by itself; an attach without a channel gets one of its own      *)
(* (HostBus.h:153-155, 195-197).                                           *)
BusSharing ==
  \A p, q \in Pins : \A c \in Channels :
    p # q /\ p \in OnChannel(c) /\ q \in OnChannel(c) =>
      /\ p \in asked \/ q \in asked
      /\ c \notin retuned => /\ analog[p].frequency = analog[q].frequency
                             /\ analog[p].resolution = analog[q].resolution

(* A channel that tone() has taken can be given back by noTone(): it is on *)
(* the pin that tone() still plays on (HostBus.cpp:126-128, 733-743).      *)
BusToneGivesBack == toned # Nothing => toned = tone_pin /\ LedcSlot(toned)
================================================================================
