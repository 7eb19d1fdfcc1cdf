------------------------------- MODULE VoiceAudio -------------------------------
(***************************************************************************)
(* The sound card of a call and its settings: apps/proxychat/voice.py      *)
(* (VoiceAudio, and VoiceController from set_devices on), the device list  *)
(* and the boxes of ui.py, and the noise gate every card carries.          *)
(*                                                                         *)
(* The system plugs and unplugs devices and moves its default at any time; *)
(* the window hears of it later.  The user chooses devices, mutes, and     *)
(* sets the gate.  The card is opened anew for a choice and for a change   *)
(* of the devices, and may fail to open.  What the user sets is saved, and *)
(* loaded when the program starts again.                                   *)
(***************************************************************************)
EXTENDS NoiseGate, FiniteSets

CONSTANTS
    Devices,    \* of each end
    Fixed,      \* the device that cannot be unplugged
    Doubtful,   \* pairs of an end and a device that may lack the format
    Threshold,  \* the threshold other than the gate's own
    None

Ends == {"input", "output"}

\* What is set of a VoiceAudio: the devices it is on, and its gate.
Cards == [device : [Ends -> Devices], muted : BOOLEAN, threshold : {0, Threshold}, gate : Gates]

\* None is no card, and no list of devices either.
ASSUME NoneAssumption == None \notin Cards \cup [Ends -> SUBSET Devices]

VARIABLES
    (* the system *)
    plugged, \* end -> the devices there are
    default, \* end -> QMediaDevices.defaultAudioInput/-Output
    bad,     \* what lacks the format
    news,    \* audioInputsChanged or audioOutputsChanged is on its way
    (* VoiceController *)
    wanted,  \* _input_id and _output_id; None for the system's default
    gate_enabled, gate_threshold,
    card,    \* audio, or None outside of a call
    (* the window *)
    box,     \* is voice_mute_box checked?
    listed,  \* what the device boxes offer, None until they are first needed
    shown,   \* what they show; None for the system's default
    saved    \* settings.py: the devices and the gate
systemVars == <<plugged, default, bad>>
gateVars == <<gate_enabled, gate_threshold>>
listVars == <<listed, shown>>
vars == <<plugged, default, bad, news, wanted, gate_enabled, gate_threshold,
          card, box, listed, shown, saved>>

TypeOK ==
    /\ plugged \in [Ends -> SUBSET Devices]
    /\ \A e \in Ends : Fixed \in plugged[e] /\ default[e] \in plugged[e]
    /\ wanted \in [Ends -> Devices \cup {None}]
    /\ listed \in [Ends -> SUBSET Devices] \cup {None}
    /\ shown \in [Ends -> Devices \cup {None}]
    /\ saved \in [device : [Ends -> Devices \cup {None}], enabled : BOOLEAN,
                  threshold : {0, Threshold}]
    /\ card \in Cards \cup {None}
    /\ card # None => /\ Len(card.gate.queue) <= LookAhead
                      /\ card.gate.flush <= LookAhead + 1

Init ==
    /\ plugged \in [Ends -> {P \in SUBSET Devices : Fixed \in P}]
    /\ default = [e \in Ends |-> Fixed]
    /\ bad \in SUBSET Doubtful
    /\ news = FALSE
    /\ wanted = [e \in Ends |-> None]
    /\ gate_enabled = TRUE /\ gate_threshold = 0
    /\ card = None /\ box = FALSE
    /\ listed = None /\ shown = [e \in Ends |-> None]
    /\ saved = [device |-> wanted, enabled |-> TRUE, threshold |-> 0]

----------------------------------------------------------------------------
(* Opening the card *)

\* pick_device, for both ends.
Picked(w) == [e \in Ends |-> IF w[e] \in plugged[e] THEN w[e] ELSE default[e]]

\* isFormatSupported, for what would be picked.
Openable(w) == \A e \in Ends : <<e, Picked(w)[e]>> \notin bad

\* A new VoiceAudio after _configure_audio.
Card(w, muted) ==
    [device |-> Picked(w), muted |-> muted, threshold |-> gate_threshold,
     gate |-> NewGate(gate_enabled)]

Open(w, muted) ==
    /\ card' = Card(w, muted)
    /\ UNCHANGED box

\* leave: without a call the box is unchecked.
Close ==
    /\ card' = None
    /\ box' = FALSE

\* The line a box shows for a chosen device: the first one, the system's
\* default, when that device is not on the list.
Line(devices, w) == [e \in Ends |-> IF w[e] \in devices[e] THEN w[e] ELSE None]

\* _ensure_voice_devices: the list is read once, and watched from then on.
FillBoxes ==
    IF listed = None THEN listed' = plugged /\ shown' = Line(plugged, wanted)
    ELSE UNCHANGED listVars

\* The row of the devices is opened.
ShowDevices ==
    /\ listed = None
    /\ FillBoxes
    /\ UNCHANGED <<systemVars, news, wanted, gateVars, card, box, saved>>

\* The card opens first; the state "on" then asks for the list.
Join ==
    /\ card = None
    /\ Openable(wanted)
    /\ Open(wanted, FALSE)
    /\ FillBoxes
    /\ UNCHANGED <<systemVars, news, wanted, gateVars, saved>>

Leave ==
    /\ card # None
    /\ Close
    /\ UNCHANGED <<systemVars, news, wanted, gateVars, listVars, saved>>

----------------------------------------------------------------------------
(* Devices *)

\* A bug the code had: the muting is read when the old card is gone.
ReturnUnmuted(w) ==
    IF Openable(w) THEN Open(w, FALSE) ELSE Close

\* The devices chosen before are opened again; a call without sound is left.
Return(w) ==
    IF Openable(w) THEN Open(w, card.muted) ELSE Close

\* settings.py writes each choice when it is made.
SaveDevices(w) == saved' = [saved EXCEPT !.device = w]
SaveGate(enabled, threshold) ==
    saved' = [saved EXCEPT !.enabled = enabled, !.threshold = threshold]

\* set_devices: what cannot be opened is not chosen.
SetDevices(w) ==
    IF card = None \/ w = wanted THEN wanted' = w /\ UNCHANGED <<card, box>>
    ELSE IF Openable(w) THEN wanted' = w /\ Open(w, card.muted)
    ELSE UNCHANGED wanted /\ Return(wanted)

\* _choose_voice_device, for a line of a box: the boxes and the settings
\* follow what is used in the end.
ChooseDevice(e, d) ==
    /\ listed # None /\ d \in listed[e] \cup {None}
    /\ SetDevices([wanted EXCEPT ![e] = d])
    /\ shown' = Line(listed, wanted')
    /\ SaveDevices(wanted')
    /\ UNCHANGED <<systemVars, news, gateVars, listed>>

\* A bug the code had: what is plugged in again is not gone back to.
MisplacedIfGone(c) == \E e \in Ends : c.device[e] \notin plugged[e]

\* The card is on a device that is gone, or not on the chosen one that is there.
Misplaced(c) ==
    \E e \in Ends :
      \/ c.device[e] \notin plugged[e]
      \/ wanted[e] \in plugged[e] /\ wanted[e] # c.device[e]

\* _refresh_voice_devices and on_devices_changed.
Refresh ==
    /\ news
    /\ news' = FALSE
    /\ listed' = plugged /\ shown' = Line(plugged, wanted)
    /\ IF card # None /\ Misplaced(card)
       THEN IF Openable(wanted) THEN Open(wanted, card.muted) ELSE Close
       ELSE UNCHANGED <<card, box>>
    /\ UNCHANGED <<systemVars, wanted, gateVars, saved>>

\* The system: a device comes, and may become the default; one goes.  The
\* window hears of it once it has read the list.
Plug(e, d) ==
    /\ d \notin plugged[e]
    /\ plugged' = [plugged EXCEPT ![e] = @ \cup {d}]
    /\ default' \in {default, [default EXCEPT ![e] = d]}
    /\ news' = (listed # None)
    /\ UNCHANGED <<bad, wanted, gateVars, card, box, listVars, saved>>

Unplug(e, d) ==
    /\ d \in plugged[e] \ {Fixed}
    /\ plugged' = [plugged EXCEPT ![e] = @ \ {d}]
    /\ default' = IF default[e] = d THEN [default EXCEPT ![e] = Fixed] ELSE default
    /\ news' = (listed # None)
    /\ UNCHANGED <<bad, wanted, gateVars, card, box, listVars, saved>>

----------------------------------------------------------------------------
(* Settings and frames *)

\* The box is enabled in a call only.
ToggleMute ==
    /\ card # None
    /\ box' = ~box
    /\ card' = [card EXCEPT !.muted = ~box]
    /\ UNCHANGED <<systemVars, news, wanted, gateVars, listVars, saved>>

ToggleGate ==
    /\ gate_enabled' = ~gate_enabled
    /\ card' = IF card = None THEN card ELSE [card EXCEPT !.gate.enabled = ~gate_enabled]
    /\ SaveGate(~gate_enabled, saved.threshold)
    /\ UNCHANGED <<systemVars, news, wanted, gate_threshold, box, listVars>>

\* The slider is released; it moves only while the gate is on.  A threshold of
\* zero is the gate's own, but the open gate keeps what it has.
SetThreshold(t) ==
    /\ gate_enabled
    /\ gate_threshold' = t
    /\ card' = IF card = None \/ t = 0 THEN card ELSE [card EXCEPT !.threshold = t]
    /\ SaveGate(saved.enabled, t)
    /\ UNCHANGED <<systemVars, news, wanted, gate_enabled, box, listVars>>

LoadDevices == wanted' = saved.device
LoadGate == gate_enabled' = saved.enabled /\ gate_threshold' = saved.threshold

\* The program ends and starts again, with what was saved.
Restart ==
    /\ LoadDevices /\ LoadGate
    /\ Close
    /\ listed' = None /\ shown' = [e \in Ends |-> None] /\ news' = FALSE
    /\ UNCHANGED <<systemVars, saved>>

\* What the gate makes of the next frame: what goes out, and the gate after it.
Gated(level) == Process(card.gate, level)

\* _on_microphone: one frame.  A muted card sends silence past the gate.
Microphone(level) ==
    /\ card # None
    /\ card' = IF card.muted THEN card ELSE [card EXCEPT !.gate = Gated(level).gate]
    /\ UNCHANGED <<systemVars, news, wanted, gateVars, box, listVars, saved>>

Next ==
    \/ ShowDevices \/ Join \/ Leave \/ Refresh \/ ToggleMute \/ ToggleGate \/ Restart
    \/ \E e \in Ends, d \in Devices : Plug(e, d) \/ Unplug(e, d)
    \/ \E e \in Ends, d \in Devices \cup {None} : ChooseDevice(e, d)
    \/ \E t \in {0, Threshold} : SetThreshold(t)
    \/ \E level \in Levels : Microphone(level)

Spec == Init /\ [][Next]_vars

----------------------------------------------------------------------------
(* Properties *)

\* When the window has heard of every change, the card is on devices that are
\* there, and on the chosen ones where these are there; a device the box shows
\* is the one in use (voice.py, set_devices, on_devices_changed, pick_device;
\* ui.py, _choose_voice_device).
CardInPlace ==
    card # None /\ ~news =>
      \A e \in Ends : /\ card.device[e] \in plugged[e]
                      /\ wanted[e] \in plugged[e] => card.device[e] = wanted[e]
                      /\ shown[e] # None => card.device[e] = shown[e]

\* However often the card is opened anew, and back again, it is as muted as the
\* box says and its gate is as it was set (voice.py, _reopen_audio); and what a
\* restart would bring back is what is in use, not what could not be opened
\* (ui.py, _choose_voice_device).
SettingsKept ==
    /\ card # None =>
         /\ card.muted = box
         /\ card.gate.enabled = gate_enabled
         /\ gate_threshold # 0 => card.threshold = gate_threshold
    /\ saved = [device |-> wanted, enabled |-> gate_enabled, threshold |-> gate_threshold]

\* Speech goes out whole, and so does what comes right before it, the soft
\* onset the look-ahead is for: a frame that is faded or silenced is neither
\* speech nor has speech behind it in the queue, whatever is switched meanwhile
\* (voice_gate.py, process and _delayed).
WordsWhole ==
    card # None =>
      \A level \in Levels :
        LET r == Gated(level) IN
        r.how \in {"faded", "silent"} =>
          ~r.speech /\ \A i \in 1 .. Len(r.gate.queue) : ~r.gate.queue[i]
===============================================================================
