----------------------------- MODULE InputConfig ----------------------------
(***************************************************************************)
(* Key and controller bindings (common/input.cpp) and the file they are    *)
(* saved in and reloaded from (save_input_map and reload_input_config of   *)
(* frontend/main.cpp, common/config.cpp).                                  *)
(*                                                                         *)
(* pad is the three maps in one: from <<"button", b>>, <<"axis+", a>> and  *)
(* <<"axis-", a>> to an action.  A file is a function too, from action to  *)
(* its key and its controller source; its lines are read in no fixed order.*)
(***************************************************************************)
EXTENDS Integers

CONSTANTS Actions, PadDefault, \* the controller map of set_default
          KeyCodes, KeyDefault, MapButtons, Axes,
          MaxBindings          \* bound: changes the player makes

VARIABLES config, \* keys, pad, deadzone
          file,   \* what save_input_map wrote: action to [key, source], and the deadzone
          read,   \* while the file is loaded: the actions whose lines were read
          before, \* the configuration that was saved
          bound

Kinds == {"button", "axis+", "axis-"}
ASSUME DefaultAssumption ==
  /\ KeyCodes \subseteq Int /\ KeyDefault \in [Actions -> Int]
  /\ MapButtons \subseteq Int /\ Axes \subseteq Int
  /\ DOMAIN PadDefault \subseteq Kinds \X Int /\ PadDefault \in [DOMAIN PadDefault -> Actions]

inputVars == <<config, file, read, before, bound>>

Default == [keys |-> KeyDefault, pad |-> PadDefault, deadzone |-> 16]
NoSource == <<"none">>
With(pad, s, action) == [u \in DOMAIN pad \union {s} |-> IF u = s THEN action ELSE pad[u]]
Without(pad, S) == [s \in DOMAIN pad \ S |-> pad[s]]
Sources(pad, action) == {s \in DOMAIN pad : pad[s] = action}

(***************************************************************************)
(* Changing a binding.  A button leaves the action it had; an axis is      *)
(* taken in both directions.                                               *)
(***************************************************************************)
BindButton(pad, action, b) ==
  With(Without(pad, Sources(pad, action)), <<"button", b>>, action)
BindAxis(pad, action, a, sign) ==
  With(Without(pad, Sources(pad, action) \union {<<"axis+", a>>, <<"axis-", a>>}), <<sign, a>>, action)
ClearPad(pad, action) == Without(pad, Sources(pad, action))

(* What write_config says of an action: a button before an axis, and of     *)
(* several the first in the order of the map.  button_name knows SDL's      *)
(* first 15 buttons; of another (a paddle, the touchpad), which the         *)
(* rebinding takes as well, the file says that the action has none.         *)
NamedButtons == 0..14
Nameless(s) == s[1] = "button" /\ s[2] \notin NamedButtons
OfKind(pad, action, kind) == {s \in Sources(pad, action) : s[1] = kind}
Written(pad, action) ==
  LET kinds == <<"button", "axis+", "axis-">>
      first == CHOOSE n \in 1..4 :
                 /\ n < 4 => OfKind(pad, action, kinds[n]) # {}
                 /\ \A m \in 1..(n - 1) : OfKind(pad, action, kinds[m]) = {}
  IN  IF first = 4 THEN {NoSource}
      ELSE {IF Nameless(s) THEN NoSource ELSE s : s \in OfKind(pad, action, kinds[first])}
(* One pad line: the action loses what it had, and takes the source.        *)
ReadLine_AddsSource(c, action, line) ==
  [c EXCEPT !.keys[action] = line.key,
            !.pad = IF line.source = NoSource THEN @ ELSE With(@, line.source, action)]
ReadLine(c, action, line) ==
  [c EXCEPT !.keys[action] = line.key,
            !.pad = IF line.source = NoSource THEN ClearPad(@, action)
                    ELSE With(ClearPad(@, action), line.source, action)]

InputInit ==
  /\ config = Default /\ file = [none |-> TRUE] /\ read = Actions
  /\ before = Default /\ bound = 0

(* Every change is saved at once.                                           *)
Save(c) ==
  /\ read = Actions /\ bound < MaxBindings /\ bound' = bound + 1
  /\ config' = c /\ before' = c
  /\ \E source \in [Actions -> DOMAIN c.pad \union {NoSource}] :
       /\ \A a \in Actions : source[a] \in Written(c.pad, a)
       /\ file' = [none |-> FALSE, deadzone |-> c.deadzone,
                   lines |-> [a \in Actions |-> [key |-> c.keys[a], source |-> source[a]]]]
  /\ UNCHANGED read
SetKey(a, k) == Save([config EXCEPT !.keys[a] = k])
SetButton(a, b) == Save([config EXCEPT !.pad = BindButton(@, a, b)])
SetAxis(a, x, sign) == Save([config EXCEPT !.pad = BindAxis(@, a, x, sign)])
Clear(a) == Save([config EXCEPT !.pad = ClearPad(@, a)])
SetDeadzone(d) == Save([config EXCEPT !.deadzone = d])

(* reload_input_config, at a launch or the next start: the defaults first,  *)
(* then the lines of the file.                                              *)
Reload ==
  /\ ~file.none /\ read = Actions
  /\ config' = [Default EXCEPT !.deadzone = file.deadzone]
  /\ read' = {}
  /\ UNCHANGED <<file, before, bound>>
LoadLine(a) ==
  /\ a \notin read
  /\ config' = ReadLine(config, a, file.lines[a])
  /\ read' = read \union {a}
  /\ UNCHANGED <<file, before, bound>>

InputNext ==
  \/ \E a \in Actions :
       \/ \E k \in KeyCodes : SetKey(a, k)
       \/ \E b \in MapButtons : SetButton(a, b)
       \/ \E x \in Axes, sign \in {"axis+", "axis-"} : SetAxis(a, x, sign)
       \/ Clear(a)
       \/ LoadLine(a)
  \/ \E d \in {8, 16} : SetDeadzone(d)
  \/ Reload

InputSpec == InputInit /\ [][InputNext]_inputVars

(* In whatever order its lines come, a reloaded file gives back every key,  *)
(* the deadzone, no binding the player did not have, and a binding to every *)
(* action that had one, unless one of its buttons has no name in the file:  *)
(* such an action may lose its controller binding.                          *)
BindingsSurvive ==
  read = Actions =>
    /\ config.keys = before.keys /\ config.deadzone = before.deadzone
    /\ \A s \in DOMAIN config.pad : s \in DOMAIN before.pad /\ config.pad[s] = before.pad[s]
    /\ \A a \in Actions :
         /\ Sources(before.pad, a) # {}
         /\ \A s \in Sources(before.pad, a) : ~Nameless(s)
         => Sources(config.pad, a) # {}
=============================================================================
