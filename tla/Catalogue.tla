------------------------------ MODULE Catalogue ------------------------------
(***************************************************************************)
(* Which commands an entity of Home Assistant takes.  The answer is given  *)
(* four times in the code: the capabilities derived from what Home         *)
(* Assistant reports, the form of a request, the commands allowed for the  *)
(* capabilities, and the service call a command is translated into.        *)
(***************************************************************************)
EXTENDS Integers

CONSTANTS
    Brightness,    \* values a request may carry
    Temperatures,  \* values a request or an entity's limits may have
    Modes,         \* spellings of HVAC modes
    Lower,         \* Lower[m]: m in lower case
    None,          \* a parameter or limit that is absent
    Unsupported    \* the answer for a command that has no service call

Switching == {"turn_on", "turn_off", "toggle"}

AllCommands == Switching \cup {"set_brightness", "set_temperature", "set_hvac_mode",
                            "play", "pause", "activate_scene", "run_script"}

Domains == {"light", "switch", "fan", "input_boolean", "climate", "media_player",
            "scene", "script", "sensor"}

Reports == [domain : Domains, dimmable : BOOLEAN, min : Temperatures \cup {None},
            max : Temperatures \cup {None}, modes : SUBSET Modes]

Requests == [command : AllCommands, brightness : Brightness \cup {None},
             temperature : Temperatures \cup {None}, mode : Modes \cup {None}]

deriveCapabilities(r) ==
    CASE r.domain = "light" ->
           Switching \cup (IF r.dimmable THEN {"brightness"} ELSE {})
      [] r.domain \in {"switch", "fan", "input_boolean"} -> Switching
      [] r.domain = "climate" ->
           {"turn_on", "turn_off"}
           \cup (IF r.min # None \/ r.max # None THEN {"temperature"} ELSE {})
           \cup (IF r.modes # {} THEN {"hvac_mode"} ELSE {})
      [] r.domain = "media_player" -> {"turn_on", "turn_off", "play", "pause"}
      [] r.domain = "scene" -> {"activate_scene"}
      [] r.domain = "script" -> {"run_script"}
      [] OTHER -> {}

discoveredControllable(r) ==
    \/ r.domain \in {"scene", "script"}
    \/ deriveCapabilities(r) \cap
         {"turn_on", "turn_off", "toggle", "brightness", "temperature", "hvac_mode",
          "play", "pause"} # {}

NoParameters(q) == q.brightness = None /\ q.temperature = None /\ q.mode = None

\* The parameter a command takes is there, in its range, and no other is.
validateCommandRequest(q) ==
    CASE q.command = "set_brightness" ->
           /\ q.brightness # None /\ q.temperature = None /\ q.mode = None
           /\ q.brightness \in 0 .. 100
      [] q.command = "set_temperature" ->
           /\ q.temperature # None /\ q.brightness = None /\ q.mode = None
           /\ q.temperature \in -100 .. 200
      [] q.command = "set_hvac_mode" ->
           q.mode # None /\ q.brightness = None /\ q.temperature = None
      [] OTHER -> NoParameters(q)

\* strings.EqualFold: a request may spell a mode in any case.
EqualFold(m, n) == n # None /\ Lower[m] = Lower[n]

\* Mutant: the limits of the entity are forgotten.
AllowedWithoutLimits(e, q) ==
    CASE q.command = "activate_scene" -> e.domain = "scene"
      [] q.command = "run_script" -> e.domain = "script"
      [] q.command \in Switching \cup {"play", "pause"} -> q.command \in e.capabilities
      [] q.command = "set_brightness" -> "brightness" \in e.capabilities
      [] q.command = "set_temperature" -> "temperature" \in e.capabilities
      [] q.command = "set_hvac_mode" -> "hvac_mode" \in e.capabilities

commandAllowedForEntity(e, q) ==
    /\ e.controllable
    /\ CASE q.command = "activate_scene" -> e.domain = "scene"
         [] q.command = "run_script" -> e.domain = "script"
         [] q.command \in Switching -> q.command \in e.capabilities
         [] q.command = "set_brightness" -> "brightness" \in e.capabilities
         [] q.command = "set_temperature" ->
              /\ "temperature" \in e.capabilities
              /\ e.min # None => q.temperature >= e.min
              /\ e.max # None => q.temperature <= e.max
         [] q.command = "set_hvac_mode" ->
              e.domain = "climate" /\ "hvac_mode" \in e.capabilities
              /\ \E m \in e.modes : EqualFold(m, q.mode)
         [] q.command \in {"play", "pause"} ->
              e.domain = "media_player" /\ q.command \in e.capabilities

\* The domains a service is called in, and its name there.
Service(command) ==
    CASE command \in {"turn_on", "turn_off"} ->
           [domains |-> {"light", "switch", "fan", "climate", "media_player", "input_boolean"},
            name |-> command]
      [] command = "toggle" ->
           [domains |-> {"light", "switch", "fan", "input_boolean"}, name |-> "toggle"]
      [] command = "set_brightness" -> [domains |-> {"light"}, name |-> "turn_on"]
      [] command = "set_temperature" -> [domains |-> {"climate"}, name |-> "set_temperature"]
      [] command = "set_hvac_mode" -> [domains |-> {"climate"}, name |-> "set_hvac_mode"]
      [] command = "play" -> [domains |-> {"media_player"}, name |-> "media_play"]
      [] command = "pause" -> [domains |-> {"media_player"}, name |-> "media_pause"]
      [] command = "activate_scene" -> [domains |-> {"scene"}, name |-> "turn_on"]
      [] command = "run_script" -> [domains |-> {"script"}, name |-> "turn_on"]

\* What the client can ask of Home Assistant.
ServiceCalls ==
    [domain : Domains, request : Requests,
     service : Switching \cup {"set_temperature", "set_hvac_mode", "media_play", "media_pause"}]

typedServiceCall(domain, q) ==
    IF domain \in Service(q.command).domains /\ validateCommandRequest(q)
    THEN [domain |-> domain, service |-> Service(q.command).name, request |-> q]
    ELSE Unsupported

\* The entity a discovery stores for what Home Assistant reports: its modes are
\* stored in lower case.
Discovered(r) ==
    [domain |-> r.domain, capabilities |-> deriveCapabilities(r),
     controllable |-> discoveredControllable(r), min |-> r.min, max |-> r.max,
     modes |-> {Lower[m] : m \in r.modes}]

\* ExecuteCommand lets the command pass to the client.
Accepted(e, q) == validateCommandRequest(q) /\ commandAllowedForEntity(e, q)

-----------------------------------------------------------------------------
(* Properties, of every entity Home Assistant may report and every request *)

\* A command that passes every check of the service has a service call: none is
\* reserved in the execution ledger, never sent, and left as unknown for ever.
AllowedIsSendable(e, q) == Accepted(e, q) => typedServiceCall(e.domain, q) # Unsupported

\* What is sent to a climate device keeps to the limits Home Assistant reported, and
\* is a mode it reported up to the case of its letters: the mode is compared in any
\* case and sent as the request spells it.
SentWithinLimits(r, q) ==
    Accepted(Discovered(r), q) =>
        /\ q.temperature # None =>
             /\ r.min # None => r.min <= q.temperature
             /\ r.max # None => q.temperature <= r.max
        /\ q.mode # None => \E m \in r.modes : Lower[m] = Lower[q.mode]

\* An entity offered for control takes at least one command, and one that is not
\* takes none.
ControllableIsUsable(e) ==
    e.controllable <=> \E q \in Requests : Accepted(e, q) /\ typedServiceCall(e.domain, q) # Unsupported

\* The four answers agree.
TablesAgree ==
    \A r \in Reports :
        LET e == Discovered(r)
        IN /\ ControllableIsUsable(e)
           /\ \A q \in Requests : AllowedIsSendable(e, q) /\ SentWithinLimits(r, q)
=============================================================================
