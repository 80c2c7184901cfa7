----------------------------- MODULE Commissioner -----------------------------
(***************************************************************************)
(* The commissioner tool (src/tools/commissioner-cli/main.py): the         *)
(* PicoFIDODevice session object, the menu handlers that call it and the   *)
(* main loop, against the authenticator of CtapAuthenticator.tla.          *)
(*                                                                         *)
(* The tool is single-threaded and every CTAP exchange blocks, so one      *)
(* menu handler is one atomic step.  A handler that makes several          *)
(* exchanges is written as a function from a snapshot of the session       *)
(* (a Session record) to the set of snapshots it may end in: one per PIN   *)
(* the user may type and per way each exchange may fail.  With Lossy, an   *)
(* exchange may fail in transport either before the device acts on it or   *)
(* after (the reply is lost); either way the client sees an exception.     *)
(* Prompts the user cancels, and the read-only "View Device Information",  *)
(* change nothing and are stuttering steps.                                *)
(***************************************************************************)
EXTENDS CtapAuthenticator

CONSTANTS
    Lossy,          \* transport exchanges may fail
    Inputs,         \* Inputs[p]: the integers a user may type for parameter p
    VidPidInputs,   \* the (vid, pid) pairs a user may type
    NoInfo,         \* sentinel: self.info is None
    Hotplug         \* the user may unplug and replug the key while the tool runs

ASSUME CommissionerAssumption ==
    /\ Lossy \in BOOLEAN
    /\ Inputs \in [Params \ {"PHY_VIDPID"} -> SUBSET Int]
    /\ VidPidInputs \subseteq Int \X Int
    /\ NoInfo \notin [clientPin : BOOLEAN]
    /\ Hotplug \in BOOLEAN

VARIABLES
    phase,         \* where main() is: "start", "prompt", "menu", "exited"
    info,          \* self.info, abstracted to its clientPin option
    client_pin,    \* self.client_pin: the protocol of the ClientPin, or none
    pin_token,     \* self.pin_token
    pin_protocol,  \* self.pin_protocol
    refused,       \* history: tokens the device refused a command under
    badPinSent,    \* history: a new PIN outside 4..63 was sent to the device
    linked         \* self.dev still addresses the key that is plugged in

vars == <<dev, phase, info, client_pin, pin_token, pin_protocol, refused, badPinSent,
          linked>>

Session ==
    [dev : DevState, info : [clientPin : BOOLEAN] \cup {NoInfo},
     cp : Protocols \cup {NoProto}, pp : Protocols \cup {NoProto},
     tok : Tokens \cup {NoToken}, refused : SUBSET Tokens,
     bad : BOOLEAN, ok : BOOLEAN]

\* The session as it is when a handler is called.
Current ==
    [dev |-> dev, info |-> info, cp |-> client_pin, pp |-> pin_protocol,
     tok |-> pin_token, refused |-> refused, bad |-> badPinSent, ok |-> TRUE]

\* The session a handler ends in becomes the state.
Assign(s) ==
    /\ dev' = s.dev
    /\ info' = s.info
    /\ client_pin' = s.cp
    /\ pin_token' = s.tok
    /\ pin_protocol' = s.pp
    /\ refused' = s.refused
    /\ badPinSent' = s.bad
    /\ UNCHANGED linked

(***************************************************************************)
(* Transport: the ways one exchange with reply r, sent to a device in      *)
(* state d, can end.  Through a handle whose device was unplugged every  *)
(* exchange raises before it reaches the key.                              *)
(***************************************************************************)
Deliver(d, r) ==
    IF ~linked THEN {Reply(d, FALSE)}
    ELSE {r} \cup (IF Lossy THEN {Reply(d, FALSE), Reply(r.d, FALSE)} ELSE {})

\* The handler raised after the device reached state d: nothing after the
\* failing call runs, and the method returns False.
Fail(s, d) == [s EXCEPT !.dev = d, !.ok = FALSE]

(***************************************************************************)
(* ClientPin(self.ctap2) chooses the strongest protocol the device lists   *)
(* and raises when it lists none.                                          *)
(***************************************************************************)
Negotiate(ps) == IF 2 \in ps THEN 2 ELSE 1

\* self.pin_protocol = self.client_pin.protocol (the library always has it).
ProtocolOf(cp) == cp

(***************************************************************************)
(* PicoFIDODevice.get_pin_token: a fresh ClientPin, the user's PIN, and    *)
(* one token request with the authenticatorConfig permission.  Returns     *)
(* False without an exchange when the cached info says no PIN is set.     *)
(***************************************************************************)
get_pin_token(s) ==
    IF ~s.info.clientPin \/ s.dev.protocols = {}
    THEN {[s EXCEPT !.ok = FALSE]}
    ELSE IF ~CanIssue(s.dev) THEN {}
    ELSE LET cp == Negotiate(s.dev.protocols)
             t  == [s EXCEPT !.cp = cp, !.pp = ProtocolOf(cp)]
         IN  {[t EXCEPT !.dev = o.d, !.ok = o.ok,
                        !.tok = IF o.ok THEN o.d.token ELSE t.tok] :
                o \in UNION {Deliver(t.dev, GetPinTokenReply(t.dev, pin, cp)) :
                               pin \in Pins}}

\* Mutant of Dispatch: line 239 (self.pin_token = None) left out.
DispatchKeepsToken(a, p, v) ==
    LET r == ConfigReply(a.dev, p, v, a.tok, a.pp)
    IN  {[a EXCEPT !.dev = o.d, !.ok = o.ok,
                   !.refused = IF r.ok THEN a.refused ELSE a.refused \cup {a.tok}] :
           o \in Deliver(a.dev, r)}

\* The authenticatorConfig exchange of send_config_command, made with the
\* token in hand; any failure drops the token.
Dispatch(a, p, v) ==
    LET r == ConfigReply(a.dev, p, v, a.tok, a.pp)
    IN  {[a EXCEPT !.dev = o.d, !.ok = o.ok,
                   !.tok = IF o.ok THEN a.tok ELSE NoToken,
                   !.refused = IF r.ok THEN a.refused ELSE a.refused \cup {a.tok}] :
           o \in Deliver(a.dev, r)}

\* Mutant of send_config_command: a failed authentication is tried again
\* within the same call.
SendConfigRetryingAuth(s, p, v) ==
    LET authed == IF s.tok # NoToken THEN {s}
                  ELSE UNION {IF a.ok THEN {a} ELSE get_pin_token(a) :
                                a \in get_pin_token(s)}
    IN  {a \in authed : ~a.ok} \cup
        UNION {Dispatch(a, p, v) : a \in {b \in authed : b.ok}}

\* PicoFIDODevice.send_config_command: authenticate lazily when no token is
\* held, then MAC and send the vendor sub-command.
send_config_command(s, p, v) ==
    LET authed == IF s.tok # NoToken THEN {s} ELSE get_pin_token(s)
    IN  {a \in authed : ~a.ok} \cup
        UNION {Dispatch(a, p, v) : a \in {b \in authed : b.ok}}

(***************************************************************************)
(* PicoFIDODevice.set_pin: change the PIN when the cached info says one is *)
(* set, set it otherwise.  The new PIN is typed twice; a mismatch returns  *)
(* before any exchange.                                                    *)
(***************************************************************************)
\* Lines 168-180: change_pin, with no length check of the tool's own.  The
\* fido2 ClientPin.change_pin pads the new PIN (_pad_pin) before it sends
\* anything, and that raises for fewer than 4 characters.
ChangePath(t) ==
    {[t EXCEPT !.ok = FALSE]} \cup
    UNION {UNION {IF PinLen[new] < 4
                  THEN {[t EXCEPT !.ok = FALSE]}
                  ELSE {[t EXCEPT !.dev = o.d, !.ok = o.ok,
                                  !.tok = IF o.ok THEN NoToken ELSE t.tok,
                                  !.bad = t.bad \/ ~PinPolicyOK(new)] :
                          o \in Deliver(t.dev, ChangePinReply(t.dev, old, new))} :
                  new \in Pins} :
           old \in Pins}

\* Mutant of AfterSetPin: the info refresh of line 198 left out.
AfterSetPinNoRefresh(t, d) ==
    {[t EXCEPT !.dev = d, !.tok = NoToken]} \cup
    (IF Lossy THEN {Fail(t, d)} ELSE {})

\* Lines 198-200 after set_pin succeeded: refresh the info, drop the token.
AfterSetPin(t, d) ==
    {[t EXCEPT !.dev = d, !.info = Info(d), !.tok = NoToken]} \cup
    (IF Lossy THEN {Fail(t, d)} ELSE {})

\* Lines 181-198: the length check, then set_pin.
SetPath(t) ==
    {[t EXCEPT !.ok = FALSE]} \cup
    UNION {IF PinLen[new] < 4
           THEN {[t EXCEPT !.ok = FALSE]}
           ELSE LET u == [t EXCEPT !.bad = t.bad \/ ~PinPolicyOK(new)]
                IN  UNION {IF o.ok THEN AfterSetPin(u, o.d) ELSE {Fail(u, o.d)} :
                             o \in Deliver(u.dev, SetPinReply(u.dev, new))} :
           new \in Pins}

set_pin(s) ==
    IF s.cp = NoProto /\ s.dev.protocols = {}
    THEN {[s EXCEPT !.ok = FALSE]}
    ELSE LET t == [s EXCEPT !.cp = IF s.cp = NoProto
                                   THEN Negotiate(s.dev.protocols) ELSE s.cp]
         IN  IF s.info.clientPin THEN ChangePath(t) ELSE SetPath(t)

(***************************************************************************)
(* PicoFIDODevice.reset_device: authenticatorReset with the user pressing  *)
(* the button or not, then refresh the info, then drop token and ClientPin.*)
(***************************************************************************)
AfterReset(s, d) ==
    {[s EXCEPT !.dev = d, !.info = Info(d), !.tok = NoToken, !.cp = NoProto]} \cup
    (IF Lossy THEN {Fail(s, d)} ELSE {})

\* Mutant of reset_device: the token and the ClientPin dropped before the
\* reset is sent (lines 133-134 moved above line 130).
ResetDeviceDropsFirst(s) ==
    LET t == [s EXCEPT !.tok = NoToken, !.cp = NoProto]
    IN  UNION {IF o.ok THEN AfterReset(t, o.d) ELSE {Fail(t, o.d)} :
                 o \in UNION {Deliver(t.dev, ResetReply(t.dev, pressed)) :
                                pressed \in BOOLEAN}}

reset_device(s) ==
    UNION {IF o.ok THEN AfterReset(s, o.d) ELSE {Fail(s, o.d)} :
             o \in UNION {Deliver(s.dev, ResetReply(s.dev, pressed)) :
                            pressed \in BOOLEAN}}

(***************************************************************************)
(* The value checks of the menu handlers.                                  *)
(***************************************************************************)
\* Mutant of InRange: the GPIO upper bound (gpio_pin > 29) left out.
InRangeGpioUnchecked(p, v) ==
    CASE p = "PHY_UP_BTN"     -> ~(v < 0 \/ v > 255)
      [] p = "PHY_LED_GPIO"   -> ~(v < 0)
      [] p = "PHY_LED_BTNESS" -> ~(v < 0 \/ v > 255)
      [] p = "PHY_OPTS"       -> ~(v < 0 \/ v > 15)

InRange(p, v) ==
    CASE p = "PHY_UP_BTN"     -> ~(v < 0 \/ v > 255)
      [] p = "PHY_LED_GPIO"   -> ~(v < 0 \/ v > 29)
      [] p = "PHY_LED_BTNESS" -> ~(v < 0 \/ v > 255)
      [] p = "PHY_OPTS"       -> ~(v < 0 \/ v > 15)

\* Mutant of VidPidValid: only the upper bounds checked, so a negative
\* half typed as "-1" passes (int(s, 16) accepts a sign).
VidPidValidNoSign(vid, pid) == ~(vid > 65535) /\ ~(pid > 65535)

\* configure_vidpid, lines 474-480: both halves must be 16-bit.
VidPidValid(vid, pid) == ~(vid < 0 \/ vid > 65535) /\ ~(pid < 0 \/ pid > 65535)

\* (vid << 16) | pid for 16-bit halves.
VidPidValue(vid, pid) == vid * 65536 + pid

(***************************************************************************)
(* Actions: main() and its menu.                                           *)
(***************************************************************************)
Init ==
    /\ DevInit
    /\ phase = "start"
    /\ info = NoInfo
    /\ client_pin = NoProto
    /\ pin_token = NoToken
    /\ pin_protocol = NoProto
    /\ refused = {}
    /\ badPinSent = FALSE
    /\ linked = TRUE

\* find_device and the check after it: no device, or getInfo failing, ends
\* the program; otherwise the startup PIN prompt runs when no PIN is set.
FindDevice ==
    /\ phase = "start"
    /\ \/ phase' = "exited" /\ UNCHANGED info
       \/ /\ info' = Info(dev)
          /\ phase' = IF Info(dev).clientPin THEN "menu" ELSE "prompt"
    /\ linked' = TRUE
    /\ UNCHANGED <<dev, client_pin, pin_token, pin_protocol, refused, badPinSent>>

\* Lines 668-682: "set up a PIN now?" -- setup_pin, or straight to the menu.
StartupPrompt ==
    /\ phase = "prompt"
    /\ \/ \E s \in set_pin(Current) : Assign(s)
       \/ UNCHANGED <<dev, info, client_pin, pin_token, pin_protocol, refused, badPinSent,
                     linked>>
    /\ phase' = "menu"

\* Options 1, 2 and 3 of the menu: one value, checked, then sent.
ConfigureParam(p) ==
    /\ phase = "menu"
    /\ \E v \in Inputs[p] :
        /\ InRange(p, v)
        /\ \E s \in send_config_command(Current, p, v) : Assign(s)
    /\ UNCHANGED phase

ConfigureButtonTimeout == ConfigureParam("PHY_UP_BTN")
ConfigureLedGpio       == ConfigureParam("PHY_LED_GPIO")
ConfigureLedBrightness == ConfigureParam("PHY_LED_BTNESS")
ConfigurePhyOptions    == ConfigureParam("PHY_OPTS")

\* Option 4: both halves checked, then (vid << 16) | pid sent.
ConfigureVidPid ==
    /\ phase = "menu"
    /\ \E vp \in VidPidInputs :
        /\ VidPidValid(vp[1], vp[2])
        /\ \E s \in send_config_command(Current, "PHY_VIDPID",
                                        VidPidValue(vp[1], vp[2])) : Assign(s)
    /\ UNCHANGED phase

\* Option 6: setup_pin calls set_pin.
SetupPin ==
    /\ phase = "menu"
    /\ \E s \in set_pin(Current) : Assign(s)
    /\ UNCHANGED phase

\* Option 7: factory_reset, past both confirmations, calls reset_device.
FactoryReset ==
    /\ phase = "menu"
    /\ \E s \in reset_device(Current) : Assign(s)
    /\ UNCHANGED phase

\* Option 0, or Ctrl-C at the menu prompt.
Quit ==
    /\ phase = "menu"
    /\ phase' = "exited"
    /\ UNCHANGED <<dev, info, client_pin, pin_token, pin_protocol, refused, badPinSent,
                   linked>>

DeviceStep ==
    /\ WindowCloses \/ TokenExpires
    /\ UNCHANGED <<phase, info, client_pin, pin_token, pin_protocol, refused, badPinSent,
                   linked>>

\* The user unplugs and replugs the key while the tool runs (what lines
\* 146-149 advise after a refused reset).  find_device bound self.dev and
\* self.ctap2 once (lines 64-65); nothing binds them again, so the handle
\* the tool holds now addresses a device that is gone.
Replug ==
    /\ Hotplug
    /\ phase # "exited"
    /\ dev' = PowerCycle(dev)
    /\ linked' = FALSE
    /\ UNCHANGED <<phase, info, client_pin, pin_token, pin_protocol, refused, badPinSent>>

Next ==
    \/ FindDevice
    \/ StartupPrompt
    \/ ConfigureButtonTimeout
    \/ ConfigureLedGpio
    \/ ConfigureLedBrightness
    \/ ConfigurePhyOptions
    \/ ConfigureVidPid
    \/ SetupPin
    \/ FactoryReset
    \/ Quit
    \/ DeviceStep
    \/ Replug

\* Once main() has returned (phase "exited") no client step is enabled: the
\* program really stops, and the runs do not check for deadlock.
Spec == Init /\ [][Next]_vars

(***************************************************************************)
(* Properties.                                                             *)
(***************************************************************************)
TypeOK ==
    /\ dev \in DevState
    /\ phase \in {"start", "prompt", "menu", "exited"}
    /\ info \in [clientPin : BOOLEAN] \cup {NoInfo}
    /\ client_pin \in Protocols \cup {NoProto}
    /\ pin_token \in Tokens \cup {NoToken}
    /\ pin_protocol \in Protocols \cup {NoProto}
    /\ refused \subseteq Tokens
    /\ badPinSent \in BOOLEAN
    /\ linked \in BOOLEAN

\* The abstract configuration the tool and the key promise (PhySettings.tla):
\* the settings the key holds, and whether it has a PIN.
Phy == INSTANCE PhySettings WITH settings <- dev.config, pinSet <- (dev.pin # NoPin)

\* The value range of each parameter in the table of spec section 6; a
\* PHY_VIDPID value is a 32-bit unsigned (vid << 16) | pid.
SpecRange(p, v) == Phy!Allowed(p, v)

\* Every PHY setting the device holds lies in the range spec section 6 gives
\* it: whatever the user types, on every path through the menu handlers and
\* send_config_command, nothing out of range is written.
ConfigInRange ==
    \A p \in Params : dev.config[p] # NoValue => SpecRange(p, dev.config[p])

\* A token the device refused a configuration command under is never held
\* again: send_config_command drops it, so the next call re-authenticates
\* (spec section 8, token invalidation).
RefusedTokenNeverHeld == pin_token \notin refused

\* At the menu, the cached info's clientPin option is the device's: the
\* decisions of get_pin_token (line 92) and set_pin (line 166) are taken on
\* current information (spec section 3: Device Info is re-fetched after
\* every operation that changes the device).
InfoPinCurrent ==
    phase = "menu" => info.clientPin = (dev.pin # NoPin)

\* One menu action costs the device's PIN retry counter at most one retry:
\* no handler sends a PIN twice, so the user, not the tool, decides every
\* attempt that brings the PIN closer to PIN_BLOCKED (spec sections 4.2
\* and 7: no local retry, every operation is a single attempt).
OneRetryPerStep == [][dev'.retries >= dev.retries - 1]_vars

\* A factory reset the device refused (outside the power-on window, or
\* disabled) or whose button press timed out leaves the session as it was:
\* the cached info, the ClientPin, the token and its protocol are untouched,
\* so the session stays usable (spec section 5, lines 130-136).  The step
\* is recognised by the device being untouched although a reset would have
\* changed it.
ResetRefusalClean ==
    [][FactoryReset /\ dev' = dev /\ dev # Erase(dev)
         => UNCHANGED <<info, client_pin, pin_token, pin_protocol>>]_vars

\* The tool's advice after a refused reset (lines 146-149: unplug, replug,
\* run the reset within 10 seconds) can be followed in the running tool:
\* whenever the menu is up, the power-on window is open and neither the
\* build nor PHY_OPTS forbids a reset, reset_device with the button pressed
\* can succeed (spec section 4.5: reset() is valid from any state; section
\* 7: only DeviceNotFound at the first discovery is fatal).
ResetAdviceWorks ==
    phase = "menu" /\ EnablePowerOnReset /\ dev.window /\ ~ResetDisabledByOpts(dev)
        => \E x \in reset_device(Current) : x.ok

\* The tool and the key together implement PhySettings: every step of any
\* menu handler, on any path of its exchanges, writes at most one setting,
\* in range and while a PIN is set, sets a PIN only where none was, or
\* erases everything by a reset PHY_OPTS did not forbid; the rest leave
\* settings and PIN presence alone (send_config_command lines 208-240,
\* set_pin 157-206, reset_device 121-155).
PhySettingsRefined == Phy!Spec

\* No new PIN outside 4..63 characters ever reaches the device: set_pin and
\* change_pin reject it locally first (spec sections 4.2 and 8).
PinPolicyEnforcedLocally == ~badPinSent

=============================================================================
