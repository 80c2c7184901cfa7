----------------------------- MODULE PhySettings -----------------------------
(***************************************************************************)
(* What the commissioner tool and the key promise together about the      *)
(* key's vendor configuration, with the PIN/UV auth protocol, the          *)
(* transport and the tool's session abstracted away (spec sections 3,     *)
(* 4.2, 4.5 and 6):                                                        *)
(*   - a setting is written only while a PIN is set (a configuration      *)
(*     command needs a PIN token) and only with a value in the range of   *)
(*     the section 6 table;                                                *)
(*   - a PIN is set only when none is; changing it is invisible here;     *)
(*   - a factory reset erases the PIN and every setting, and never        *)
(*     happens while PHY_OPTS holds the "disable power-reset" flag.       *)
(* Commissioner.tla is shown to implement this specification under the   *)
(* mapping settings <- dev.config, pinSet <- (dev.pin # NoPin).           *)
(***************************************************************************)
EXTENDS Integers

CONSTANTS
    Params,    \* the vendor configuration parameters
    NoValue    \* a parameter never written: the firmware default

VARIABLES
    settings,  \* settings[p]: the value parameter p holds
    pinSet     \* the key has a PIN

vars == <<settings, pinSet>>

Default == [p \in Params |-> NoValue]

\* The value range of each parameter (spec section 6); PHY_VIDPID is the
\* 32-bit (vid << 16) | pid of two 16-bit halves: below 2^32, written so
\* that no intermediate leaves 32-bit signed arithmetic.
Allowed(p, v) ==
    CASE p = "PHY_VIDPID"     -> v >= 0 /\ v \div 65536 <= 65535
      [] p = "PHY_LED_BTNESS" -> 0 <= v /\ v <= 255
      [] p = "PHY_LED_GPIO"   -> 0 <= v /\ v <= 29
      [] p = "PHY_OPTS"       -> 0 <= v /\ v <= 15
      [] p = "PHY_UP_BTN"     -> 0 <= v /\ v <= 255

\* PHY_OPTS carries the 0x4 "disable power-reset window" flag.
ResetForbidden ==
    /\ settings["PHY_OPTS"] # NoValue
    /\ (settings["PHY_OPTS"] \div 4) % 2 = 1

Init ==
    /\ settings = Default
    /\ pinSet \in BOOLEAN

\* One parameter takes a new value; the value is the one written, so the
\* step is described by the value settings'[p] it leaves.
Write(p) ==
    /\ pinSet
    /\ settings'[p] # NoValue
    /\ Allowed(p, settings'[p])
    /\ settings' = [settings EXCEPT ![p] = settings'[p]]
    /\ UNCHANGED pinSet

SetPin ==
    /\ ~pinSet
    /\ pinSet' = TRUE
    /\ UNCHANGED settings

FactoryReset ==
    /\ ~ResetForbidden
    /\ settings' = Default
    /\ pinSet' = FALSE

Next ==
    \/ \E p \in Params : Write(p)
    \/ SetPin
    \/ FactoryReset

Spec == Init /\ [][Next]_vars

=============================================================================
