-------------------------- MODULE CtapAuthenticator --------------------------
(***************************************************************************)
(* The Pico FIDO authenticator as the commissioner tool sees it over       *)
(* CTAP2/HID: the PIN, its retry counter, the one live PIN/UV auth token,  *)
(* the vendor PHY configuration, the power-on reset window and the PIN     *)
(* protocols the firmware supports.  The firmware is not part of the       *)
(* source tree this project models, so every reply below is written from   *)
(* the specification (sections 4.2, 4.5, 6) and the CTAP 2.1 order of     *)
(* checks; it is the environment the client of Commissioner.tla runs in.  *)
(*                                                                         *)
(* The device state is one record, so that a client handler that makes    *)
(* several exchanges in a row is the composition of the replies below.     *)
(***************************************************************************)
EXTENDS Integers

CONSTANTS
    Pins,                \* the PINs a user may type (strings)
    PinLen,              \* PinLen[p]: the length of PIN p in characters
    MaxRetries,          \* the device's PIN retry counter when full
    MaxTokens,           \* bound: tokens the device issues in one behaviour
    EnablePowerOnReset,  \* firmware built with ENABLE_POWER_ON_RESET
    NoPin,               \* sentinel: the device has no PIN
    NoValue              \* sentinel: a PHY parameter never written

ASSUME AuthenticatorAssumption ==
    /\ PinLen \in [Pins -> Nat]
    /\ MaxRetries \in Nat \ {0}
    /\ MaxTokens \in Nat
    /\ EnablePowerOnReset \in BOOLEAN
    /\ NoPin \notin Pins
    /\ NoValue \notin Int

\* The two PIN/UV auth protocols of CTAP 2.1; 0 stands for "none".
Protocols == {1, 2}
NoProto == 0

\* Token identities: the device issues 1, 2, ... ; 0 is "no token".
NoToken == 0
Tokens == 1..MaxTokens

\* The vendor configuration parameters of the table in spec section 6.  The
\* 64-bit identifiers are abstracted to their names.
Params == {"PHY_VIDPID", "PHY_LED_BTNESS", "PHY_LED_GPIO", "PHY_OPTS", "PHY_UP_BTN"}

PHY_OPT_DISABLE_POWER_RESET == 4

\* The authenticator's PIN policy: 4 to 63 characters.
PinPolicyOK(p) == PinLen[p] \in 4..63

DevState ==
    [pin        : Pins \cup {NoPin},
     retries    : 0..MaxRetries,
     token      : Tokens \cup {NoToken},
     tokenProto : Protocols \cup {NoProto},
     issued     : 0..MaxTokens,
     config     : [Params -> Int \cup {NoValue}],
     window     : BOOLEAN,
     protocols  : SUBSET Protocols]

VARIABLE dev

\* A reply: the device state after the command and whether it succeeded.
Reply(d, ok) == [d |-> d, ok |-> ok]

\* The authenticatorGetInfo "clientPin" option: TRUE when a PIN is set.
Info(d) == [clientPin |-> d.pin # NoPin]

\* Bound on the run: a new token can still be issued.
CanIssue(d) == d.issued < MaxTokens

\* Mutant of GetPinTokenReply: the PIN_BLOCKED check left out.
GetPinTokenReplyNoBlock(d, pin, proto) ==
    IF d.pin = NoPin THEN Reply(d, FALSE)
    ELSE IF pin # d.pin THEN Reply([d EXCEPT !.retries = @ - 1], FALSE)
    ELSE Reply([d EXCEPT !.retries = MaxRetries,
                                           !.token = d.issued + 1,
                                           !.issued = d.issued + 1,
                                           !.tokenProto = proto], TRUE)

\* clientPIN getPinUvAuthTokenUsingPinWithPermissions: a correct PIN refills
\* the retries and replaces the live token by a fresh one, bound to the
\* protocol of the request; a wrong one costs a retry.
GetPinTokenReply(d, pin, proto) ==
    IF d.pin = NoPin \/ d.retries = 0 THEN Reply(d, FALSE)
    ELSE IF pin # d.pin THEN Reply([d EXCEPT !.retries = @ - 1], FALSE)
    ELSE Reply([d EXCEPT !.retries = MaxRetries,
                                           !.token = d.issued + 1,
                                           !.issued = d.issued + 1,
                                           !.tokenProto = proto], TRUE)

\* clientPIN setPIN: only when no PIN is set, and only a PIN of the policy.
SetPinReply(d, new) ==
    IF d.pin = NoPin /\ PinPolicyOK(new)
    THEN Reply([d EXCEPT !.pin = new], TRUE)
    ELSE Reply(d, FALSE)

\* clientPIN changePIN: the current PIN is checked first (a wrong one costs
\* a retry), then the new PIN against the policy; success invalidates the
\* live token.
ChangePinReply(d, old, new) ==
    IF d.pin = NoPin \/ d.retries = 0 THEN Reply(d, FALSE)
    ELSE IF old # d.pin THEN Reply([d EXCEPT !.retries = @ - 1], FALSE)
    ELSE IF ~PinPolicyOK(new) THEN Reply([d EXCEPT !.retries = MaxRetries], FALSE)
    ELSE Reply([d EXCEPT !.pin = new,
                                                 !.retries = MaxRetries,
                                                 !.token = NoToken], TRUE)

\* The PHY_OPTS flag that closes the power-on reset window for good.
ResetDisabledByOpts(d) ==
    /\ d.config["PHY_OPTS"] # NoValue
    /\ (d.config["PHY_OPTS"] \div PHY_OPT_DISABLE_POWER_RESET) % 2 = 1

\* What a reset leaves of the device: no PIN, a full retry counter, no live
\* token and every setting back to its default.
Erase(d) ==
    [d EXCEPT !.pin = NoPin, !.retries = MaxRetries, !.token = NoToken,
              !.config = [p \in Params |-> NoValue]]

\* authenticatorReset: NOT_ALLOWED outside the window, without the build
\* flag or with the PHY_OPTS flag; USER_ACTION_TIMEOUT when the button is not
\* pressed; otherwise the PIN, the token and the settings are erased.
ResetReply(d, pressed) ==
    IF /\ EnablePowerOnReset
       /\ d.window
       /\ ~ResetDisabledByOpts(d)
       /\ pressed
    THEN Reply(Erase(d), TRUE)
    ELSE Reply(d, FALSE)

\* authenticatorConfig vendor sub-command: the pinUvAuthParam verifies only
\* under the live token and the protocol it was issued for.
ConfigReply(d, p, v, tok, proto) ==
    IF tok = d.token /\ tok # NoToken /\ proto = d.tokenProto
    THEN Reply([d EXCEPT !.config[p] = v], TRUE)
    ELSE Reply(d, FALSE)

(***************************************************************************)
(* Initial states and the device's own steps.                              *)
(***************************************************************************)
DevInit ==
    \E pin \in {NoPin} \cup {p \in Pins : PinPolicyOK(p)},
       window \in BOOLEAN, protocols \in SUBSET Protocols :
        dev = [pin |-> pin, retries |-> MaxRetries, token |-> NoToken,
               tokenProto |-> NoProto, issued |-> 0,
               config |-> [p \in Params |-> NoValue],
               window |-> window, protocols |-> protocols]

\* The ten seconds after power-on pass.
WindowCloses ==
    /\ dev.window
    /\ dev' = [dev EXCEPT !.window = FALSE]

\* The firmware drops the live token (its usage timer runs out).
TokenExpires ==
    /\ dev.token # NoToken
    /\ dev' = [dev EXCEPT !.token = NoToken]

\* Unplugging and replugging the key: the firmware boots again, so the live
\* token is gone and the power-on reset window is open again.  The PIN,
\* its retry counter and the settings are in flash and survive.
PowerCycle(d) == [d EXCEPT !.token = NoToken, !.window = TRUE]

=============================================================================
