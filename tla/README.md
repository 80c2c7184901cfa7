# Formal model of the Pico FIDO commissioner tool

This directory holds TLA+ models of `src/tools/commissioner-cli/main.py`. That
tool is an interactive command-line program that configures a Pico FIDO
authenticator over CTAP2/HID. The directory also holds the TLC configurations
that model-check the models, and TLAPS proofs, for every value of the
constants, of the main safety properties and of the refinement of an
abstract specification.

## The system

The program is single-threaded. Every CTAP exchange blocks until the device
answers or the transport raises. Its parts are these:

| Part | Code | What it does |
|---|---|---|
| Session object | `PicoFIDODevice.__init__`, `find_device` (47-72) | Holds the HID device, the cached `getInfo` result (`info`), the `ClientPin` object, the PIN/UV auth token and its protocol. |
| PIN authentication | `get_pin_token` (86-119), `set_pin` (157-206) | Obtains a token with the authenticatorConfig permission. It sets or changes the PIN, choosing the path from the cached `info`. |
| Configuration command | `send_config_command` (208-240) | Authenticates lazily and MACs a vendor sub-command. It sends `authenticatorConfig` and drops the token on any failure. |
| Factory reset | `reset_device` (121-155) | Sends `authenticatorReset`, then re-fetches `info` and drops the token and the `ClientPin`. |
| Menu | `configure_*`, `setup_pin`, `factory_reset`, `main` (270-720) | Checks the values the user types, then calls the methods above. It also runs the startup "set a PIN now?" prompt and the loop. |
| Authenticator | firmware, not under `src/` | The clientPIN, authenticatorConfig, authenticatorReset and getInfo commands (spec sections 4.2, 4.5, 6). |
| Terminal UI | `print_*`, `show_device_info`, `clear_screen` | Output only. It is not modelled. |

## Modules

* **`CtapAuthenticator.tla`** models the authenticator as the tool sees it. It
  is written from the specification, because the firmware is not in `src/`.
  * Its state is one record `dev`: the PIN, the retry counter, the one live
    token and its protocol, the number of tokens issued, the PHY
    configuration, the power-on reset window and the supported protocols.
  * Each CTAP command is a function from a device state to a reply:
    `GetPinTokenReply`, `SetPinReply`, `ChangePinReply`, `ResetReply` and
    `ConfigReply`.
  * The checks run in the CTAP 2.1 order:
    * a blocked PIN is refused;
    * a wrong PIN costs a retry;
    * a policy violation is refused after the current PIN is verified;
    * the config MAC verifies only under the live token and its protocol.
  * The device's own steps are the window closing and the token expiring.
  * `PowerCycle` is what a replug does to the key. The token is gone and
    the reset window is open again. The PIN, the retries and the settings
    survive.
* **`Commissioner.tla`** models the tool. Its variables are the object's
  fields:
  * `info`: the cached getInfo, abstracted to its clientPin option;
  * `client_pin`: the negotiated protocol;
  * `pin_token` and `pin_protocol`;
  * the program counter `phase` of `main`;
  * `linked`: whether the HID handle `self.dev` still addresses the key that
    is plugged in;
  * two history variables: `refused`, the tokens the device refused a command
    under, and `badPinSent`.

  Each method is a function from a `Session` snapshot to the set of sessions
  it may end in: one per PIN or value the user may type, and one per way each
  of its exchanges may fail. The methods are `get_pin_token`,
  `send_config_command` (with `Dispatch`), `set_pin` (`ChangePath`,
  `SetPath`, `AfterSetPin`) and `reset_device` (`AfterReset`). A handler
  that makes several exchanges composes the replies on the one `dev` record.
  An exception ends the handler where it is raised (`Fail`): for example,
  nothing after a failed `get_info` runs. `ChangePath` also models the
  one check the fido2 library makes for the tool: `ClientPin.change_pin`
  pads the new PIN (`_pad_pin`) before it sends, and that raises for fewer
  than 4 characters, so such a PIN fails with no exchange.

  `Deliver(d, r)` is the transport. With `Lossy`, an exchange may fail before
  the device acts, or after it (the reply is lost). The caller sees an
  exception in both cases. Through a dead handle (`~linked`), every exchange
  fails before it reaches the key.

  There is one action per menu option: `ConfigureButtonTimeout`,
  `ConfigureLedGpio`, `ConfigureLedBrightness`, `ConfigurePhyOptions`,
  `ConfigureVidPid`, `SetupPin`, `FactoryReset` and `Quit`. The other actions
  are `FindDevice`, the startup prompt `StartupPrompt`, `DeviceStep`, and
  `Replug`. `Replug` is enabled only with the constant `Hotplug`: the user
  unplugs and replugs the key while the tool runs, which the tool itself
  advises after a refused reset (lines 146-149). `find_device` bound the
  handle once (lines 64-65), so after a replug the tool holds a dead handle.
  View Device Information and every cancelled prompt change nothing, so they
  are stuttering steps.
* **`MC_Commissioner.tla`** is the TLC instance. It has four PINs:
  * "1234" and "12345678", which follow the policy;
  * "123", which is too short;
  * "L64", which is 64 characters.

  For each parameter the user may type the largest legal value and the
  smallest illegal value next to it: 255/256, 29/30, -1/0 and 4/16. The
  VID/PID inputs are the Raspberry Pi default and a VID of -1, which
  `int(s, 16)` accepts.
* **`PhySettings.tla`** is the abstract specification. It says what the tool
  and the key promise together about the key's configuration, with tokens,
  transport and session abstracted away. Its variables are `settings` and
  `pinSet`. Its actions are these:
  * `Write(p)`: one setting takes a value in the range of the spec's
    section 6 table, and only while a PIN is set;
  * `SetPin`: a PIN is set where none was;
  * `FactoryReset`: the PIN and every setting are erased, and never while
    PHY_OPTS holds the 0x4 "disable power-reset" flag.

  `Commissioner` declares the mapping `Phy == INSTANCE PhySettings WITH
  settings <- dev.config, pinSet <- (dev.pin # NoPin)`.
* **`CommissionerProofs.tla`**, **`CommissionerRefinement.tla`** and
  **`CommissionerSessionProofs.tla`** hold the TLAPS proofs. Each one extends
  the one before it.

## Runs

All runs use `MaxRetries = 2`, `MaxTokens = 3`, `EnablePowerOnReset =
TRUE` and `Hotplug = TRUE`. Every initial device state is explored: with or without a policy PIN,
with the window open or closed, and every set of protocols.

| Run (cfg) | Lossy | Checks | Result |
|---|---|---|---|
| `lossy_transport` (`Commissioner.cfg`) | yes | `TypeOK`, `ConfigInRange`, `RefusedTokenNeverHeld`, `OneRetryPerStep`, `ResetRefusalClean`, `PhySettingsRefined` | Passes; 259,968 states. Every action fires. |
| `reliable_info_current` (`CommissionerNoFaults.cfg`) | no | `InfoPinCurrent` | Passes; 225,040 states. |
| `stale_info_after_failure` (`CommissionerStaleInfo.cfg`) | yes | `InfoPinCurrent` | Violation, a finding: a failed getInfo after a reset or a setPIN leaves `info` stale (line 132, line 198). |
| `pin_policy_local` (`CommissionerPinPolicy.cfg`) | yes | `PinPolicyEnforcedLocally` | Violation, a finding: a 64-character PIN reaches the device, on the set path (line 191 checks only the lower bound) and on the change path (line 179, no check of the tool's). A PIN under 4 characters is refused locally on both paths: by line 191, and by fido2's `_pad_pin` before `change_pin` sends anything. |
| `replug_stale_handle` (`CommissionerReplug.cfg`) | no | `ResetAdviceWorks` | Violation, a finding: after a replug the tool keeps the dead handle, so no reset can succeed even in the open window (line 64). |

What the properties say:

* **`ConfigInRange`.** Every PHY value the device holds is in the range of
  the spec's table (`SpecRange`). That table is stated independently of the
  tool's checks (`InRange`, `VidPidValid`).
* **`RefusedTokenNeverHeld`.** A token the device refused a command under is
  never held again. `send_config_command` must drop it (line 239), so the
  next call re-authenticates.
* **`InfoPinCurrent`.** At the menu, the cached clientPin option agrees with
  the device. Both `get_pin_token` (line 92) and `set_pin` (line 166) decide
  on it.
* **`OneRetryPerStep`** (an action property). No step lowers the PIN retry
  counter by more than one. So no handler sends a PIN twice, and only the
  user's own attempts move the key towards PIN_BLOCKED (spec sections 4.2
  and 7: no local retry).
* **`ResetRefusalClean`** (an action property). A factory reset that the key
  refused, or whose button press timed out, leaves `info`, the ClientPin,
  the token and its protocol as they were (spec section 5). The step is
  recognised by the device being untouched although a reset would have
  changed it.
* **`PhySettingsRefined`** (`Phy!Spec`). Tool and key implement
  `PhySettings`. This one property says three things:
  * every handler, on every path through its exchanges, makes at most one
    abstract step;
  * the menu's checks keep written values in range;
  * a configuration command the key accepts was made while a PIN is set.
* **`ResetAdviceWorks`** (checked only in the violation run). With the menu
  up, the window open and reset allowed, `reset_device` with the button
  pressed can succeed. Without a replug it holds (128,156 states).

Each property of a passing run has a mutant that breaks it, each a plausible
bug in the code:

| Mutant | Breaks |
|---|---|
| The GPIO upper bound dropped | `ConfigInRange` |
| The token kept after a failed command | `RefusedTokenNeverHeld` |
| The refresh after setPIN left out | `InfoPinCurrent` |
| The PIN_BLOCKED check left out of the device | `TypeOK` (the counter goes below 0) |
| `send_config_command` asks for the PIN again after a failed authentication | `OneRetryPerStep` |
| `reset_device` drops the token and ClientPin before sending the reset (lines 133-134 above line 130) | `ResetRefusalClean` |
| `configure_vidpid` checks only the upper bounds of VID and PID | `PhySettingsRefined` |

### Why these bounds are enough

* **Tokens.** Three tokens allow a token to be issued, refused (expired or
  invalidated by changePIN) and replaced. That is the whole life cycle
  `RefusedTokenNeverHeld` is about.
* **Retries.** Two retries let a wrong PIN be followed by a right one, or by
  the block.
* **Inputs.** Each input set holds the boundary on both sides, where an
  off-by-one would show.
* **Traces.** The violations are found within five steps.
* **Replug.** Replugging can happen in any phase, any number of times. The
  state space stays finite because a replug only clears the token and
  reopens the window.

### Fairness

None is assumed. The program is interactive: whether the user ever picks an
option is not the program's to guarantee. Every CTAP exchange blocks in the
fido2 library, and its timeouts are not in `src/`. So nothing in the code
guarantees progress that a liveness property could rest on, and none is
claimed.
When `main` has returned (phase "exited"), nothing is enabled. The program
really stops there, so the runs do not check for deadlock.

## Proofs

| Module | Theorem | Statement |
|---|---|---|
| `CommissionerProofs` | `TypeCorrect` | `Spec => []TypeOK` |
| `CommissionerProofs` | `RefusedTokenSafe` | `Spec => []RefusedTokenNeverHeld` |
| `CommissionerRefinement` | `Refinement` | `Spec => PhySettingsRefined`, that is `Phy!Spec` |
| `CommissionerRefinement` | `ConfigSafe` | `Spec => []ConfigInRange` |
| `CommissionerSessionProofs` | `RetryBound` | `Spec => OneRetryPerStep` |
| `CommissionerSessionProofs` | `ResetRefusal` | `Spec => ResetRefusalClean` |
| `CommissionerSessionProofs` | `InfoFresh` | `~Lossy => (Spec => []InfoPinCurrent)` |

All seven hold for every value of the constants, under `AuthenticatorAssumption`
and `CommissionerAssumption`. `InfoFresh` also assumes a reliable transport
(`~Lossy`), because `InfoPinCurrent` is false on a lossy one (run
`stale_info_after_failure`). Every property of every passing run is now stated
by one of these theorems. They cover:

* every set of PINs and lengths;
* every retry and token bound;
* lossy or reliable transport, with or without replugs;
* every set of user inputs.

### `CommissionerProofs`

`RefusedTokenNeverHeld` is not inductive on its own. A freshly issued token
could, as far as the invariant alone says, be one that was refused earlier.
The inductive invariant `IInv` therefore adds two facts: every held token and
every refused token is at most `dev.issued`, and `dev.issued` never
decreases. A new token is `dev.issued + 1`, so it is none of the refused
ones.

The proof works at the level of sessions. `Good(s)` says that a session
snapshot satisfies the invariant. There is one lemma per handler:

* `GetPinTokenOK`, `DispatchOK`, `SendConfigOK`, `ChangePathOK`, `SetPathOK`,
  `AfterSetPinOK`, `SetPinOK` and `ResetDeviceOK` each show that the handler
  maps a Good session to Good sessions.
* Under them, one lemma per device reply (for example `GetPinTokenReplyOK`)
  shows that a reply never lowers `issued`.
* `DeliverOK` shows the same of every transport outcome.

`NextIInv` has one step per action. `InitIInv` covers the initial states.
The theorems follow by PTL.

### `CommissionerRefinement`

The argument is at the level of device states. `PhyStep(d, e)` says that the
device going from `d` to `e` is a step of `PhySettings` under the mapping, or
a stutter. It is proved in three layers:

* **Replies.** Each reply of the key is a `PhyStep`. The PIN-token and
  changePIN replies keep the abstract state (`Unch`).
* **Transport.** A lost exchange leaves the device before or after the reply
  (`DeliverDev`).
* **Handlers.** Each handler makes at most one step that is not a stutter.
  Authenticating and refreshing the info touch neither the settings nor PIN
  presence, and a stutter followed by a step is a step (`UnchThenStep`).

The invariant `RInv` adds two facts to `IInv`:

* `KeyInv(dev)`: the key holds a live token only while a PIN is set. Without
  it, a configuration command accepted after a reset would be a write with
  no PIN.
* `ConfigInRange`. `StepInRange` shows that every `PhyStep` preserves it, so
  `ConfigSafe` falls out of the same induction.

`StepRefines` turns a `PhyStep` into `[Phy!Next]_Phy!vars`. `Refinement`
combines that with `Init => Phy!Init` by PTL.

The range checks of the menu are written as the code writes them
(`v < 0 or v > 255`), as comparisons.

### `CommissionerSessionProofs`

This module extends `CommissionerRefinement` and follows each handler down
to the key's replies in the same way.

* **`RetryBound`.** `RetryCost(d, e)` says that the device lost at most one
  PIN retry from `d` to `e`. `NoRetryCost` says that it lost none.
  * Only the token request and changePIN can cost a retry, and each costs at
    most one (`GetPinTokenReplyCost`, `ChangePinReplyCost`).
  * setPIN, the reset and the config command cost none (`SetPinReplyFree`,
    `ResetReplyFree`, `ConfigReplyFree`). The reset refills the counter.
  * `send_config_command` makes at most one token request and then one free
    command (`SendConfigCost`). `set_pin` takes either the change path or
    the set path (`SetPinCost`).
  * `NextRetry` proves the bound for every step from a state of `IInv`.
* **`ResetRefusal`.** `ResetDeviceRefused` shows that a reset outcome in
  which the device did not change, although a reset would have changed it,
  came from a failed exchange. Such a failure returns through `Fail` before
  lines 133-136, so the session fields stay as they were. This holds of
  every step from `IInv`, lossy or not.
* **`InfoFresh`.** `InfoPinCurrent` is not inductive. It says nothing of
  the startup prompt, yet `set_pin` runs from there on the info
  `find_device` fetched.
  * The invariant `FreshInv` extends it to the prompt, and `SInv` is
    `RInv /\ FreshInv`. `KeyInv` is needed because the proof that
    authenticating keeps PIN presence reuses `GetPinTokenKeeps`.
  * `Coherent(s)` says that a session's cached option matches its device.
    Over a reliable transport, every handler maps a coherent session to
    coherent ones:
    * changePIN replaces a PIN with a PIN;
    * a setPIN or reset that acts is followed by a getInfo, which then
      cannot fail (`AfterSetPinReliable`, `AfterResetReliable`);
    * one that fails did not act (`FailedKeeps`).
  * TLC checked `FreshInv` on the `reliable_info_current` instance (225,040
    states) before it was proved.

### What stays with TLC

* Liveness, if any were claimed: TLAPS does not reason about ENABLED or
  fairness here.
* Induction over data.
* The properties of the violation runs (`InfoPinCurrent` on a lossy
  transport, `PinPolicyEnforcedLocally`, `ResetAdviceWorks` with replugs).
  They are false, and TLC's counterexamples are the findings.

## Not modelled

* **The CBOR encoding and HMAC of the config message** (lines 215-231). The
  device accepts the command exactly when it was made under its live token
  and protocol.
* **The protocol fallback at lines 100-106.** The fido2 `ClientPin` always
  has a `protocol`, so it is modelled as the negotiated protocol
  (`ProtocolOf`).
* **The per-power-cycle limit of three consecutive wrong PINs.** Other host
  clients are also not modelled.
* **Output and wording**, for example which error message is printed.

The model assumes that a reset also erases the PHY settings. This comes from
the tool's own text (lines 598 and 634).

## Plan

1. A `ConfigEnvelope` module. It would encode the sub-command map as CBOR
   bytes and check a decode round trip over bounded values.
2. A property of what the session may still do once the PIN is blocked.
