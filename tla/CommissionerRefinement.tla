------------------------- MODULE CommissionerRefinement -------------------------
(***************************************************************************)
(* Proofs, for every value of the constants, that the commissioner tool   *)
(* and the key implement the abstract configuration of PhySettings.tla:   *)
(*   Refinement   Spec => PhySettingsRefined  (that is, Phy!Spec)          *)
(*   ConfigSafe   Spec => []ConfigInRange                                  *)
(* under the mapping settings <- dev.config, pinSet <- (dev.pin # NoPin)   *)
(* that Commissioner.tla declares as Phy.                                  *)
(*                                                                         *)
(* The argument runs at the level of device states.  PhyStep(d, e) says    *)
(* that the device going from d to e is a step of PhySettings or a        *)
(* stutter.  Every reply of the key is such a step; an exchange the        *)
(* transport loses leaves the device before or after the reply; and a     *)
(* handler that makes several exchanges makes at most one that is not a   *)
(* stutter, since authenticating and refreshing the info touch neither    *)
(* the settings nor PIN presence.  The one fact about the key the proof   *)
(* needs beyond IInv is KeyInv: the key holds a live token only while it  *)
(* has a PIN, so a configuration command it accepts is one made while a   *)
(* PIN is set.                                                             *)
(***************************************************************************)
EXTENDS CommissionerProofs

\* The key holds a live token only while a PIN is set.
KeyInv(d) == d.token # NoToken => d.pin # NoPin

\* The device moved from d to e without touching the abstract state.
Unch(d, e) == e.config = d.config /\ (e.pin = NoPin <=> d.pin = NoPin)

\* The device moved from d to e by a step of PhySettings, or a stutter.
PhyStep(d, e) ==
    \/ Unch(d, e)
    \/ \E p \in Params :
          /\ d.pin # NoPin /\ e.pin # NoPin
          /\ e.config[p] # NoValue /\ SpecRange(p, e.config[p])
          /\ e.config = [d.config EXCEPT ![p] = e.config[p]]
    \/ d.pin = NoPin /\ e.pin # NoPin /\ e.config = d.config
    \/ ~ResetDisabledByOpts(d) /\ e.config = [q \in Params |-> NoValue] /\ e.pin = NoPin

\* What a handler's outcome x may have done to the key from session s.
Steps(s, x) == PhyStep(s.dev, x.dev) /\ KeyInv(x.dev)
Keeps(s, x) == Unch(s.dev, x.dev) /\ KeyInv(x.dev)

\* The invariant the refinement rests on.
RInv == IInv /\ KeyInv(dev) /\ ConfigInRange

USE AuthenticatorAssumption, CommissionerAssumption

-----------------------------------------------------------------------------
(* Steps of the device and how they compose.                               *)

LEMMA UnchRefl ==
    ASSUME NEW d
    PROVE  Unch(d, d) /\ PhyStep(d, d)
  BY DEF Unch, PhyStep

\* A stutter followed by a step is a step.
LEMMA UnchThenStep ==
    ASSUME NEW d, NEW e, NEW f, Unch(d, e), PhyStep(e, f)
    PROVE  PhyStep(d, f)
  <1>1. CASE Unch(e, f)
    BY <1>1 DEF Unch, PhyStep
  <1>2. CASE \E p \in Params :
                /\ e.pin # NoPin /\ f.pin # NoPin
                /\ f.config[p] # NoValue /\ SpecRange(p, f.config[p])
                /\ f.config = [e.config EXCEPT ![p] = f.config[p]]
    BY <1>2 DEF Unch, PhyStep
  <1>3. CASE e.pin = NoPin /\ f.pin # NoPin /\ f.config = e.config
    BY <1>3 DEF Unch, PhyStep
  <1>4. CASE ~ResetDisabledByOpts(e) /\ f.config = [q \in Params |-> NoValue]
             /\ f.pin = NoPin
    <2>1. ResetDisabledByOpts(d) = ResetDisabledByOpts(e)
      BY DEF Unch, ResetDisabledByOpts
    <2>2. QED
      BY <1>4, <2>1 DEF PhyStep
  <1>5. QED
    BY <1>1, <1>2, <1>3, <1>4 DEF PhyStep

\* A step keeps every setting in its range.
LEMMA StepInRange ==
    ASSUME NEW d \in DevState, NEW e \in DevState, PhyStep(d, e),
           \A p \in Params : d.config[p] # NoValue => SpecRange(p, d.config[p])
    PROVE  \A p \in Params : e.config[p] # NoValue => SpecRange(p, e.config[p])
  <1> SUFFICES ASSUME NEW q \in Params, e.config[q] # NoValue
               PROVE  SpecRange(q, e.config[q])
    OBVIOUS
  <1>1. CASE Unch(d, e)
    BY <1>1 DEF Unch
  <1>2. CASE \E p \in Params :
                /\ e.config[p] # NoValue /\ SpecRange(p, e.config[p])
                /\ e.config = [d.config EXCEPT ![p] = e.config[p]]
    <2>1. PICK p \in Params :
            /\ e.config[p] # NoValue /\ SpecRange(p, e.config[p])
            /\ e.config = [d.config EXCEPT ![p] = e.config[p]]
      BY <1>2
    <2>2. q # p => e.config[q] = d.config[q]
      BY <2>1 DEF DevState
    <2>3. QED
      BY <2>1, <2>2
  <1>3. CASE e.config = d.config
    BY <1>3
  <1>4. CASE e.config = [p \in Params |-> NoValue]
    BY <1>4
  <1>5. QED
    BY <1>1, <1>2, <1>3, <1>4 DEF PhyStep

\* A step of the device is a step of PhySettings under the mapping.
LEMMA StepRefines ==
    ASSUME PhyStep(dev, dev')
    PROVE  [Phy!Next]_Phy!vars
  <1>1. CASE Unch(dev, dev')
    BY <1>1 DEF Unch, Phy!vars
  <1>2. CASE \E p \in Params :
                /\ dev.pin # NoPin /\ dev'.pin # NoPin
                /\ dev'.config[p] # NoValue /\ SpecRange(p, dev'.config[p])
                /\ dev'.config = [dev.config EXCEPT ![p] = dev'.config[p]]
    <2>1. PICK p \in Params :
                /\ dev.pin # NoPin /\ dev'.pin # NoPin
                /\ dev'.config[p] # NoValue /\ SpecRange(p, dev'.config[p])
                /\ dev'.config = [dev.config EXCEPT ![p] = dev'.config[p]]
      BY <1>2
    <2>2. Phy!Write(p)
      BY <2>1 DEF Phy!Write, SpecRange
    <2>3. QED
      BY <2>2 DEF Phy!Next
  <1>3. CASE dev.pin = NoPin /\ dev'.pin # NoPin /\ dev'.config = dev.config
    <2>1. Phy!SetPin
      BY <1>3 DEF Phy!SetPin
    <2>2. QED
      BY <2>1 DEF Phy!Next
  <1>4. CASE ~ResetDisabledByOpts(dev) /\ dev'.config = [q \in Params |-> NoValue]
             /\ dev'.pin = NoPin
    <2>1. ~Phy!ResetForbidden
      BY <1>4 DEF ResetDisabledByOpts, PHY_OPT_DISABLE_POWER_RESET, Phy!ResetForbidden
    <2>2. Phy!FactoryReset
      BY <1>4, <2>1 DEF Phy!FactoryReset, Phy!Default
    <2>3. QED
      BY <2>2 DEF Phy!Next
  <1>5. QED
    BY <1>1, <1>2, <1>3, <1>4 DEF PhyStep

-----------------------------------------------------------------------------
(* The key's replies.                                                      *)

\* An exchange the transport loses leaves the device before or after the
\* reply (or never reaches it through a dead handle).
LEMMA DeliverDev ==
    ASSUME NEW d, NEW r, NEW o \in Deliver(d, r)
    PROVE  o.d = d \/ o.d = r.d
  BY DEF Deliver, Reply

\* Outcomes of an exchange whose reply keeps the abstract state.
LEMMA DeliverKeeps ==
    ASSUME NEW d, NEW r, Unch(d, r.d), KeyInv(d), KeyInv(r.d),
           NEW o \in Deliver(d, r)
    PROVE  Unch(d, o.d) /\ KeyInv(o.d)
  BY DeliverDev, UnchRefl

\* Outcomes of an exchange whose reply is a step.
LEMMA DeliverSteps ==
    ASSUME NEW d, NEW r, PhyStep(d, r.d), KeyInv(d), KeyInv(r.d),
           NEW o \in Deliver(d, r)
    PROVE  PhyStep(d, o.d) /\ KeyInv(o.d)
  BY DeliverDev, UnchRefl

LEMMA GetPinTokenReplyKeeps ==
    ASSUME NEW d \in DevState, KeyInv(d), NEW pin, NEW pr
    PROVE  Unch(d, GetPinTokenReply(d, pin, pr).d) /\ KeyInv(GetPinTokenReply(d, pin, pr).d)
  <1>1. CASE d.pin = NoPin \/ d.retries = 0
    BY <1>1 DEF GetPinTokenReply, Reply, Unch
  <1>2. CASE ~(d.pin = NoPin \/ d.retries = 0) /\ pin # d.pin
    BY <1>2 DEF GetPinTokenReply, Reply, Unch, KeyInv, DevState
  <1>3. CASE ~(d.pin = NoPin \/ d.retries = 0) /\ pin = d.pin
    BY <1>3 DEF GetPinTokenReply, Reply, Unch, KeyInv, DevState
  <1>4. QED
    BY <1>1, <1>2, <1>3

LEMMA ChangePinReplyKeeps ==
    ASSUME NEW d \in DevState, KeyInv(d), NEW old, NEW new \in Pins
    PROVE  Unch(d, ChangePinReply(d, old, new).d) /\ KeyInv(ChangePinReply(d, old, new).d)
  <1>1. CASE d.pin = NoPin \/ d.retries = 0
    BY <1>1 DEF ChangePinReply, Reply, Unch
  <1>2. CASE ~(d.pin = NoPin \/ d.retries = 0) /\ old # d.pin
    BY <1>2 DEF ChangePinReply, Reply, Unch, KeyInv, DevState
  <1>3. CASE ~(d.pin = NoPin \/ d.retries = 0) /\ old = d.pin /\ ~PinPolicyOK(new)
    BY <1>3 DEF ChangePinReply, Reply, Unch, KeyInv, DevState
  <1>4. CASE ~(d.pin = NoPin \/ d.retries = 0) /\ old = d.pin /\ PinPolicyOK(new)
    <2>1. new # NoPin
      OBVIOUS
    <2>2. QED
      BY <1>4, <2>1 DEF ChangePinReply, Reply, Unch, KeyInv, DevState
  <1>5. QED
    BY <1>1, <1>2, <1>3, <1>4

LEMMA SetPinReplySteps ==
    ASSUME NEW d \in DevState, KeyInv(d), NEW new \in Pins
    PROVE  PhyStep(d, SetPinReply(d, new).d) /\ KeyInv(SetPinReply(d, new).d)
  <1>1. CASE d.pin = NoPin /\ PinPolicyOK(new)
    <2>1. new # NoPin
      OBVIOUS
    <2>2. QED
      BY <1>1, <2>1 DEF SetPinReply, Reply, PhyStep, KeyInv, DevState
  <1>2. CASE ~(d.pin = NoPin /\ PinPolicyOK(new))
    BY <1>2, UnchRefl DEF SetPinReply, Reply
  <1>3. QED
    BY <1>1, <1>2

LEMMA ResetReplySteps ==
    ASSUME NEW d \in DevState, KeyInv(d), NEW pressed
    PROVE  PhyStep(d, ResetReply(d, pressed).d) /\ KeyInv(ResetReply(d, pressed).d)
  <1>1. CASE EnablePowerOnReset /\ d.window /\ ~ResetDisabledByOpts(d) /\ pressed
    <2>1. ResetReply(d, pressed).d = Erase(d)
      BY <1>1 DEF ResetReply, Reply
    <2>2. /\ Erase(d).config = [q \in Params |-> NoValue]
          /\ Erase(d).pin = NoPin /\ Erase(d).token = NoToken
      BY DEF Erase
    <2>3. QED
      BY <1>1, <2>1, <2>2 DEF PhyStep, KeyInv
  <1>2. CASE ~(EnablePowerOnReset /\ d.window /\ ~ResetDisabledByOpts(d) /\ pressed)
    BY <1>2, UnchRefl DEF ResetReply, Reply
  <1>3. QED
    BY <1>1, <1>2

\* A configuration command the key accepts was made under its live token,
\* so while a PIN is set: it writes one setting.
LEMMA ConfigReplySteps ==
    ASSUME NEW d \in DevState, KeyInv(d), NEW p \in Params, NEW v \in Int,
           SpecRange(p, v), NEW tok, NEW pr
    PROVE  PhyStep(d, ConfigReply(d, p, v, tok, pr).d)
           /\ KeyInv(ConfigReply(d, p, v, tok, pr).d)
  <1>1. CASE tok = d.token /\ tok # NoToken /\ pr = d.tokenProto
    <2> DEFINE e == [d EXCEPT !.config[p] = v]
    <2>1. ConfigReply(d, p, v, tok, pr).d = e
      BY <1>1 DEF ConfigReply, Reply
    <2>2. /\ e.config = [d.config EXCEPT ![p] = v]
          /\ e.config[p] = v /\ e.pin = d.pin /\ e.token = d.token
      BY DEF DevState
    <2>3. d.pin # NoPin /\ v # NoValue
      BY <1>1 DEF KeyInv
    <2> HIDE DEF e
    <2>4. QED
      BY <2>1, <2>2, <2>3 DEF PhyStep, KeyInv
  <1>2. CASE ~(tok = d.token /\ tok # NoToken /\ pr = d.tokenProto)
    BY <1>2, UnchRefl DEF ConfigReply, Reply
  <1>3. QED
    BY <1>1, <1>2

-----------------------------------------------------------------------------
(* The handlers: authenticating keeps the abstract state, and every       *)
(* handler makes at most one abstract step.                                *)

LEMMA GetPinTokenKeeps ==
    ASSUME NEW s, Good(s), KeyInv(s.dev), NEW x \in get_pin_token(s)
    PROVE  Keeps(s, x)
  <1>0. s \in Session /\ s.dev \in DevState
    BY DEF Good, Session
  <1>1. CASE ~s.info.clientPin \/ s.dev.protocols = {}
    <2>1. x = [s EXCEPT !.ok = FALSE]
      BY <1>1 DEF get_pin_token
    <2>2. x.dev = s.dev
      BY <1>0, <2>1 DEF Session
    <2>3. QED
      BY <2>2, UnchRefl DEF Keeps
  <1>2. CASE ~(~s.info.clientPin \/ s.dev.protocols = {}) /\ ~CanIssue(s.dev)
    BY <1>2 DEF get_pin_token
  <1>3. CASE ~(~s.info.clientPin \/ s.dev.protocols = {}) /\ CanIssue(s.dev)
    <2> DEFINE cp == Negotiate(s.dev.protocols)
               t == [s EXCEPT !.cp = cp, !.pp = ProtocolOf(cp)]
               Os == UNION {Deliver(t.dev, GetPinTokenReply(t.dev, pin, cp)) :
                              pin \in Pins}
               F(o) == [t EXCEPT !.dev = o.d, !.ok = o.ok,
                                 !.tok = IF o.ok THEN o.d.token ELSE t.tok]
    <2>1. t \in Session /\ t.dev = s.dev
      BY <1>0 DEF Session, Negotiate, Protocols, ProtocolOf
    <2>2. get_pin_token(s) = {F(o) : o \in Os}
      BY <1>3 DEF get_pin_token
    <2> HIDE DEF cp, t
    <2>3. PICK o \in Os : x = F(o)
      BY <2>2
    <2>4. x.dev = o.d
      BY <2>1, <2>3 DEF Session
    <2>5. PICK pin \in Pins : o \in Deliver(s.dev, GetPinTokenReply(s.dev, pin, cp))
      BY <2>1, <2>3
    <2>6. Unch(s.dev, o.d) /\ KeyInv(o.d)
      BY <1>0, <2>5, GetPinTokenReplyKeeps, DeliverKeeps
    <2>7. QED
      BY <2>4, <2>6 DEF Keeps
  <1>4. QED
    BY <1>1, <1>2, <1>3

\* The configuration exchange writes at most the one setting it carries.
LEMMA DispatchSteps ==
    ASSUME NEW a \in Session, KeyInv(a.dev), NEW p \in Params, NEW v \in Int,
           SpecRange(p, v), NEW x \in Dispatch(a, p, v)
    PROVE  Steps(a, x)
  <1> DEFINE r == ConfigReply(a.dev, p, v, a.tok, a.pp)
             G(o) == [a EXCEPT !.dev = o.d, !.ok = o.ok,
                               !.tok = IF o.ok THEN a.tok ELSE NoToken,
                               !.refused = IF r.ok THEN a.refused
                                           ELSE a.refused \cup {a.tok}]
  <1>0. a.dev \in DevState
    BY DEF Session
  <1>1. Dispatch(a, p, v) = {G(o) : o \in Deliver(a.dev, r)}
    BY DEF Dispatch
  <1>2. PhyStep(a.dev, r.d) /\ KeyInv(r.d)
    BY <1>0, ConfigReplySteps
  <1> HIDE DEF G, r
  <1>3. PICK o \in Deliver(a.dev, r) : x = G(o)
    BY <1>1
  <1>4. x.dev = o.d
    BY <1>3 DEF G, Session
  <1>5. QED
    BY <1>2, <1>4, DeliverSteps DEF Steps

\* send_config_command: a lazy authentication keeps the abstract state, and
\* the configuration exchange after it is the one step.
LEMMA SendConfigSteps ==
    ASSUME NEW s, Good(s), KeyInv(s.dev), NEW p \in Params, NEW v \in Int,
           SpecRange(p, v), NEW x \in send_config_command(s, p, v)
    PROVE  Steps(s, x)
  <1> DEFINE authed == IF s.tok # NoToken THEN {s} ELSE get_pin_token(s)
  <1>1. \A a \in authed : a \in Session /\ Keeps(s, a)
    <2>1. CASE s.tok # NoToken
      BY <2>1, UnchRefl DEF Keeps, Good
    <2>2. CASE s.tok = NoToken
      BY <2>2, GetPinTokenKeeps, GetPinTokenOK DEF Good
    <2>3. QED
      BY <2>1, <2>2
  <1>2. send_config_command(s, p, v) =
          {a \in authed : ~a.ok} \cup UNION {Dispatch(a, p, v) : a \in {b \in authed : b.ok}}
    BY DEF send_config_command
  <1> HIDE DEF authed
  <1>3. CASE x \in {a \in authed : ~a.ok}
    BY <1>1, <1>3 DEF Keeps, Steps, PhyStep
  <1>4. CASE x \in UNION {Dispatch(a, p, v) : a \in {b \in authed : b.ok}}
    <2>1. PICK a \in authed : a.ok /\ x \in Dispatch(a, p, v)
      BY <1>4
    <2>2. Steps(a, x)
      BY <1>1, <2>1, DispatchSteps DEF Keeps
    <2>3. QED
      BY <1>1, <2>2, UnchThenStep DEF Keeps, Steps
  <1>5. QED
    BY <1>2, <1>3, <1>4

\* set_pin's change path keeps the abstract state: a PIN stays a PIN.
LEMMA ChangePathKeeps ==
    ASSUME NEW t \in Session, KeyInv(t.dev), NEW x \in ChangePath(t)
    PROVE  Keeps(t, x)
  <1>0. t.dev \in DevState
    BY DEF Session
  <1>1. CASE x = [t EXCEPT !.ok = FALSE]
    BY <1>1, UnchRefl DEF Keeps, Session
  <1>2. CASE x # [t EXCEPT !.ok = FALSE]
    <2> DEFINE H(o, nw) == [t EXCEPT !.dev = o.d, !.ok = o.ok,
                                     !.tok = IF o.ok THEN NoToken ELSE t.tok,
                                     !.bad = t.bad \/ ~PinPolicyOK(nw)]
               C(od, nw) == {H(o, nw) : o \in Deliver(t.dev, ChangePinReply(t.dev, od, nw))}
               D(od, nw) == IF PinLen[nw] < 4 THEN {[t EXCEPT !.ok = FALSE]} ELSE C(od, nw)
    <2>1. x \in UNION {UNION {D(od, nw) : nw \in Pins} : od \in Pins}
      BY <1>2 DEF ChangePath
    <2> HIDE DEF H
    <2>2. PICK old \in Pins, new \in Pins : x \in C(old, new)
      <3>1. PICK old \in Pins : x \in UNION {D(old, nw) : nw \in Pins}
        BY <2>1
      <3>2. PICK new \in Pins : x \in D(old, new)
        BY <3>1
      <3>3. x \in C(old, new)
        BY <1>2, <3>2
      <3>4. QED
        BY <3>3
    <2>3. PICK o \in Deliver(t.dev, ChangePinReply(t.dev, old, new)) : x = H(o, new)
      BY <2>2
    <2>4. x.dev = o.d
      BY <2>3 DEF H, Session
    <2>5. Unch(t.dev, o.d) /\ KeyInv(o.d)
      BY <1>0, <2>3, ChangePinReplyKeeps, DeliverKeeps
    <2>6. QED
      BY <2>4, <2>5 DEF Keeps
  <1>3. QED
    BY <1>1, <1>2

\* The info refresh after setPIN, and the failure before it, leave the
\* device as the setPIN reply left it.
LEMMA AfterSetPinDev ==
    ASSUME NEW t \in Session, NEW d, NEW x \in AfterSetPin(t, d)
    PROVE  x.dev = d
  BY DEF AfterSetPin, Fail, Session

LEMMA AfterResetDev ==
    ASSUME NEW s \in Session, NEW d, NEW x \in AfterReset(s, d)
    PROVE  x.dev = d
  BY DEF AfterReset, Fail, Session

\* set_pin's set path: setPIN is the one step.
LEMMA SetPathSteps ==
    ASSUME NEW t \in Session, KeyInv(t.dev), NEW x \in SetPath(t)
    PROVE  Steps(t, x)
  <1>0. t.dev \in DevState
    BY DEF Session
  <1>1. CASE x = [t EXCEPT !.ok = FALSE]
    BY <1>1, UnchRefl DEF Steps, Session
  <1>2. CASE x # [t EXCEPT !.ok = FALSE]
    <2>1. PICK new \in Pins :
            x \in IF PinLen[new] < 4
                  THEN {[t EXCEPT !.ok = FALSE]}
                  ELSE LET u == [t EXCEPT !.bad = t.bad \/ ~PinPolicyOK(new)]
                       IN  UNION {IF o.ok THEN AfterSetPin(u, o.d) ELSE {Fail(u, o.d)} :
                                    o \in Deliver(u.dev, SetPinReply(u.dev, new))}
      BY <1>2 DEF SetPath
    <2>2. ~(PinLen[new] < 4)
      BY <1>2, <2>1
    <2> DEFINE u == [t EXCEPT !.bad = t.bad \/ ~PinPolicyOK(new)]
    <2>3. u \in Session /\ u.dev = t.dev
      BY DEF Session
    <2>4. PICK o \in Deliver(t.dev, SetPinReply(t.dev, new)) :
            x \in IF o.ok THEN AfterSetPin(u, o.d) ELSE {Fail(u, o.d)}
      BY <2>1, <2>2, <2>3
    <2> HIDE DEF u
    <2>5. x.dev = o.d
      BY <2>3, <2>4, AfterSetPinDev DEF Fail, Session
    <2>6. PhyStep(t.dev, o.d) /\ KeyInv(o.d)
      BY <1>0, SetPinReplySteps, DeliverSteps
    <2>7. QED
      BY <2>5, <2>6 DEF Steps
  <1>3. QED
    BY <1>1, <1>2

LEMMA SetPinSteps ==
    ASSUME NEW s, Good(s), KeyInv(s.dev), NEW x \in set_pin(s)
    PROVE  Steps(s, x)
  <1>0. s \in Session
    BY DEF Good
  <1>1. CASE s.cp = NoProto /\ s.dev.protocols = {}
    BY <1>0, <1>1, UnchRefl DEF set_pin, Steps, Session
  <1>2. CASE ~(s.cp = NoProto /\ s.dev.protocols = {})
    <2> DEFINE t == [s EXCEPT !.cp = IF s.cp = NoProto
                                     THEN Negotiate(s.dev.protocols) ELSE s.cp]
    <2>1. t \in Session /\ t.dev = s.dev
      BY <1>0 DEF Session, Negotiate, Protocols
    <2>2. x \in ChangePath(t) \/ x \in SetPath(t)
      BY <1>2 DEF set_pin
    <2> HIDE DEF t
    <2>3. KeyInv(t.dev)
      BY <2>1
    <2>4. CASE x \in ChangePath(t)
      <3>1. Keeps(t, x)
        BY <2>1, <2>3, <2>4, ChangePathKeeps
      <3>2. QED
        BY <2>1, <3>1 DEF Keeps, Steps, PhyStep
    <2>5. CASE x \in SetPath(t)
      <3>1. Steps(t, x)
        BY <2>1, <2>3, <2>5, SetPathSteps
      <3>2. QED
        BY <2>1, <3>1 DEF Steps
    <2>6. QED
      BY <2>2, <2>4, <2>5
  <1>3. QED
    BY <1>1, <1>2

\* reset_device: the reset is the one step; the refresh after it reads.
LEMMA ResetDeviceSteps ==
    ASSUME NEW s, Good(s), KeyInv(s.dev), NEW x \in reset_device(s)
    PROVE  Steps(s, x)
  <1>0. s \in Session /\ s.dev \in DevState
    BY DEF Good, Session
  <1>1. PICK o \in UNION {Deliver(s.dev, ResetReply(s.dev, pressed)) : pressed \in BOOLEAN} :
          x \in IF o.ok THEN AfterReset(s, o.d) ELSE {Fail(s, o.d)}
    BY DEF reset_device
  <1>2. PICK pressed \in BOOLEAN : o \in Deliver(s.dev, ResetReply(s.dev, pressed))
    BY <1>1
  <1>3. x.dev = o.d
    BY <1>0, <1>1, AfterResetDev DEF Fail, Session
  <1>4. PhyStep(s.dev, o.d) /\ KeyInv(o.d)
    BY <1>0, <1>2, ResetReplySteps, DeliverSteps
  <1>5. QED
    BY <1>3, <1>4 DEF Steps

-----------------------------------------------------------------------------
(* The menu's value checks admit only values of the section 6 table.      *)

LEMMA InRangeAllowed ==
    ASSUME NEW q \in Params \ {"PHY_VIDPID"}, NEW w \in Int, InRange(q, w)
    PROVE  SpecRange(q, w)
  <1>1. q \in {"PHY_UP_BTN", "PHY_LED_GPIO", "PHY_LED_BTNESS", "PHY_OPTS"}
    BY DEF Params
  <1>2. CASE q = "PHY_UP_BTN"
    BY <1>2 DEF InRange, SpecRange, Phy!Allowed
  <1>3. CASE q = "PHY_LED_GPIO"
    BY <1>3 DEF InRange, SpecRange, Phy!Allowed
  <1>4. CASE q = "PHY_LED_BTNESS"
    BY <1>4 DEF InRange, SpecRange, Phy!Allowed
  <1>5. CASE q = "PHY_OPTS"
    BY <1>5 DEF InRange, SpecRange, Phy!Allowed
  <1>6. QED
    BY <1>1, <1>2, <1>3, <1>4, <1>5

LEMMA VidPidAllowed ==
    ASSUME NEW hi \in Int, NEW lo \in Int, VidPidValid(hi, lo)
    PROVE  SpecRange("PHY_VIDPID", VidPidValue(hi, lo))
  <1>1. 0 <= hi /\ hi <= 65535 /\ 0 <= lo /\ lo <= 65535
    BY DEF VidPidValid
  <1>2. hi * 65536 + lo >= 0 /\ (hi * 65536 + lo) \div 65536 <= 65535
    BY <1>1
  <1>3. QED
    BY <1>2 DEF SpecRange, Phy!Allowed, VidPidValue

-----------------------------------------------------------------------------
(* Every step of the tool and the key is an abstract step or a stutter.   *)

LEMMA InitRInv == Init => RInv
  <1> SUFFICES ASSUME Init PROVE RInv
    OBVIOUS
  <1>1. IInv
    BY InitIInv
  <1>2. dev.token = NoToken /\ dev.config = [q \in Params |-> NoValue]
    BY DEF Init, DevInit
  <1>3. QED
    BY <1>1, <1>2 DEF RInv, KeyInv, ConfigInRange

LEMMA NextStep == RInv /\ [Next]_vars => PhyStep(dev, dev') /\ KeyInv(dev')
  <1> SUFFICES ASSUME RInv, [Next]_vars PROVE PhyStep(dev, dev') /\ KeyInv(dev')
    OBVIOUS
  <1>0. /\ Good(Current) /\ KeyInv(Current.dev) /\ Current.dev = dev
        /\ dev \in DevState
    BY CurrentGood DEF RInv, IInv, TypeOK, Current
  <1>1. CASE UNCHANGED dev
    BY <1>0, <1>1, UnchRefl
  <1>2. ASSUME NEW s, Steps(Current, s), Assign(s)
        PROVE  PhyStep(dev, dev') /\ KeyInv(dev')
    BY <1>0, <1>2 DEF Steps, Assign
  <1>3. ASSUME NEW p \in Params \ {"PHY_VIDPID"}, ConfigureParam(p)
        PROVE  PhyStep(dev, dev') /\ KeyInv(dev')
    <2>1. PICK v \in Inputs[p] :
            InRange(p, v) /\ \E s \in send_config_command(Current, p, v) : Assign(s)
      BY <1>3 DEF ConfigureParam
    <2>2. v \in Int /\ SpecRange(p, v)
      BY <2>1, InRangeAllowed
    <2>3. QED
      BY <1>0, <1>2, <2>1, <2>2, SendConfigSteps
  <1>4. CASE ConfigureVidPid
    <2>1. PICK vp \in VidPidInputs :
            /\ VidPidValid(vp[1], vp[2])
            /\ \E s \in send_config_command(Current, "PHY_VIDPID",
                                            VidPidValue(vp[1], vp[2])) : Assign(s)
      BY <1>4 DEF ConfigureVidPid
    <2>2. /\ VidPidValue(vp[1], vp[2]) \in Int
          /\ SpecRange("PHY_VIDPID", VidPidValue(vp[1], vp[2]))
          /\ "PHY_VIDPID" \in Params
      BY <2>1, VidPidAllowed DEF VidPidValue, Params
    <2>3. QED
      BY <1>0, <1>2, <2>1, <2>2, SendConfigSteps
  <1>5. CASE StartupPrompt \/ SetupPin
    <2>1. CASE \E s \in set_pin(Current) : Assign(s)
      BY <1>0, <1>2, <2>1, SetPinSteps
    <2>2. QED
      BY <1>1, <1>5, <2>1 DEF StartupPrompt, SetupPin
  <1>6. CASE FactoryReset
    BY <1>0, <1>2, <1>6, ResetDeviceSteps DEF FactoryReset
  <1>7. CASE DeviceStep \/ Replug
    <2>1. Unch(dev, dev') /\ KeyInv(dev')
      BY <1>0, <1>7 DEF DeviceStep, WindowCloses, TokenExpires, Replug, PowerCycle,
                        Unch, KeyInv, DevState
    <2>2. QED
      BY <2>1 DEF PhyStep
  <1>8. QED
    <2>1. /\ "PHY_UP_BTN" \in Params \ {"PHY_VIDPID"}
          /\ "PHY_LED_GPIO" \in Params \ {"PHY_VIDPID"}
          /\ "PHY_LED_BTNESS" \in Params \ {"PHY_VIDPID"}
          /\ "PHY_OPTS" \in Params \ {"PHY_VIDPID"}
      BY DEF Params
    <2>2. UNCHANGED vars => UNCHANGED dev
      BY DEF vars
    <2>3. QED
      BY <1>1, <1>3, <1>4, <1>5, <1>6, <1>7, <2>1, <2>2
         DEF Next, FindDevice, Quit, ConfigureButtonTimeout, ConfigureLedGpio,
             ConfigureLedBrightness, ConfigurePhyOptions

LEMMA NextRInv == RInv /\ [Next]_vars => RInv'
  <1> SUFFICES ASSUME RInv, [Next]_vars PROVE RInv'
    OBVIOUS
  <1>1. IInv'
    BY NextIInv DEF RInv
  <1>2. PhyStep(dev, dev') /\ KeyInv(dev')
    BY NextStep
  <1>3. dev \in DevState /\ dev' \in DevState
    BY <1>1 DEF RInv, IInv, TypeOK
  <1>4. ConfigInRange'
    BY <1>2, <1>3, StepInRange DEF RInv, ConfigInRange
  <1>5. QED
    BY <1>1, <1>2, <1>4 DEF RInv

-----------------------------------------------------------------------------
(* The theorems.                                                           *)

\* The tool and the key implement PhySettings: whatever the user types and
\* whichever exchange the transport loses, a setting is written only with a
\* value of the spec's table while a PIN is set, a PIN is set only where
\* none was, and a reset erases everything only when PHY_OPTS allows it
\* (send_config_command, set_pin, reset_device and the menu's checks).
THEOREM Refinement == Spec => PhySettingsRefined
  <1>1. Init => Phy!Init
    BY DEF Init, DevInit, Phy!Init, Phy!Default
  <1>2. RInv /\ [Next]_vars => [Phy!Next]_Phy!vars
    BY NextStep, StepRefines
  <1>3. QED
    BY <1>1, <1>2, InitRInv, NextRInv, PTL DEF Spec, PhySettingsRefined, Phy!Spec

\* Every PHY setting the key holds lies in the range of the spec's table,
\* for every set of user inputs: the menu's checks (configure_* and
\* configure_vidpid) are enough, on every path of send_config_command.
THEOREM ConfigSafe == Spec => []ConfigInRange
  <1>1. RInv => ConfigInRange
    BY DEF RInv
  <1>2. QED
    BY <1>1, InitRInv, NextRInv, PTL DEF Spec

=============================================================================
