------------------------ MODULE CommissionerSessionProofs ------------------------
(***************************************************************************)
(* Proofs, for every value of the constants, of what the tool promises    *)
(* about one menu action and about its cached session:                    *)
(*   RetryBound     Spec => OneRetryPerStep                                *)
(*   ResetRefusal   Spec => ResetRefusalClean                              *)
(*   InfoFresh      ~Lossy => (Spec => []InfoPinCurrent)                   *)
(*                                                                         *)
(* The two action properties hold of every step from a state of IInv, so  *)
(* they follow from the invariant of CommissionerProofs.  Each handler is  *)
(* followed down to the replies of the key, as in CommissionerRefinement: *)
(* a handler makes at most one exchange that can cost a PIN retry, and a  *)
(* reset the key did not carry out leaves the session alone.              *)
(*                                                                         *)
(* InfoPinCurrent is not inductive: it says nothing of the startup prompt,*)
(* and set_pin, run from that prompt, decides on the cached info.  The    *)
(* invariant FreshInv extends it to the prompt; with RInv (the key holds  *)
(* a token only while it has a PIN) it is inductive when no exchange      *)
(* fails.                                                                  *)
(***************************************************************************)
EXTENDS CommissionerRefinement

USE AuthenticatorAssumption, CommissionerAssumption

\* The device went from d to e losing at most one PIN retry, or none.
RetryCost(d, e) == e.retries >= d.retries - 1
NoRetryCost(d, e) == e.retries >= d.retries

\* A session whose cached clientPin option is the device's.
Coherent(s) ==
    /\ s.info \in [clientPin : BOOLEAN]
    /\ s.info.clientPin = (s.dev.pin # NoPin)

\* InfoPinCurrent, extended to the startup prompt that runs set_pin on the
\* info find_device fetched.
FreshInv ==
    phase \in {"prompt", "menu"} =>
        /\ info \in [clientPin : BOOLEAN]
        /\ info.clientPin = (dev.pin # NoPin)

SInv == RInv /\ FreshInv

-----------------------------------------------------------------------------
(* What the key's replies do to the retry counter.                         *)

LEMMA CostRefl ==
    ASSUME NEW d \in DevState
    PROVE  RetryCost(d, d) /\ NoRetryCost(d, d)
  BY DEF RetryCost, NoRetryCost, DevState

\* A lost exchange leaves the device before or after the reply.
LEMMA DeliverCost ==
    ASSUME NEW d \in DevState, NEW r, NEW o \in Deliver(d, r)
    PROVE  /\ RetryCost(d, r.d) => RetryCost(d, o.d)
           /\ NoRetryCost(d, r.d) => NoRetryCost(d, o.d)
  BY DeliverDev, CostRefl

\* A token request with a wrong PIN costs one retry; a right one refills.
LEMMA GetPinTokenReplyCost ==
    ASSUME NEW d \in DevState, NEW pin, NEW pr
    PROVE  RetryCost(d, GetPinTokenReply(d, pin, pr).d)
  <1>1. CASE d.pin = NoPin \/ d.retries = 0
    BY <1>1 DEF GetPinTokenReply, Reply, RetryCost, DevState
  <1>2. CASE ~(d.pin = NoPin \/ d.retries = 0) /\ pin # d.pin
    BY <1>2 DEF GetPinTokenReply, Reply, RetryCost, DevState
  <1>3. CASE ~(d.pin = NoPin \/ d.retries = 0) /\ pin = d.pin
    <2>1. GetPinTokenReply(d, pin, pr).d.retries = MaxRetries
      BY <1>3 DEF GetPinTokenReply, Reply, DevState
    <2>2. QED
      BY <2>1 DEF RetryCost, DevState
  <1>4. QED
    BY <1>1, <1>2, <1>3

\* changePIN checks the current PIN once: a wrong one costs one retry.
LEMMA ChangePinReplyCost ==
    ASSUME NEW d \in DevState, NEW old, NEW new
    PROVE  RetryCost(d, ChangePinReply(d, old, new).d)
  <1>1. CASE d.pin = NoPin \/ d.retries = 0
    BY <1>1 DEF ChangePinReply, Reply, RetryCost, DevState
  <1>2. CASE ~(d.pin = NoPin \/ d.retries = 0) /\ old # d.pin
    BY <1>2 DEF ChangePinReply, Reply, RetryCost, DevState
  <1>3. CASE ~(d.pin = NoPin \/ d.retries = 0) /\ old = d.pin /\ ~PinPolicyOK(new)
    BY <1>3 DEF ChangePinReply, Reply, RetryCost, DevState
  <1>4. CASE ~(d.pin = NoPin \/ d.retries = 0) /\ old = d.pin /\ PinPolicyOK(new)
    <2>1. ChangePinReply(d, old, new).d.retries = MaxRetries
      BY <1>4 DEF ChangePinReply, Reply, DevState
    <2>2. QED
      BY <2>1 DEF RetryCost, DevState
  <1>5. QED
    BY <1>1, <1>2, <1>3, <1>4

\* setPIN, authenticatorReset and authenticatorConfig check no PIN.
LEMMA SetPinReplyFree ==
    ASSUME NEW d \in DevState, NEW new
    PROVE  NoRetryCost(d, SetPinReply(d, new).d)
  BY DEF SetPinReply, Reply, NoRetryCost, DevState

LEMMA ResetReplyFree ==
    ASSUME NEW d \in DevState, NEW pressed
    PROVE  NoRetryCost(d, ResetReply(d, pressed).d)
  <1>1. Erase(d).retries = MaxRetries
    BY DEF Erase
  <1>2. QED
    BY <1>1 DEF ResetReply, Reply, NoRetryCost, DevState

LEMMA ConfigReplyFree ==
    ASSUME NEW d \in DevState, NEW p \in Params, NEW v, NEW tok, NEW pr
    PROVE  NoRetryCost(d, ConfigReply(d, p, v, tok, pr).d)
  BY DEF ConfigReply, Reply, NoRetryCost, DevState

-----------------------------------------------------------------------------
(* The handlers: at most one exchange of a menu action can cost a retry.  *)

\* get_pin_token makes one token request.
LEMMA GetPinTokenCost ==
    ASSUME NEW s \in Session, NEW x \in get_pin_token(s)
    PROVE  RetryCost(s.dev, x.dev)
  <1>0. s.dev \in DevState
    BY DEF Session
  <1>1. CASE ~s.info.clientPin \/ s.dev.protocols = {}
    <2>1. x.dev = s.dev
      BY <1>1 DEF get_pin_token, Session
    <2>2. QED
      BY <1>0, <2>1, CostRefl
  <1>2. CASE ~(~s.info.clientPin \/ s.dev.protocols = {}) /\ ~CanIssue(s.dev)
    BY <1>2 DEF get_pin_token
  <1>3. CASE ~(~s.info.clientPin \/ s.dev.protocols = {}) /\ CanIssue(s.dev)
    <2> DEFINE cp == Negotiate(s.dev.protocols)
               t == [s EXCEPT !.cp = cp, !.pp = ProtocolOf(cp)]
               Os == UNION {Deliver(t.dev, GetPinTokenReply(t.dev, pin, cp)) :
                              pin \in Pins}
               F(o) == [t EXCEPT !.dev = o.d, !.ok = o.ok,
                                 !.tok = IF o.ok THEN o.d.token ELSE t.tok]
    <2>1. t \in Session /\ t.dev = s.dev
      BY DEF Session, Negotiate, Protocols, ProtocolOf
    <2>2. get_pin_token(s) = {F(o) : o \in Os}
      BY <1>3 DEF get_pin_token
    <2> HIDE DEF cp, t
    <2>3. PICK o \in Os : x = F(o)
      BY <2>2
    <2>4. x.dev = o.d
      BY <2>1, <2>3 DEF Session
    <2>5. PICK pin \in Pins : o \in Deliver(s.dev, GetPinTokenReply(s.dev, pin, cp))
      BY <2>1, <2>3
    <2>6. QED
      BY <1>0, <2>4, <2>5, GetPinTokenReplyCost, DeliverCost
  <1>4. QED
    BY <1>1, <1>2, <1>3

\* The configuration exchange sends no PIN.
LEMMA DispatchFree ==
    ASSUME NEW a \in Session, NEW p \in Params, NEW v, NEW x \in Dispatch(a, p, v)
    PROVE  NoRetryCost(a.dev, x.dev)
  <1> DEFINE r == ConfigReply(a.dev, p, v, a.tok, a.pp)
             G(o) == [a EXCEPT !.dev = o.d, !.ok = o.ok,
                               !.tok = IF o.ok THEN a.tok ELSE NoToken,
                               !.refused = IF r.ok THEN a.refused
                                           ELSE a.refused \cup {a.tok}]
  <1>0. a.dev \in DevState
    BY DEF Session
  <1>1. Dispatch(a, p, v) = {G(o) : o \in Deliver(a.dev, r)}
    BY DEF Dispatch
  <1>2. NoRetryCost(a.dev, r.d)
    BY <1>0, ConfigReplyFree
  <1> HIDE DEF G, r
  <1>3. PICK o \in Deliver(a.dev, r) : x = G(o)
    BY <1>1
  <1>4. x.dev = o.d
    BY <1>3 DEF G, Session
  <1>5. QED
    BY <1>0, <1>2, <1>4, DeliverCost

\* send_config_command: at most one token request, then the command.
LEMMA SendConfigCost ==
    ASSUME NEW s, Good(s), NEW p \in Params, NEW v \in Int,
           NEW x \in send_config_command(s, p, v)
    PROVE  RetryCost(s.dev, x.dev)
  <1> DEFINE authed == IF s.tok # NoToken THEN {s} ELSE get_pin_token(s)
  <1>0. s \in Session /\ s.dev \in DevState
    BY DEF Good, Session
  <1>1. \A a \in authed : /\ Good(a) /\ a \in Session /\ a.dev \in DevState
                          /\ RetryCost(s.dev, a.dev) /\ (a.ok => a.tok # NoToken)
    <2>1. CASE s.tok # NoToken
      BY <1>0, <2>1, CostRefl
    <2>2. CASE s.tok = NoToken
      BY <1>0, <2>2, GetPinTokenCost, GetPinTokenOK DEF Good, Session
    <2>3. QED
      BY <2>1, <2>2
  <1>2. send_config_command(s, p, v) =
          {a \in authed : ~a.ok} \cup UNION {Dispatch(a, p, v) : a \in {b \in authed : b.ok}}
    BY DEF send_config_command
  <1> HIDE DEF authed
  <1>3. CASE x \in {a \in authed : ~a.ok}
    BY <1>1, <1>3
  <1>4. CASE x \in UNION {Dispatch(a, p, v) : a \in {b \in authed : b.ok}}
    <2>1. PICK a \in authed : a.ok /\ x \in Dispatch(a, p, v)
      BY <1>4
    <2>2. NoRetryCost(a.dev, x.dev) /\ RetryCost(s.dev, a.dev) /\ a.dev \in DevState
      BY <1>1, <2>1, DispatchFree
    <2>3. x.dev \in DevState
      BY <1>1, <2>1, DispatchOK DEF Good, Session
    <2>4. QED
      BY <1>0, <2>2, <2>3 DEF RetryCost, NoRetryCost, DevState
  <1>5. QED
    BY <1>2, <1>3, <1>4

\* set_pin's change path: one changePIN.
LEMMA ChangePathCost ==
    ASSUME NEW t \in Session, NEW x \in ChangePath(t)
    PROVE  RetryCost(t.dev, x.dev)
  <1>0. t.dev \in DevState
    BY DEF Session
  <1>1. CASE x = [t EXCEPT !.ok = FALSE]
    BY <1>0, <1>1, CostRefl DEF Session
  <1>2. CASE x # [t EXCEPT !.ok = FALSE]
    <2> DEFINE H(o, nw) == [t EXCEPT !.dev = o.d, !.ok = o.ok,
                                     !.tok = IF o.ok THEN NoToken ELSE t.tok,
                                     !.bad = t.bad \/ ~PinPolicyOK(nw)]
               C(od, nw) == {H(o, nw) : o \in Deliver(t.dev, ChangePinReply(t.dev, od, nw))}
               D(od, nw) == IF PinLen[nw] < 4 THEN {[t EXCEPT !.ok = FALSE]} ELSE C(od, nw)
    <2>1. x \in UNION {UNION {D(od, nw) : nw \in Pins} : od \in Pins}
      BY <1>2 DEF ChangePath
    <2> HIDE DEF H
    <2>2. PICK old \in Pins, new \in Pins : x \in C(old, new)
      <3>1. PICK old \in Pins : x \in UNION {D(old, nw) : nw \in Pins}
        BY <2>1
      <3>2. PICK new \in Pins : x \in D(old, new)
        BY <3>1
      <3>3. x \in C(old, new)
        BY <1>2, <3>2
      <3>4. QED
        BY <3>3
    <2>3. PICK o \in Deliver(t.dev, ChangePinReply(t.dev, old, new)) : x = H(o, new)
      BY <2>2
    <2>4. x.dev = o.d
      BY <2>3 DEF H, Session
    <2>5. QED
      BY <1>0, <2>3, <2>4, ChangePinReplyCost, DeliverCost
  <1>3. QED
    BY <1>1, <1>2

\* set_pin's set path: setPIN sends no current PIN.
LEMMA SetPathFree ==
    ASSUME NEW t \in Session, NEW x \in SetPath(t)
    PROVE  NoRetryCost(t.dev, x.dev)
  <1>0. t.dev \in DevState
    BY DEF Session
  <1>1. CASE x = [t EXCEPT !.ok = FALSE]
    BY <1>0, <1>1, CostRefl DEF Session
  <1>2. CASE x # [t EXCEPT !.ok = FALSE]
    <2>1. PICK new \in Pins :
            x \in IF PinLen[new] < 4
                  THEN {[t EXCEPT !.ok = FALSE]}
                  ELSE LET u == [t EXCEPT !.bad = t.bad \/ ~PinPolicyOK(new)]
                       IN  UNION {IF o.ok THEN AfterSetPin(u, o.d) ELSE {Fail(u, o.d)} :
                                    o \in Deliver(u.dev, SetPinReply(u.dev, new))}
      BY <1>2 DEF SetPath
    <2>2. ~(PinLen[new] < 4)
      BY <1>2, <2>1
    <2> DEFINE u == [t EXCEPT !.bad = t.bad \/ ~PinPolicyOK(new)]
    <2>3. u \in Session /\ u.dev = t.dev
      BY DEF Session
    <2>4. PICK o \in Deliver(t.dev, SetPinReply(t.dev, new)) :
            x \in IF o.ok THEN AfterSetPin(u, o.d) ELSE {Fail(u, o.d)}
      BY <2>1, <2>2, <2>3
    <2> HIDE DEF u
    <2>5. x.dev = o.d
      BY <2>3, <2>4, AfterSetPinDev DEF Fail, Session
    <2>6. QED
      BY <1>0, <2>4, <2>5, SetPinReplyFree, DeliverCost
  <1>3. QED
    BY <1>1, <1>2

LEMMA SetPinCost ==
    ASSUME NEW s, Good(s), NEW x \in set_pin(s)
    PROVE  RetryCost(s.dev, x.dev)
  <1>0. s \in Session /\ s.dev \in DevState /\ x.dev \in DevState
    BY SetPinOK DEF Good, Session
  <1>1. CASE s.cp = NoProto /\ s.dev.protocols = {}
    BY <1>0, <1>1, CostRefl DEF set_pin, Session
  <1>2. CASE ~(s.cp = NoProto /\ s.dev.protocols = {})
    <2> DEFINE t == [s EXCEPT !.cp = IF s.cp = NoProto
                                     THEN Negotiate(s.dev.protocols) ELSE s.cp]
    <2>1. t \in Session /\ t.dev = s.dev
      BY <1>0 DEF Session, Negotiate, Protocols
    <2>2. x \in ChangePath(t) \/ x \in SetPath(t)
      BY <1>2 DEF set_pin
    <2> HIDE DEF t
    <2>3. QED
      BY <1>0, <2>1, <2>2, ChangePathCost, SetPathFree DEF RetryCost, NoRetryCost, DevState
  <1>3. QED
    BY <1>1, <1>2

\* reset_device sends no PIN; the reset refills the counter.
LEMMA ResetDeviceFree ==
    ASSUME NEW s \in Session, NEW x \in reset_device(s)
    PROVE  NoRetryCost(s.dev, x.dev)
  <1>0. s.dev \in DevState
    BY DEF Session
  <1>1. PICK o \in UNION {Deliver(s.dev, ResetReply(s.dev, pressed)) : pressed \in BOOLEAN} :
          x \in IF o.ok THEN AfterReset(s, o.d) ELSE {Fail(s, o.d)}
    BY DEF reset_device
  <1>2. PICK pressed \in BOOLEAN : o \in Deliver(s.dev, ResetReply(s.dev, pressed))
    BY <1>1
  <1>3. x.dev = o.d
    BY <1>1, AfterResetDev DEF Fail, Session
  <1>4. QED
    BY <1>0, <1>2, <1>3, ResetReplyFree, DeliverCost

-----------------------------------------------------------------------------
(* With no exchange failing, every handler leaves a coherent session       *)
(* coherent.                                                               *)

\* A session whose info and PIN presence are those of a coherent one.
LEMMA CoherentKept ==
    ASSUME NEW s, NEW x, Coherent(s), x.info = s.info,
           x.dev.pin = NoPin <=> s.dev.pin = NoPin
    PROVE  Coherent(x)
  BY DEF Coherent

\* Over a reliable transport an exchange ends in its reply, or raises before
\* it reaches a key that was unplugged.
LEMMA DeliverReliable ==
    ASSUME ~Lossy, NEW d, NEW r, NEW o \in Deliver(d, r)
    PROVE  o = r \/ o = Reply(d, FALSE)
  BY DEF Deliver

\* ... so a failed exchange whose reply fails without acting leaves the key.
LEMMA FailedKeeps ==
    ASSUME ~Lossy, NEW d, NEW r, r.ok = FALSE => r.d = d,
           NEW o \in Deliver(d, r), ~o.ok
    PROVE  o.d = d
  BY DeliverReliable DEF Reply

\* Over a reliable transport, the getInfo refreshes after setPIN and after
\* a reset always succeed.
LEMMA AfterSetPinReliable ==
    ASSUME ~Lossy, NEW t \in Session, NEW d, NEW x \in AfterSetPin(t, d)
    PROVE  x.dev = d /\ x.info = Info(d)
  BY DEF AfterSetPin, Session

LEMMA AfterResetReliable ==
    ASSUME ~Lossy, NEW s \in Session, NEW d, NEW x \in AfterReset(s, d)
    PROVE  x.dev = d /\ x.info = Info(d)
  BY DEF AfterReset, Session

LEMMA InfoCoherent ==
    ASSUME NEW x, x.info = Info(x.dev)
    PROVE  Coherent(x)
  BY DEF Info, Coherent

LEMMA GetPinTokenInfo ==
    ASSUME NEW s \in Session, NEW x \in get_pin_token(s)
    PROVE  x.info = s.info
  <1>1. CASE ~s.info.clientPin \/ s.dev.protocols = {}
    BY <1>1 DEF get_pin_token, Session
  <1>2. CASE ~(~s.info.clientPin \/ s.dev.protocols = {}) /\ ~CanIssue(s.dev)
    BY <1>2 DEF get_pin_token
  <1>3. CASE ~(~s.info.clientPin \/ s.dev.protocols = {}) /\ CanIssue(s.dev)
    <2> DEFINE cp == Negotiate(s.dev.protocols)
               t == [s EXCEPT !.cp = cp, !.pp = ProtocolOf(cp)]
               Os == UNION {Deliver(t.dev, GetPinTokenReply(t.dev, pin, cp)) :
                              pin \in Pins}
               F(o) == [t EXCEPT !.dev = o.d, !.ok = o.ok,
                                 !.tok = IF o.ok THEN o.d.token ELSE t.tok]
    <2>1. t \in Session /\ t.info = s.info
      BY DEF Session, Negotiate, Protocols, ProtocolOf
    <2>2. get_pin_token(s) = {F(o) : o \in Os}
      BY <1>3 DEF get_pin_token
    <2> HIDE DEF cp, t
    <2>3. PICK o \in Os : x = F(o)
      BY <2>2
    <2>4. QED
      BY <2>1, <2>3 DEF Session
  <1>4. QED
    BY <1>1, <1>2, <1>3

LEMMA GetPinTokenCoherent ==
    ASSUME NEW s, Good(s), KeyInv(s.dev), Coherent(s), NEW x \in get_pin_token(s)
    PROVE  Coherent(x)
  BY GetPinTokenKeeps, GetPinTokenInfo, CoherentKept DEF Keeps, Unch, Good

\* authenticatorConfig changes a setting and never the PIN.
LEMMA DispatchCoherent ==
    ASSUME NEW a \in Session, Coherent(a), NEW p \in Params, NEW v,
           NEW x \in Dispatch(a, p, v)
    PROVE  Coherent(x)
  <1> DEFINE r == ConfigReply(a.dev, p, v, a.tok, a.pp)
             G(o) == [a EXCEPT !.dev = o.d, !.ok = o.ok,
                               !.tok = IF o.ok THEN a.tok ELSE NoToken,
                               !.refused = IF r.ok THEN a.refused
                                           ELSE a.refused \cup {a.tok}]
  <1>0. a.dev \in DevState
    BY DEF Session
  <1>1. Dispatch(a, p, v) = {G(o) : o \in Deliver(a.dev, r)}
    BY DEF Dispatch
  <1>2. r.d.pin = a.dev.pin
    BY <1>0 DEF ConfigReply, Reply, DevState
  <1> HIDE DEF G, r
  <1>3. PICK o \in Deliver(a.dev, r) : x = G(o)
    BY <1>1
  <1>4. x.dev = o.d /\ x.info = a.info
    BY <1>3 DEF G, Session
  <1>5. o.d = a.dev \/ o.d = r.d
    BY DeliverDev
  <1>6. QED
    BY <1>2, <1>4, <1>5, CoherentKept

LEMMA SendConfigCoherent ==
    ASSUME NEW s, Good(s), KeyInv(s.dev), Coherent(s), NEW p \in Params, NEW v,
           NEW x \in send_config_command(s, p, v)
    PROVE  Coherent(x)
  <1> DEFINE authed == IF s.tok # NoToken THEN {s} ELSE get_pin_token(s)
  <1>1. \A a \in authed : a \in Session /\ Coherent(a)
    <2>1. CASE s.tok # NoToken
      BY <2>1 DEF Good
    <2>2. CASE s.tok = NoToken
      BY <2>2, GetPinTokenCoherent, GetPinTokenOK DEF Good
    <2>3. QED
      BY <2>1, <2>2
  <1>2. send_config_command(s, p, v) =
          {a \in authed : ~a.ok} \cup UNION {Dispatch(a, p, v) : a \in {b \in authed : b.ok}}
    BY DEF send_config_command
  <1> HIDE DEF authed
  <1>3. CASE x \in {a \in authed : ~a.ok}
    BY <1>1, <1>3
  <1>4. CASE x \in UNION {Dispatch(a, p, v) : a \in {b \in authed : b.ok}}
    <2>1. PICK a \in authed : a.ok /\ x \in Dispatch(a, p, v)
      BY <1>4
    <2>2. QED
      BY <1>1, <2>1, DispatchCoherent
  <1>5. QED
    BY <1>2, <1>3, <1>4

\* change_pin replaces a PIN by a PIN: the cached option stays right.
LEMMA ChangePathCoherent ==
    ASSUME NEW t \in Session, KeyInv(t.dev), Coherent(t), NEW x \in ChangePath(t)
    PROVE  Coherent(x)
  <1>1. x.info = t.info
    <2>1. CASE x = [t EXCEPT !.ok = FALSE]
      BY <2>1 DEF Session
    <2>2. CASE x # [t EXCEPT !.ok = FALSE]
      <3> DEFINE H(o, nw) == [t EXCEPT !.dev = o.d, !.ok = o.ok,
                                       !.tok = IF o.ok THEN NoToken ELSE t.tok,
                                       !.bad = t.bad \/ ~PinPolicyOK(nw)]
                 C(od, nw) == {H(o, nw) : o \in Deliver(t.dev, ChangePinReply(t.dev, od, nw))}
                 D(od, nw) == IF PinLen[nw] < 4 THEN {[t EXCEPT !.ok = FALSE]} ELSE C(od, nw)
      <3>1. x \in UNION {UNION {D(od, nw) : nw \in Pins} : od \in Pins}
        BY <2>2 DEF ChangePath
      <3> HIDE DEF H
      <3>2. PICK old \in Pins, new \in Pins : x \in C(old, new)
        <4>1. PICK old \in Pins : x \in UNION {D(old, nw) : nw \in Pins}
          BY <3>1
        <4>2. PICK new \in Pins : x \in D(old, new)
          BY <4>1
        <4>3. x \in C(old, new)
          BY <2>2, <4>2
        <4>4. QED
          BY <4>3
      <3>3. PICK o \in Deliver(t.dev, ChangePinReply(t.dev, old, new)) : x = H(o, new)
        BY <3>2
      <3>4. QED
        BY <3>3 DEF H, Session
    <2>3. QED
      BY <2>1, <2>2
  <1>2. QED
    BY <1>1, ChangePathKeeps, CoherentKept DEF Keeps, Unch

\* setPIN either acts and the info is fetched again, or fails without
\* acting.
LEMMA SetPathCoherent ==
    ASSUME ~Lossy, NEW t \in Session, Coherent(t), NEW x \in SetPath(t)
    PROVE  Coherent(x)
  <1>0. t.dev \in DevState
    BY DEF Session
  <1>1. CASE x = [t EXCEPT !.ok = FALSE]
    BY <1>1, CoherentKept DEF Session
  <1>2. CASE x # [t EXCEPT !.ok = FALSE]
    <2>1. PICK new \in Pins :
            x \in IF PinLen[new] < 4
                  THEN {[t EXCEPT !.ok = FALSE]}
                  ELSE LET u == [t EXCEPT !.bad = t.bad \/ ~PinPolicyOK(new)]
                       IN  UNION {IF o.ok THEN AfterSetPin(u, o.d) ELSE {Fail(u, o.d)} :
                                    o \in Deliver(u.dev, SetPinReply(u.dev, new))}
      BY <1>2 DEF SetPath
    <2>2. ~(PinLen[new] < 4)
      BY <1>2, <2>1
    <2> DEFINE u == [t EXCEPT !.bad = t.bad \/ ~PinPolicyOK(new)]
               r == SetPinReply(t.dev, new)
    <2>3. u \in Session /\ u.dev = t.dev /\ u.info = t.info
      BY DEF Session
    <2>4. PICK o \in Deliver(t.dev, r) :
            x \in IF o.ok THEN AfterSetPin(u, o.d) ELSE {Fail(u, o.d)}
      BY <2>1, <2>2, <2>3
    <2>5. r.ok = FALSE => r.d = t.dev
      BY DEF SetPinReply, Reply
    <2> HIDE DEF u, r
    <2>6. CASE o.ok
      BY <2>3, <2>4, <2>6, AfterSetPinReliable, InfoCoherent
    <2>7. CASE ~o.ok
      <3>1. o.d = t.dev
        BY <2>5, <2>7, FailedKeeps
      <3>2. x.dev = t.dev /\ x.info = t.info
        BY <2>3, <2>4, <2>7, <3>1 DEF Fail, Session
      <3>3. QED
        BY <3>2, CoherentKept
    <2>8. QED
      BY <2>6, <2>7
  <1>3. QED
    BY <1>1, <1>2

LEMMA SetPinCoherent ==
    ASSUME ~Lossy, NEW s \in Session, KeyInv(s.dev), Coherent(s), NEW x \in set_pin(s)
    PROVE  Coherent(x)
  <1>1. CASE s.cp = NoProto /\ s.dev.protocols = {}
    BY <1>1, CoherentKept DEF set_pin, Session
  <1>2. CASE ~(s.cp = NoProto /\ s.dev.protocols = {})
    <2> DEFINE t == [s EXCEPT !.cp = IF s.cp = NoProto
                                     THEN Negotiate(s.dev.protocols) ELSE s.cp]
    <2>1. t \in Session /\ t.dev = s.dev /\ t.info = s.info
      BY DEF Session, Negotiate, Protocols
    <2>2. Coherent(t) /\ KeyInv(t.dev)
      BY <2>1, CoherentKept
    <2>3. x \in ChangePath(t) \/ x \in SetPath(t)
      BY <1>2 DEF set_pin
    <2> HIDE DEF t
    <2>4. QED
      BY <2>1, <2>2, <2>3, ChangePathCoherent, SetPathCoherent
  <1>3. QED
    BY <1>1, <1>2

\* A reset either erases the key and the info is fetched again, or fails
\* without acting.
LEMMA ResetDeviceCoherent ==
    ASSUME ~Lossy, NEW s \in Session, Coherent(s), NEW x \in reset_device(s)
    PROVE  Coherent(x)
  <1>1. PICK o \in UNION {Deliver(s.dev, ResetReply(s.dev, pressed)) : pressed \in BOOLEAN} :
          x \in IF o.ok THEN AfterReset(s, o.d) ELSE {Fail(s, o.d)}
    BY DEF reset_device
  <1>2. PICK pressed \in BOOLEAN : o \in Deliver(s.dev, ResetReply(s.dev, pressed))
    BY <1>1
  <1>3. CASE o.ok
    BY <1>1, <1>3, AfterResetReliable, InfoCoherent
  <1>4. CASE ~o.ok
    <2>1. ResetReply(s.dev, pressed).ok = FALSE => ResetReply(s.dev, pressed).d = s.dev
      BY DEF ResetReply, Reply
    <2>2. o.d = s.dev
      BY <1>2, <1>4, <2>1, FailedKeeps
    <2>3. x.dev = s.dev /\ x.info = s.info
      BY <1>1, <1>4, <2>2 DEF Fail, Session
    <2>4. QED
      BY <2>3, CoherentKept
  <1>5. QED
    BY <1>3, <1>4

\* At the startup prompt and at the menu the session is coherent.
LEMMA CurrentCoherent ==
    ASSUME FreshInv, phase \in {"prompt", "menu"}
    PROVE  Coherent(Current)
  BY DEF FreshInv, Coherent, Current

\* Over a reliable transport every step keeps FreshInv.
LEMMA NextFresh ==
    ASSUME ~Lossy, SInv, [Next]_vars
    PROVE  FreshInv'
  <1>0. /\ Good(Current) /\ Current \in Session /\ KeyInv(Current.dev)
        /\ Current.dev = dev /\ Current.info = info /\ dev \in DevState
    BY CurrentGood DEF SInv, RInv, IInv, TypeOK, Current, Good
  <1>1. ASSUME NEW s, Coherent(s), Assign(s)
        PROVE  FreshInv'
    BY <1>1 DEF Assign, Coherent, FreshInv
  <1>2. CASE FindDevice
    <2>1. CASE phase' = "exited"
      BY <2>1 DEF FreshInv
    <2>2. CASE info' = Info(dev) /\ dev' = dev
      BY <2>2 DEF FreshInv, Info
    <2>3. QED
      BY <1>2, <2>1, <2>2 DEF FindDevice
  <1>3. CASE StartupPrompt
    <2>1. Coherent(Current)
      BY <1>3, CurrentCoherent DEF StartupPrompt, SInv
    <2>2. CASE \E s \in set_pin(Current) : Assign(s)
      BY <1>0, <1>1, <2>1, <2>2, SetPinCoherent
    <2>3. CASE UNCHANGED <<dev, info, client_pin, pin_token, pin_protocol, refused, badPinSent,
                           linked>>
      BY <1>0, <2>1, <2>3 DEF Coherent, FreshInv
    <2>4. QED
      BY <1>3, <2>2, <2>3 DEF StartupPrompt
  <1>4. ASSUME NEW p \in Params \ {"PHY_VIDPID"}, ConfigureParam(p)
        PROVE  FreshInv'
    <2>1. Coherent(Current)
      BY <1>4, CurrentCoherent DEF ConfigureParam, SInv
    <2>2. PICK v \in Inputs[p] : \E s \in send_config_command(Current, p, v) : Assign(s)
      BY <1>4 DEF ConfigureParam
    <2>3. QED
      BY <1>0, <1>1, <2>1, <2>2, SendConfigCoherent
  <1>5. CASE ConfigureVidPid
    <2>1. Coherent(Current)
      BY <1>5, CurrentCoherent DEF ConfigureVidPid, SInv
    <2>2. PICK vp \in VidPidInputs :
            \E s \in send_config_command(Current, "PHY_VIDPID", VidPidValue(vp[1], vp[2])) :
              Assign(s)
      BY <1>5 DEF ConfigureVidPid
    <2>3. "PHY_VIDPID" \in Params
      BY DEF Params
    <2>4. QED
      BY <1>0, <1>1, <2>1, <2>2, <2>3, SendConfigCoherent
  <1>6. CASE SetupPin
    <2>1. Coherent(Current)
      BY <1>6, CurrentCoherent DEF SetupPin, SInv
    <2>2. QED
      BY <1>0, <1>1, <1>6, <2>1, SetPinCoherent DEF SetupPin
  <1>7. CASE FactoryReset
    <2>1. Coherent(Current)
      BY <1>7, CurrentCoherent DEF FactoryReset, SInv
    <2>2. QED
      BY <1>0, <1>1, <1>7, <2>1, ResetDeviceCoherent DEF FactoryReset
  <1>8. CASE Quit
    BY <1>8 DEF Quit, FreshInv
  <1>9. CASE DeviceStep \/ Replug
    <2>1. dev'.pin = dev.pin /\ UNCHANGED <<phase, info>>
      BY <1>0, <1>9 DEF DeviceStep, WindowCloses, TokenExpires, Replug, PowerCycle, DevState
    <2>2. QED
      BY <2>1 DEF SInv, FreshInv
  <1>10. CASE UNCHANGED vars
    BY <1>10 DEF vars, SInv, FreshInv
  <1>11. QED
    <2>1. /\ "PHY_UP_BTN" \in Params \ {"PHY_VIDPID"}
          /\ "PHY_LED_GPIO" \in Params \ {"PHY_VIDPID"}
          /\ "PHY_LED_BTNESS" \in Params \ {"PHY_VIDPID"}
          /\ "PHY_OPTS" \in Params \ {"PHY_VIDPID"}
      BY DEF Params
    <2>2. QED
      BY <1>2, <1>3, <1>4, <1>5, <1>6, <1>7, <1>8, <1>9, <1>10, <2>1
         DEF Next, ConfigureButtonTimeout, ConfigureLedGpio,
             ConfigureLedBrightness, ConfigurePhyOptions

\* Every step of the tool and the key costs at most one retry.
LEMMA NextRetry == IInv /\ [Next]_vars => RetryCost(dev, dev')
  <1> SUFFICES ASSUME IInv, [Next]_vars PROVE RetryCost(dev, dev')
    OBVIOUS
  <1>0. /\ Good(Current) /\ Current \in Session /\ Current.dev = dev
        /\ dev \in DevState /\ dev' \in DevState
    BY CurrentGood, NextIInv DEF IInv, TypeOK, Current, Good
  <1>1. CASE UNCHANGED dev
    BY <1>0, <1>1, CostRefl
  <1>2. ASSUME NEW s, RetryCost(Current.dev, s.dev), Assign(s)
        PROVE  RetryCost(dev, dev')
    BY <1>0, <1>2 DEF Assign
  <1>3. ASSUME NEW p \in Params \ {"PHY_VIDPID"}, ConfigureParam(p)
        PROVE  RetryCost(dev, dev')
    <2>1. PICK v \in Inputs[p] : \E s \in send_config_command(Current, p, v) : Assign(s)
      BY <1>3 DEF ConfigureParam
    <2>2. QED
      BY <1>0, <1>2, <2>1, SendConfigCost
  <1>4. CASE ConfigureVidPid
    <2>1. PICK vp \in VidPidInputs :
            \E s \in send_config_command(Current, "PHY_VIDPID", VidPidValue(vp[1], vp[2])) :
              Assign(s)
      BY <1>4 DEF ConfigureVidPid
    <2>2. VidPidValue(vp[1], vp[2]) \in Int /\ "PHY_VIDPID" \in Params
      BY DEF VidPidValue, Params
    <2>3. QED
      BY <1>0, <1>2, <2>1, <2>2, SendConfigCost
  <1>5. CASE StartupPrompt \/ SetupPin
    <2>1. CASE \E s \in set_pin(Current) : Assign(s)
      BY <1>0, <1>2, <2>1, SetPinCost
    <2>2. QED
      BY <1>1, <1>5, <2>1 DEF StartupPrompt, SetupPin
  <1>6. CASE FactoryReset
    <2>1. PICK s \in reset_device(Current) : Assign(s)
      BY <1>6 DEF FactoryReset
    <2>2. NoRetryCost(dev, dev')
      BY <1>0, <2>1, ResetDeviceFree DEF Assign
    <2>3. QED
      BY <1>0, <2>2 DEF RetryCost, NoRetryCost, DevState
  <1>7. CASE DeviceStep \/ Replug
    <2>1. dev'.retries = dev.retries
      BY <1>0, <1>7 DEF DeviceStep, WindowCloses, TokenExpires, Replug, PowerCycle, DevState
    <2>2. QED
      BY <1>0, <2>1 DEF RetryCost, DevState
  <1>8. QED
    <2>1. /\ "PHY_UP_BTN" \in Params \ {"PHY_VIDPID"}
          /\ "PHY_LED_GPIO" \in Params \ {"PHY_VIDPID"}
          /\ "PHY_LED_BTNESS" \in Params \ {"PHY_VIDPID"}
          /\ "PHY_OPTS" \in Params \ {"PHY_VIDPID"}
      BY DEF Params
    <2>2. UNCHANGED vars => UNCHANGED dev
      BY DEF vars
    <2>3. QED
      BY <1>1, <1>3, <1>4, <1>5, <1>6, <1>7, <2>1, <2>2
         DEF Next, FindDevice, Quit, ConfigureButtonTimeout, ConfigureLedGpio,
             ConfigureLedBrightness, ConfigurePhyOptions

\* A reset the key did not carry out leaves the session as it was: the key
\* answers authenticatorReset only by erasing itself or by refusing, and
\* every failure returns before lines 133-136.
LEMMA ResetDeviceRefused ==
    ASSUME NEW s \in Session, NEW x \in reset_device(s),
           x.dev = s.dev, s.dev # Erase(s.dev)
    PROVE  x.info = s.info /\ x.cp = s.cp /\ x.tok = s.tok /\ x.pp = s.pp
  <1>0. s.dev \in DevState
    BY DEF Session
  <1>1. PICK o \in UNION {Deliver(s.dev, ResetReply(s.dev, pressed)) : pressed \in BOOLEAN} :
          x \in IF o.ok THEN AfterReset(s, o.d) ELSE {Fail(s, o.d)}
    BY DEF reset_device
  <1>2. PICK pressed \in BOOLEAN : o \in Deliver(s.dev, ResetReply(s.dev, pressed))
    BY <1>1
  <1>3. o.ok => o.d = Erase(s.dev)
    <2>1. o.ok => o = ResetReply(s.dev, pressed)
      BY <1>0, <1>2, ResetReplyOK, DeliverOK DEF RepOK
    <2>2. ResetReply(s.dev, pressed).ok => ResetReply(s.dev, pressed).d = Erase(s.dev)
      BY DEF ResetReply, Reply
    <2>3. QED
      BY <2>1, <2>2
  <1>4. CASE o.ok
    <2>1. x.dev = Erase(s.dev)
      BY <1>1, <1>3, <1>4, AfterResetDev
    <2>2. QED
      BY <2>1
  <1>5. CASE ~o.ok
    BY <1>1, <1>5 DEF Fail, Session
  <1>6. QED
    BY <1>4, <1>5

-----------------------------------------------------------------------------
(* The theorems.                                                           *)

\* No menu action costs the key more than one PIN retry, for every retry
\* bound, every set of PINs and whichever exchanges fail: get_pin_token,
\* send_config_command and set_pin send the user's PIN at most once per
\* call (spec sections 4.2 and 7).
THEOREM RetryBound == Spec => OneRetryPerStep
  <1>1. IInv /\ [Next]_vars => [dev'.retries >= dev.retries - 1]_vars
    BY NextRetry DEF RetryCost
  <1>2. QED
    BY <1>1, InitIInv, NextIInv, PTL DEF Spec, OneRetryPerStep

\* A factory reset the key refused (outside the power-on window, without
\* the build flag, disabled by PHY_OPTS) or whose button press timed out
\* leaves the cached info, the ClientPin, the token and its protocol as
\* they were, on every path of reset_device, lossy or not (lines 130-155).
THEOREM ResetRefusal == Spec => ResetRefusalClean
  <1>1. IInv => [FactoryReset /\ dev' = dev /\ dev # Erase(dev)
                   => UNCHANGED <<info, client_pin, pin_token, pin_protocol>>]_vars
    <2> SUFFICES ASSUME IInv, FactoryReset, dev' = dev, dev # Erase(dev)
                 PROVE  UNCHANGED <<info, client_pin, pin_token, pin_protocol>>
      OBVIOUS
    <2>1. Current \in Session /\ Current.dev = dev
      BY CurrentGood DEF Good, Current
    <2>2. PICK s \in reset_device(Current) : Assign(s)
      BY DEF FactoryReset
    <2>3. s.dev = Current.dev
      BY <2>1, <2>2 DEF Assign
    <2>4. /\ s.info = Current.info /\ s.cp = Current.cp
          /\ s.tok = Current.tok /\ s.pp = Current.pp
      BY <2>1, <2>2, <2>3, ResetDeviceRefused
    <2>5. QED
      BY <2>2, <2>4 DEF Assign, Current
  <1>2. QED
    BY <1>1, InitIInv, NextIInv, PTL DEF Spec, ResetRefusalClean

\* When no exchange fails, the cached getInfo clientPin option is the
\* key's at every menu prompt, for every value of the other constants, the
\* key replugged or not: set_pin (lines 198-200) and reset_device (lines
\* 133-134) fetch the info again after every change of PIN presence, and
\* the startup prompt runs on the info find_device fetched.  With a lossy
\* transport this fails (run stale_info_after_failure).
THEOREM InfoFresh == ~Lossy => (Spec => []InfoPinCurrent)
  <1> SUFFICES ASSUME ~Lossy PROVE Spec => []InfoPinCurrent
    OBVIOUS
  <1>1. Init => SInv
    BY InitRInv DEF Init, SInv, FreshInv
  <1>2. SInv /\ [Next]_vars => SInv'
    BY NextRInv, NextFresh DEF SInv
  <1>3. SInv => InfoPinCurrent
    BY DEF SInv, FreshInv, InfoPinCurrent
  <1>4. QED
    BY <1>1, <1>2, <1>3, PTL DEF Spec

=============================================================================
