-------------------------- MODULE CommissionerProofs --------------------------
(***************************************************************************)
(* Proofs about Commissioner for every value of the constants:             *)
(*   TypeCorrect       Spec => []TypeOK                                     *)
(*   RefusedTokenSafe  Spec => []RefusedTokenNeverHeld                      *)
(* Both rest on the inductive invariant IInv, which adds to TypeOK that    *)
(* every token the client holds or the device refused was issued already  *)
(* (it is at most dev.issued, which never decreases): that is why a token  *)
(* the device issues fresh can never be one it refused before.             *)
(*                                                                         *)
(* A handler is a function from a Session to a set of Sessions, so the     *)
(* step proofs go through one lemma per handler: it maps a Good session    *)
(* to Good sessions.                                                       *)
(***************************************************************************)
EXTENDS Commissioner, TLAPS

\* The replies of the authenticator, and what no reply does: lower issued.
RepType == [d : DevState, ok : BOOLEAN]

RepOK(d0, r) == r \in RepType /\ r.d.issued >= d0.issued

\* A session snapshot satisfying the invariant.
Good(s) ==
    /\ s \in Session
    /\ s.tok \in 0..s.dev.issued
    /\ s.refused \subseteq 1..s.dev.issued
    /\ s.tok \notin s.refused

IInv ==
    /\ TypeOK
    /\ pin_token \in 0..dev.issued
    /\ refused \subseteq 1..dev.issued
    /\ RefusedTokenNeverHeld

USE AuthenticatorAssumption, CommissionerAssumption

-----------------------------------------------------------------------------
(* The authenticator's replies.                                            *)

\* A reply carries the device state it is given and the outcome.
LEMMA ReplyType ==
    ASSUME NEW d \in DevState, NEW b \in BOOLEAN
    PROVE  /\ Reply(d, b) \in RepType
           /\ Reply(d, b).d = d
           /\ Reply(d, b).ok = b
  BY DEF Reply, RepType

\* A reply that leaves the device as it is never lowers issued.
LEMMA ReplySame ==
    ASSUME NEW d \in DevState, NEW b \in BOOLEAN
    PROVE  /\ RepOK(d, Reply(d, b))
           /\ Reply(d, b).d.issued = d.issued
  <1>1. d.issued \in Int
    BY DEF DevState
  <1>2. QED
    BY <1>1, ReplyType DEF RepOK

\* The updates the replies make keep a device state a device state.
LEMMA MaxRetriesIn == MaxRetries \in 0..MaxRetries
  OBVIOUS

LEMMA RetriesUpdate ==
    ASSUME NEW d \in DevState, NEW x \in 0..MaxRetries
    PROVE  [d EXCEPT !.retries = x] \in DevState
  BY DEF DevState

LEMMA TokenUpdate ==
    ASSUME NEW d \in DevState, NEW t \in Tokens \cup {NoToken}
    PROVE  [d EXCEPT !.token = t] \in DevState
  BY DEF DevState

LEMMA PinUpdate ==
    ASSUME NEW d \in DevState, NEW q \in Pins \cup {NoPin}
    PROVE  [d EXCEPT !.pin = q] \in DevState
  BY DEF DevState

LEMMA IssuedUpdate ==
    ASSUME NEW d \in DevState, NEW n \in 0..MaxTokens
    PROVE  [d EXCEPT !.issued = n] \in DevState
  BY DEF DevState

LEMMA ProtoUpdate ==
    ASSUME NEW d \in DevState, NEW q \in Protocols \cup {NoProto}
    PROVE  [d EXCEPT !.tokenProto = q] \in DevState
  BY DEF DevState

LEMMA ConfigUpdate ==
    ASSUME NEW d \in DevState, NEW c \in [Params -> Int \cup {NoValue}]
    PROVE  [d EXCEPT !.config = c] \in DevState
  BY DEF DevState

-----------------------------------------------------------------------------
(* The authenticator's replies.                                            *)

LEMMA GetPinTokenReplyOK ==
    ASSUME NEW d \in DevState, CanIssue(d), NEW pin \in Pins, NEW pr \in Protocols
    PROVE  /\ RepOK(d, GetPinTokenReply(d, pin, pr))
           /\ GetPinTokenReply(d, pin, pr).ok =>
                /\ GetPinTokenReply(d, pin, pr).d.token = d.issued + 1
                /\ GetPinTokenReply(d, pin, pr).d.issued = d.issued + 1
  <1>1. CASE d.pin = NoPin \/ d.retries = 0
    <2>1. GetPinTokenReply(d, pin, pr) = Reply(d, FALSE)
      BY <1>1 DEF GetPinTokenReply
    <2>2. QED
      BY <2>1, ReplySame, ReplyType
  <1>2. CASE ~(d.pin = NoPin \/ d.retries = 0) /\ pin # d.pin
    <2> DEFINE e == [d EXCEPT !.retries = d.retries - 1]
    <2>1. d.retries - 1 \in 0..MaxRetries
      BY <1>2 DEF DevState
    <2>2. e \in DevState /\ e.issued = d.issued
      BY <2>1, RetriesUpdate DEF DevState
    <2>3. GetPinTokenReply(d, pin, pr) = Reply(e, FALSE)
      BY <1>2 DEF GetPinTokenReply
    <2>4. QED
      BY <2>2, <2>3, ReplySame, ReplyType DEF RepOK
  <1>3. CASE ~(d.pin = NoPin \/ d.retries = 0) /\ pin = d.pin
    <2> DEFINE e1 == [d EXCEPT !.retries = MaxRetries]
               e2 == [e1 EXCEPT !.token = d.issued + 1]
               e3 == [e2 EXCEPT !.issued = d.issued + 1]
               e == [e3 EXCEPT !.tokenProto = pr]
    <2>1. d.issued + 1 \in Tokens /\ d.issued + 1 \in 0..MaxTokens
      BY DEF CanIssue, DevState, Tokens
    <2>2. e \in DevState
      <3>1. e1 \in DevState
        BY RetriesUpdate, MaxRetriesIn
      <3>2. e2 \in DevState
        BY <2>1, <3>1, TokenUpdate
      <3>3. e3 \in DevState
        BY <2>1, <3>2, IssuedUpdate
      <3>4. QED
        BY <3>3, ProtoUpdate
    <2>3. e.issued = d.issued + 1 /\ e.token = d.issued + 1
      OBVIOUS
    <2>4. GetPinTokenReply(d, pin, pr) = Reply(e, TRUE)
      BY <1>3 DEF GetPinTokenReply
    <2> HIDE DEF e
    <2>5. Reply(e, TRUE) \in RepType /\ Reply(e, TRUE).d = e /\ Reply(e, TRUE).ok
      BY <2>2, ReplyType
    <2>6. d.issued + 1 >= d.issued
      BY DEF DevState
    <2>7. QED
      BY <2>3, <2>4, <2>5, <2>6, Zenon DEF RepOK
  <1>4. QED
    BY <1>1, <1>2, <1>3

LEMMA SetPinReplyOK ==
    ASSUME NEW d \in DevState, NEW new \in Pins
    PROVE  /\ RepOK(d, SetPinReply(d, new))
           /\ SetPinReply(d, new).d.issued = d.issued
  <1>1. CASE d.pin = NoPin /\ PinPolicyOK(new)
    <2> DEFINE e == [d EXCEPT !.pin = new]
    <2>1. e \in DevState /\ e.issued = d.issued
      BY PinUpdate DEF DevState
    <2>2. SetPinReply(d, new) = Reply(e, TRUE)
      BY <1>1 DEF SetPinReply
    <2>3. QED
      BY <2>1, <2>2, ReplySame, ReplyType DEF RepOK
  <1>2. CASE ~(d.pin = NoPin /\ PinPolicyOK(new))
    BY <1>2, ReplySame DEF SetPinReply
  <1>3. QED
    BY <1>1, <1>2

LEMMA ChangePinReplyOK ==
    ASSUME NEW d \in DevState, NEW old \in Pins, NEW new \in Pins
    PROVE  /\ RepOK(d, ChangePinReply(d, old, new))
           /\ ChangePinReply(d, old, new).d.issued = d.issued
  <1>1. CASE d.pin = NoPin \/ d.retries = 0
    BY <1>1, ReplySame DEF ChangePinReply
  <1>2. CASE ~(d.pin = NoPin \/ d.retries = 0) /\ old # d.pin
    <2> DEFINE e == [d EXCEPT !.retries = d.retries - 1]
    <2>1. d.retries - 1 \in 0..MaxRetries
      BY <1>2 DEF DevState
    <2>2. e \in DevState /\ e.issued = d.issued
      BY <2>1, RetriesUpdate DEF DevState
    <2>3. ChangePinReply(d, old, new) = Reply(e, FALSE)
      BY <1>2 DEF ChangePinReply
    <2>4. QED
      BY <2>2, <2>3, ReplySame, ReplyType DEF RepOK
  <1>3. CASE ~(d.pin = NoPin \/ d.retries = 0) /\ old = d.pin /\ ~PinPolicyOK(new)
    <2> DEFINE e == [d EXCEPT !.retries = MaxRetries]
    <2>1. e \in DevState /\ e.issued = d.issued
      BY RetriesUpdate, MaxRetriesIn
    <2>2. ChangePinReply(d, old, new) = Reply(e, FALSE)
      BY <1>3 DEF ChangePinReply
    <2>3. QED
      BY <2>1, <2>2, ReplySame, ReplyType DEF RepOK
  <1>4. CASE ~(d.pin = NoPin \/ d.retries = 0) /\ old = d.pin /\ PinPolicyOK(new)
    <2> DEFINE e1 == [d EXCEPT !.pin = new]
               e2 == [e1 EXCEPT !.retries = MaxRetries]
               e == [e2 EXCEPT !.token = NoToken]
    <2>1. e \in DevState /\ e.issued = d.issued
      <3>1. e1 \in DevState
        BY PinUpdate
      <3>2. e2 \in DevState
        BY <3>1, RetriesUpdate, MaxRetriesIn
      <3>3. e \in DevState
        BY <3>2, TokenUpdate
      <3>4. QED
        BY <3>3 DEF DevState
    <2>2. ChangePinReply(d, old, new) = Reply(e, TRUE)
      BY <1>4 DEF ChangePinReply
    <2>3. QED
      BY <2>1, <2>2, ReplySame, ReplyType DEF RepOK
  <1>5. QED
    BY <1>1, <1>2, <1>3, <1>4

LEMMA ResetReplyOK ==
    ASSUME NEW d \in DevState, NEW pressed \in BOOLEAN
    PROVE  /\ RepOK(d, ResetReply(d, pressed))
           /\ ResetReply(d, pressed).d.issued = d.issued
  <1> DEFINE c == [p \in Params |-> NoValue]
             e1 == [d EXCEPT !.pin = NoPin]
             e2 == [e1 EXCEPT !.retries = MaxRetries]
             e3 == [e2 EXCEPT !.token = NoToken]
             e == [e3 EXCEPT !.config = c]
  <1>1. c \in [Params -> Int \cup {NoValue}]
    OBVIOUS
  <1>2. e \in DevState /\ e.issued = d.issued
    <2>1. e1 \in DevState
      BY PinUpdate
    <2>2. e2 \in DevState
      BY <2>1, RetriesUpdate, MaxRetriesIn
    <2>3. e3 \in DevState
      BY <2>2, TokenUpdate
    <2>4. e \in DevState
      BY <1>1, <2>3, ConfigUpdate
    <2>5. QED
      BY <2>4 DEF DevState
  <1>3. CASE EnablePowerOnReset /\ d.window /\ ~ResetDisabledByOpts(d) /\ pressed
    <2>0. Erase(d) = e
      BY DEF Erase
    <2>1. ResetReply(d, pressed) = Reply(e, TRUE)
      BY <1>3, <2>0 DEF ResetReply
    <2>2. QED
      BY <1>2, <2>1, ReplySame, ReplyType DEF RepOK
  <1>4. CASE ~(EnablePowerOnReset /\ d.window /\ ~ResetDisabledByOpts(d) /\ pressed)
    BY <1>4, ReplySame DEF ResetReply
  <1>5. QED
    BY <1>3, <1>4

LEMMA ConfigReplyOK ==
    ASSUME NEW d \in DevState, NEW p \in Params, NEW v \in Int,
           NEW tok \in Tokens \cup {NoToken}, NEW pr \in Protocols \cup {NoProto}
    PROVE  /\ RepOK(d, ConfigReply(d, p, v, tok, pr))
           /\ ConfigReply(d, p, v, tok, pr).d.issued = d.issued
  <1>1. CASE tok = d.token /\ tok # NoToken /\ pr = d.tokenProto
    <2> DEFINE e == [d EXCEPT !.config[p] = v]
    <2>1. e \in DevState /\ e.issued = d.issued
      BY DEF DevState
    <2>2. ConfigReply(d, p, v, tok, pr) = Reply(e, TRUE)
      BY <1>1 DEF ConfigReply
    <2>3. QED
      BY <2>1, <2>2, ReplySame, ReplyType DEF RepOK
  <1>2. CASE ~(tok = d.token /\ tok # NoToken /\ pr = d.tokenProto)
    BY <1>2, ReplySame DEF ConfigReply
  <1>3. QED
    BY <1>1, <1>2

\* A transport exchange ends in the reply or in a failure, at the device
\* state before or after it; only the reply itself succeeds.
LEMMA DeliverOK ==
    ASSUME NEW d \in DevState, NEW r \in RepType, r.d.issued >= d.issued,
           NEW o \in Deliver(d, r)
    PROVE  /\ o \in RepType
           /\ o.d.issued >= d.issued
           /\ o.d.issued <= r.d.issued
           /\ o.ok => o = r
  <1>1. r.d \in DevState /\ d.issued \in Int /\ r.d.issued \in Int
    BY DEF RepType, DevState
  <1>2. CASE o = r
    BY <1>1, <1>2
  <1>3. CASE o = Reply(d, FALSE)
    <2>1. o \in RepType /\ o.d = d /\ o.ok = FALSE
      BY <1>3, ReplyType
    <2>2. QED
      BY <1>1, <2>1
  <1>4. CASE o = Reply(r.d, FALSE)
    <2>1. o \in RepType /\ o.d = r.d /\ o.ok = FALSE
      BY <1>1, <1>4, ReplyType
    <2>2. QED
      BY <1>1, <2>1
  <1>5. QED
    BY <1>2, <1>3, <1>4 DEF Deliver

-----------------------------------------------------------------------------
(* The client's handlers map Good sessions to Good sessions.               *)

\* A session with a new device state, outcome and token is a session.
LEMMA SessionUpdate ==
    ASSUME NEW s \in Session, NEW d \in DevState, NEW ok \in BOOLEAN,
           NEW tk \in Tokens \cup {NoToken}
    PROVE  /\ [s EXCEPT !.dev = d, !.ok = ok, !.tok = tk] \in Session
           /\ [s EXCEPT !.dev = d, !.ok = ok] \in Session
  BY DEF Session

\* A failed handler leaves a Good session Good when the device only moved
\* forward.
LEMMA FailGood ==
    ASSUME NEW s, Good(s), NEW d \in DevState, d.issued >= s.dev.issued
    PROVE  Good(Fail(s, d)) /\ Fail(s, d).dev = d /\ ~Fail(s, d).ok
  <1>1. Fail(s, d) \in Session
    BY SessionUpdate DEF Good, Fail
  <1>2. s.dev \in DevState /\ d.issued \in Int
    BY DEF Good, Session, DevState
  <1>3. QED
    BY <1>1, <1>2 DEF Good, Fail, Session, DevState

LEMMA GetPinTokenOK ==
    ASSUME NEW s, Good(s), NEW x \in get_pin_token(s)
    PROVE  /\ Good(x)
           /\ x.dev.issued >= s.dev.issued
           /\ x.ok => x.tok # NoToken
  <1>0. s \in Session /\ s.dev \in DevState /\ s.dev.issued \in Int
    BY DEF Good, Session, DevState
  <1>1. CASE ~s.info.clientPin \/ s.dev.protocols = {}
    <2>1. x = [s EXCEPT !.ok = FALSE]
      BY <1>1 DEF get_pin_token
    <2>2. x \in Session
      BY <1>0, <2>1 DEF Session
    <2>3. QED
      BY <1>0, <2>1, <2>2 DEF Good
  <1>2. CASE ~(~s.info.clientPin \/ s.dev.protocols = {}) /\ ~CanIssue(s.dev)
    BY <1>2 DEF get_pin_token
  <1>3. CASE ~(~s.info.clientPin \/ s.dev.protocols = {}) /\ CanIssue(s.dev)
    <2> DEFINE cp == Negotiate(s.dev.protocols)
               t == [s EXCEPT !.cp = cp, !.pp = ProtocolOf(cp)]
               Os == UNION {Deliver(t.dev, GetPinTokenReply(t.dev, pin, cp)) :
                              pin \in Pins}
               F(o) == [t EXCEPT !.dev = o.d, !.ok = o.ok,
                                 !.tok = IF o.ok THEN o.d.token ELSE t.tok]
    <2>1. cp \in Protocols
      BY DEF Negotiate, Protocols
    <2>2. Good(t) /\ t.dev = s.dev /\ t.tok = s.tok /\ t.refused = s.refused
      BY <1>0, <2>1 DEF Good, Session, ProtocolOf
    <2>3. get_pin_token(s) = {F(o) : o \in Os}
      BY <1>3 DEF get_pin_token
    <2> HIDE DEF cp, t
    <2>4. PICK o \in Os : x = F(o)
      BY <2>3
    <2>5. PICK pin \in Pins : o \in Deliver(s.dev, GetPinTokenReply(s.dev, pin, cp))
      BY <2>2, <2>4
    <2> DEFINE r == GetPinTokenReply(s.dev, pin, cp)
    <2>6. /\ RepOK(s.dev, r)
          /\ r.ok => r.d.token = s.dev.issued + 1 /\ r.d.issued = s.dev.issued + 1
      BY <1>0, <1>3, <2>1, GetPinTokenReplyOK
    <2>7. o \in Deliver(s.dev, r)
      BY <2>5
    <2> HIDE DEF r
    <2>8. /\ o \in RepType
          /\ o.d.issued >= s.dev.issued
          /\ o.ok => o = r
      BY <1>0, <2>7, <2>6, DeliverOK DEF RepOK
    <2>9. o.d \in DevState /\ o.ok \in BOOLEAN /\ o.d.issued \in Int
      <3>1. o.d \in DevState /\ o.ok \in BOOLEAN
        BY <2>8 DEF RepType
      <3>2. QED
        BY <3>1 DEF DevState
    <2>10. CASE o.ok
      <3>1. o.d.token = s.dev.issued + 1 /\ o.d.issued = s.dev.issued + 1
        BY <2>6, <2>8, <2>10
      <3>2. o.d.token \in Tokens
        BY <1>0, <1>3, <3>1 DEF CanIssue, DevState, Tokens
      <3>3. x = [t EXCEPT !.dev = o.d, !.ok = o.ok, !.tok = o.d.token]
        BY <2>4, <2>10
      <3>4. x \in Session
        BY <2>2, <2>9, <3>2, <3>3, SessionUpdate DEF Good
      <3>5. QED
        BY <1>0, <2>2, <3>1, <3>3, <3>4 DEF Good, Tokens, NoToken
    <2>11. CASE ~o.ok
      <3>1. x = [t EXCEPT !.dev = o.d, !.ok = o.ok]
        BY <2>4, <2>11, <2>2 DEF Good, Session
      <3>2. x \in Session
        BY <2>2, <2>9, <3>1, SessionUpdate DEF Good
      <3>3. QED
        BY <1>0, <2>2, <2>8, <2>9, <2>11, <3>1, <3>2 DEF Good
    <2>12. QED
      BY <2>10, <2>11
  <1>4. QED
    BY <1>1, <1>2, <1>3

\* The configuration exchange: the token is kept only on success, and a
\* token the device refused joins the refused ones and is dropped.
LEMMA DispatchOK ==
    ASSUME NEW a, Good(a), a.tok # NoToken, NEW p \in Params, NEW v \in Int,
           NEW x \in Dispatch(a, p, v)
    PROVE  Good(x) /\ x.dev.issued >= a.dev.issued
  <1> DEFINE r == ConfigReply(a.dev, p, v, a.tok, a.pp)
             G(o) == [a EXCEPT !.dev = o.d, !.ok = o.ok,
                               !.tok = IF o.ok THEN a.tok ELSE NoToken,
                               !.refused = IF r.ok THEN a.refused
                                           ELSE a.refused \cup {a.tok}]
  <1>0. /\ a \in Session /\ a.dev \in DevState /\ a.dev.issued \in 0..MaxTokens
        /\ a.tok \in 1..a.dev.issued /\ a.refused \subseteq 1..a.dev.issued
        /\ a.tok \in Tokens /\ a.pp \in Protocols \cup {NoProto}
    BY DEF Good, Session, DevState, NoToken, Tokens
  <1>1. Dispatch(a, p, v) = {G(o) : o \in Deliver(a.dev, r)}
    BY DEF Dispatch
  <1>2. RepOK(a.dev, r) /\ r.d.issued = a.dev.issued
    BY <1>0, ConfigReplyOK
  <1> HIDE DEF G, r
  <1>3. PICK o \in Deliver(a.dev, r) : x = G(o)
    BY <1>1
  <1>4. /\ o \in RepType
        /\ o.d.issued >= a.dev.issued
        /\ o.ok => o = r
    BY <1>0, <1>2, DeliverOK DEF RepOK
  <1>5. o.d \in DevState /\ o.ok \in BOOLEAN
    BY <1>4 DEF RepType
  <1>6. o.d.issued \in 0..MaxTokens
    BY <1>5 DEF DevState
  <1>7. CASE o.ok
    <2>1. r.ok
      BY <1>4, <1>7
    <2>2. x = [a EXCEPT !.dev = o.d, !.ok = o.ok]
      BY <1>0, <1>3, <1>7, <2>1 DEF G, Session
    <2>3. x \in Session
      BY <1>0, <1>5, <2>2, SessionUpdate
    <2>4. QED
      BY <1>0, <1>4, <1>6, <2>2, <2>3 DEF Good
  <1>8. CASE ~o.ok
    <2> DEFINE rf == IF r.ok THEN a.refused ELSE a.refused \cup {a.tok}
    <2>1. rf \subseteq 1..a.dev.issued /\ rf \subseteq Tokens
      BY <1>0 DEF Tokens
    <2>2. x = [a EXCEPT !.dev = o.d, !.ok = FALSE, !.tok = NoToken, !.refused = rf]
      BY <1>3, <1>5, <1>8 DEF G
    <2>3. x \in Session
      BY <1>0, <1>5, <2>1, <2>2 DEF Session
    <2>4. QED
      BY <1>0, <1>4, <1>6, <2>1, <2>2, <2>3 DEF Good, NoToken
  <1>9. QED
    BY <1>7, <1>8

\* send_config_command: authenticate only when no token is held, then
\* dispatch under a token that is held.
LEMMA SendConfigOK ==
    ASSUME NEW s, Good(s), NEW p \in Params, NEW v \in Int,
           NEW x \in send_config_command(s, p, v)
    PROVE  Good(x)
  <1> DEFINE authed == IF s.tok # NoToken THEN {s} ELSE get_pin_token(s)
  <1>1. \A a \in authed : Good(a) /\ (a.ok => a.tok # NoToken)
    <2>1. CASE s.tok # NoToken
      BY <2>1
    <2>2. CASE s.tok = NoToken
      BY <2>2, GetPinTokenOK
    <2>3. QED
      BY <2>1, <2>2
  <1>2. send_config_command(s, p, v) =
          {a \in authed : ~a.ok} \cup UNION {Dispatch(a, p, v) : a \in {b \in authed : b.ok}}
    BY DEF send_config_command
  <1> HIDE DEF authed
  <1>3. CASE x \in {a \in authed : ~a.ok}
    BY <1>1, <1>3
  <1>4. CASE x \in UNION {Dispatch(a, p, v) : a \in {b \in authed : b.ok}}
    <2>1. PICK a \in authed : a.ok /\ x \in Dispatch(a, p, v)
      BY <1>4
    <2>2. QED
      BY <1>1, <2>1, DispatchOK
  <1>5. QED
    BY <1>2, <1>3, <1>4

\* The info refresh after a PIN is set, or its failure.
LEMMA AfterSetPinOK ==
    ASSUME NEW t, Good(t), NEW d \in DevState, d.issued >= t.dev.issued,
           NEW x \in AfterSetPin(t, d)
    PROVE  Good(x)
  <1>0. t \in Session /\ t.dev \in DevState /\ d.issued \in 0..MaxTokens
    BY DEF Good, Session, DevState
  <1>1. CASE x = [t EXCEPT !.dev = d, !.info = Info(d), !.tok = NoToken]
    <2>1. Info(d) \in [clientPin : BOOLEAN]
      BY DEF Info
    <2>2. x \in Session
      BY <1>0, <1>1, <2>1 DEF Session
    <2>3. x.dev = d /\ x.tok = NoToken /\ x.refused = t.refused
      BY <1>0, <1>1 DEF Session
    <2>4. t.refused \subseteq 1..d.issued
      BY <1>0 DEF Good, DevState
    <2>5. QED
      BY <1>0, <2>2, <2>3, <2>4 DEF Good, NoToken
  <1>2. CASE x = Fail(t, d)
    BY <1>2, FailGood
  <1>3. QED
    BY <1>1, <1>2 DEF AfterSetPin

\* set_pin's change path: change_pin with the PINs the user types.
LEMMA ChangePathOK ==
    ASSUME NEW t, Good(t), NEW x \in ChangePath(t)
    PROVE  Good(x)
  <1>0. t \in Session /\ t.dev \in DevState /\ t.dev.issued \in Int
    BY DEF Good, Session, DevState
  <1>1. CASE x = [t EXCEPT !.ok = FALSE]
    BY <1>0, <1>1 DEF Good, Session
  <1>2. CASE x # [t EXCEPT !.ok = FALSE]
    <2> DEFINE H(o, nw) == [t EXCEPT !.dev = o.d, !.ok = o.ok,
                                     !.tok = IF o.ok THEN NoToken ELSE t.tok,
                                     !.bad = t.bad \/ ~PinPolicyOK(nw)]
               C(od, nw) == {H(o, nw) : o \in Deliver(t.dev, ChangePinReply(t.dev, od, nw))}
               D(od, nw) == IF PinLen[nw] < 4 THEN {[t EXCEPT !.ok = FALSE]} ELSE C(od, nw)
    <2>1. x \in UNION {UNION {D(od, nw) : nw \in Pins} : od \in Pins}
      BY <1>2 DEF ChangePath
    <2> HIDE DEF H
    <2>2. PICK old \in Pins, new \in Pins : x \in C(old, new)
      <3>1. PICK old \in Pins : x \in UNION {D(old, nw) : nw \in Pins}
        BY <2>1
      <3>2. PICK new \in Pins : x \in D(old, new)
        BY <3>1
      <3>3. x \in C(old, new)
        BY <1>2, <3>2
      <3>4. QED
        BY <3>3
    <2> DEFINE r == ChangePinReply(t.dev, old, new)
    <2>3. RepOK(t.dev, r) /\ r.d.issued = t.dev.issued
      BY <1>0, ChangePinReplyOK
    <2>4. PICK o \in Deliver(t.dev, r) : x = H(o, new)
      BY <2>2
    <2> HIDE DEF r
    <2> USE DEF H
    <2>5. o \in RepType /\ o.d.issued >= t.dev.issued
      BY <1>0, <2>3, DeliverOK DEF RepOK
    <2>6. o.d \in DevState /\ o.ok \in BOOLEAN
      BY <2>5 DEF RepType
    <2>7. o.d.issued \in 0..MaxTokens
      BY <2>6 DEF DevState
    <2>8. (IF o.ok THEN NoToken ELSE t.tok) \in (Tokens \cup {NoToken}) \cap 0..o.d.issued
      BY <1>0, <2>5, <2>7 DEF Good, Session, NoToken
    <2>9. x \in Session
      BY <1>0, <2>4, <2>6, <2>8 DEF Session
    <2>10. QED
      BY <1>0, <2>4, <2>5, <2>7, <2>8, <2>9 DEF Good, NoToken
  <1>3. QED
    BY <1>1, <1>2

\* set_pin's set path: the local length check, setPIN, and the refresh.
LEMMA SetPathOK ==
    ASSUME NEW t, Good(t), NEW x \in SetPath(t)
    PROVE  Good(x)
  <1>0. t \in Session /\ t.dev \in DevState /\ t.dev.issued \in Int
    BY DEF Good, Session, DevState
  <1>1. CASE x = [t EXCEPT !.ok = FALSE]
    BY <1>0, <1>1 DEF Good, Session
  <1>2. CASE x # [t EXCEPT !.ok = FALSE]
    <2>1. PICK new \in Pins :
            x \in IF PinLen[new] < 4
                  THEN {[t EXCEPT !.ok = FALSE]}
                  ELSE LET u == [t EXCEPT !.bad = t.bad \/ ~PinPolicyOK(new)]
                       IN  UNION {IF o.ok THEN AfterSetPin(u, o.d) ELSE {Fail(u, o.d)} :
                                    o \in Deliver(u.dev, SetPinReply(u.dev, new))}
      BY <1>2 DEF SetPath
    <2>2. ~(PinLen[new] < 4)
      BY <1>2, <2>1
    <2> DEFINE u == [t EXCEPT !.bad = t.bad \/ ~PinPolicyOK(new)]
               r == SetPinReply(t.dev, new)
    <2>3. Good(u) /\ u.dev = t.dev
      BY <1>0 DEF Good, Session
    <2>4. RepOK(t.dev, r)
      BY <1>0, SetPinReplyOK
    <2>5. PICK o \in Deliver(t.dev, r) :
            x \in IF o.ok THEN AfterSetPin(u, o.d) ELSE {Fail(u, o.d)}
      BY <2>1, <2>2, <2>3
    <2> HIDE DEF u, r
    <2>6. o \in RepType /\ o.d.issued >= t.dev.issued
      BY <1>0, <2>4, DeliverOK DEF RepOK
    <2>7. o.d \in DevState
      BY <2>6 DEF RepType
    <2>8. CASE o.ok
      BY <2>3, <2>5, <2>6, <2>7, <2>8, AfterSetPinOK
    <2>9. CASE ~o.ok
      BY <2>3, <2>5, <2>6, <2>7, <2>9, FailGood
    <2>10. QED
      BY <2>8, <2>9
  <1>3. QED
    BY <1>1, <1>2

LEMMA SetPinOK ==
    ASSUME NEW s, Good(s), NEW x \in set_pin(s)
    PROVE  Good(x)
  <1>0. s \in Session
    BY DEF Good
  <1>1. CASE s.cp = NoProto /\ s.dev.protocols = {}
    BY <1>0, <1>1 DEF set_pin, Good, Session
  <1>2. CASE ~(s.cp = NoProto /\ s.dev.protocols = {})
    <2> DEFINE t == [s EXCEPT !.cp = IF s.cp = NoProto
                                     THEN Negotiate(s.dev.protocols) ELSE s.cp]
    <2>1. Good(t)
      BY <1>0 DEF Good, Session, Negotiate, Protocols
    <2>2. x \in ChangePath(t) \/ x \in SetPath(t)
      BY <1>2 DEF set_pin
    <2> HIDE DEF t
    <2>3. QED
      BY <2>1, <2>2, ChangePathOK, SetPathOK
  <1>3. QED
    BY <1>1, <1>2

LEMMA ResetDeviceOK ==
    ASSUME NEW s, Good(s), NEW x \in reset_device(s)
    PROVE  Good(x)
  <1>0. s \in Session /\ s.dev \in DevState
    BY DEF Good, Session
  <1>1. PICK o \in UNION {Deliver(s.dev, ResetReply(s.dev, pressed)) : pressed \in BOOLEAN} :
          x \in IF o.ok THEN AfterReset(s, o.d) ELSE {Fail(s, o.d)}
    BY DEF reset_device
  <1>2. PICK pressed \in BOOLEAN : o \in Deliver(s.dev, ResetReply(s.dev, pressed))
    BY <1>1
  <1>3. RepOK(s.dev, ResetReply(s.dev, pressed))
    BY <1>0, ResetReplyOK
  <1>4. o \in RepType /\ o.d.issued >= s.dev.issued
    BY <1>0, <1>2, <1>3, DeliverOK DEF RepOK
  <1>5. o.d \in DevState /\ o.d.issued \in 0..MaxTokens
    BY <1>4 DEF RepType, DevState
  <1>6. CASE ~o.ok
    BY <1>1, <1>4, <1>5, <1>6, FailGood
  <1>7. CASE o.ok /\ x = Fail(s, o.d)
    BY <1>4, <1>5, <1>7, FailGood
  <1>8. CASE o.ok /\ x # Fail(s, o.d)
    <2>1. x = [s EXCEPT !.dev = o.d, !.info = Info(o.d), !.tok = NoToken, !.cp = NoProto]
      BY <1>1, <1>8 DEF AfterReset
    <2>2. Info(o.d) \in [clientPin : BOOLEAN]
      BY DEF Info
    <2>3. x \in Session
      BY <1>0, <1>5, <2>1, <2>2 DEF Session
    <2>4. x.dev = o.d /\ x.tok = NoToken /\ x.refused = s.refused
      BY <1>0, <2>1 DEF Session
    <2>5. s.refused \subseteq 1..o.d.issued
      BY <1>0, <1>4, <1>5 DEF Good, DevState
    <2>6. QED
      BY <1>5, <2>3, <2>4, <2>5 DEF Good, NoToken
  <1>9. QED
    BY <1>6, <1>7, <1>8

-----------------------------------------------------------------------------
(* The inductive invariant.                                                *)

\* The state, read as the session a handler is called with, is Good.
LEMMA CurrentGood ==
    ASSUME IInv
    PROVE  Good(Current)
  BY DEF IInv, TypeOK, RefusedTokenNeverHeld, Good, Current, Session

\* The state a handler's Good session is assigned to satisfies IInv.
LEMMA AssignIInv ==
    ASSUME NEW s, Good(s), Assign(s), phase' \in {"start", "prompt", "menu", "exited"},
           linked \in BOOLEAN
    PROVE  IInv'
  BY DEF Good, Session, Assign, IInv, TypeOK, RefusedTokenNeverHeld

LEMMA InitIInv == Init => IInv
  <1> SUFFICES ASSUME Init PROVE IInv
    OBVIOUS
  <1>1. dev \in DevState /\ dev.issued = 0
    <2>1. PICK pin \in {NoPin} \cup {q \in Pins : PinPolicyOK(q)},
               window \in BOOLEAN, protocols \in SUBSET Protocols :
            dev = [pin |-> pin, retries |-> MaxRetries, token |-> NoToken,
                   tokenProto |-> NoProto, issued |-> 0,
                   config |-> [p \in Params |-> NoValue],
                   window |-> window, protocols |-> protocols]
      BY DEF Init, DevInit
    <2>2. QED
      BY <2>1, MaxRetriesIn DEF DevState, Tokens, NoToken, NoProto
  <1>2. /\ phase = "start" /\ info = NoInfo /\ client_pin = NoProto
        /\ pin_token = NoToken /\ pin_protocol = NoProto /\ refused = {}
        /\ badPinSent = FALSE /\ linked = TRUE
    BY DEF Init
  <1>3. TypeOK
    BY <1>1, <1>2 DEF TypeOK
  <1>4. QED
    BY <1>1, <1>2, <1>3 DEF IInv, RefusedTokenNeverHeld, NoToken

LEMMA NextIInv == IInv /\ [Next]_vars => IInv'
  <1> SUFFICES ASSUME IInv, [Next]_vars PROVE IInv'
    OBVIOUS
  <1>0. /\ Good(Current) /\ phase \in {"start", "prompt", "menu", "exited"}
        /\ linked \in BOOLEAN
    BY CurrentGood DEF IInv, TypeOK
  <1>1. CASE FindDevice
    <2>1. Info(dev) \in [clientPin : BOOLEAN]
      BY DEF Info
    <2>2. QED
      BY <1>1, <2>1 DEF FindDevice, IInv, TypeOK, RefusedTokenNeverHeld
  <1>2. CASE StartupPrompt
    <2>1. CASE \E s \in set_pin(Current) : Assign(s)
      BY <1>0, <1>2, <2>1, SetPinOK, AssignIInv DEF StartupPrompt
    <2>2. CASE UNCHANGED <<dev, info, client_pin, pin_token, pin_protocol, refused, badPinSent,
                           linked>>
      BY <1>2, <2>2 DEF StartupPrompt, IInv, TypeOK, RefusedTokenNeverHeld
    <2>3. QED
      BY <1>2, <2>1, <2>2 DEF StartupPrompt
  <1>3. ASSUME NEW p \in Params \ {"PHY_VIDPID"}, ConfigureParam(p)
        PROVE  IInv'
    <2>1. PICK v \in Inputs[p] : \E s \in send_config_command(Current, p, v) : Assign(s)
      BY <1>3 DEF ConfigureParam
    <2>2. v \in Int
      BY <2>1
    <2>3. QED
      BY <1>0, <1>3, <2>1, <2>2, SendConfigOK, AssignIInv DEF ConfigureParam
  <1>4. CASE ConfigureVidPid
    <2>1. PICK vp \in VidPidInputs :
            \E s \in send_config_command(Current, "PHY_VIDPID", VidPidValue(vp[1], vp[2])) :
              Assign(s)
      BY <1>4 DEF ConfigureVidPid
    <2>2. VidPidValue(vp[1], vp[2]) \in Int /\ "PHY_VIDPID" \in Params
      BY DEF VidPidValue, Params
    <2>3. QED
      BY <1>0, <1>4, <2>1, <2>2, SendConfigOK, AssignIInv DEF ConfigureVidPid
  <1>5. CASE SetupPin
    BY <1>0, <1>5, SetPinOK, AssignIInv DEF SetupPin
  <1>6. CASE FactoryReset
    BY <1>0, <1>6, ResetDeviceOK, AssignIInv DEF FactoryReset
  <1>7. CASE Quit
    BY <1>7 DEF Quit, IInv, TypeOK, RefusedTokenNeverHeld
  <1>8. CASE DeviceStep
    <2>1. dev' \in DevState /\ dev'.issued = dev.issued
      <3>1. CASE WindowCloses
        BY <3>1 DEF WindowCloses, IInv, TypeOK, DevState
      <3>2. CASE TokenExpires
        BY <3>2 DEF TokenExpires, IInv, TypeOK, DevState, Tokens, NoToken
      <3>3. QED
        BY <1>8, <3>1, <3>2 DEF DeviceStep
    <2>2. QED
      BY <1>8, <2>1 DEF DeviceStep, IInv, TypeOK, RefusedTokenNeverHeld
  <1>11. CASE Replug
    <2>1. dev' \in DevState /\ dev'.issued = dev.issued
      BY <1>11 DEF Replug, PowerCycle, IInv, TypeOK, DevState, Tokens, NoToken
    <2>2. QED
      BY <1>11, <2>1 DEF Replug, IInv, TypeOK, RefusedTokenNeverHeld
  <1>9. CASE UNCHANGED vars
    BY <1>9 DEF vars, IInv, TypeOK, RefusedTokenNeverHeld
  <1>10. QED
    <2>1. /\ "PHY_UP_BTN" \in Params \ {"PHY_VIDPID"}
          /\ "PHY_LED_GPIO" \in Params \ {"PHY_VIDPID"}
          /\ "PHY_LED_BTNESS" \in Params \ {"PHY_VIDPID"}
          /\ "PHY_OPTS" \in Params \ {"PHY_VIDPID"}
      BY DEF Params
    <2>2. QED
      BY <1>1, <1>2, <1>3, <1>4, <1>5, <1>6, <1>7, <1>8, <1>9, <1>11, <2>1
         DEF Next, ConfigureButtonTimeout, ConfigureLedGpio,
             ConfigureLedBrightness, ConfigurePhyOptions

-----------------------------------------------------------------------------
(* The theorems.                                                           *)

\* Every reachable state is well typed: the device state, the cached info,
\* the ClientPin protocol, the token and the history stay in their sets
\* whatever the user types and whichever exchange fails.
THEOREM TypeCorrect == Spec => []TypeOK
  <1>1. IInv => TypeOK
    BY DEF IInv
  <1>2. QED
    BY <1>1, InitIInv, NextIInv, PTL DEF Spec

\* A token the device refused a configuration command under is never held
\* again by send_config_command, for every bound on tokens and retries and
\* every set of PINs and inputs.
THEOREM RefusedTokenSafe == Spec => []RefusedTokenNeverHeld
  <1>1. IInv => RefusedTokenNeverHeld
    BY DEF IInv
  <1>2. QED
    BY <1>1, InitIInv, NextIInv, PTL DEF Spec

=============================================================================
