-------------------------- MODULE ModelFailoverProofs --------------------------
(***************************************************************************)
(* The safety of the failover, for any number of calls, models and pods and *)
(* any cooldowns and timeouts.  A call that may still fail was sent before  *)
(* the address became good, so the time left to it and the time the address *)
(* has been good for never add up to more than one read timeout; the        *)
(* cooldown its failure starts is then over after MaxCooldown more.         *)
(***************************************************************************)
EXTENDS ModelFailover, TLAPS

-----------------------------------------------------------------------------

\* Whatever 2 ** failed_probes is, the cooldown is capped.
LEMMA CooldownCapped ==
    ASSUME NEW probes
    PROVE  CooldownAfter(probes) \in 0 .. MaxCooldown
BY FailoverConstants DEF CooldownAfter

LEMMA NoCallType == NoCall \in Call /\ NoCall.voices = {} /\ NoCall.pc = "idle"
BY FailoverConstants DEF NoCall, Call

\* A step that changes one call, and neither the addresses nor the cooldown.
LEMMA OneCall ==
    ASSUME IInv, NEW c \in Calls, NEW new \in Call,
           call' = [call EXCEPT ![c] = new],
           UNCHANGED <<locatorVars, cooldownVars>>,
           /\ new.pc \in {"idle", "primary", "broken"} => new.voices = {}
           /\ new.pc = "streaming" => new.voices = {"primary"}
           /\ new.pc = "fallback" => new.voices \subseteq {"fallback"},
           (new.pc = "primary" /\ ~(new.live /\ new.pod = base_url))
               => up_for + new.left <= ReadTimeout
    PROVE  IInv'
<1>1. TypeOK'
  BY DEF IInv, TypeOK, locatorVars, cooldownVars
<1>2. \A d \in Calls : call'[d] = IF d = c THEN new ELSE call[d]
  BY DEF IInv, TypeOK
<1>3. ASSUME NEW d \in Calls PROVE SoundCall(d)'
  BY <1>2 DEF IInv, SoundCall, locatorVars
<1> QED
  BY <1>1, <1>3 DEF IInv, Serving, Bound, locatorVars, cooldownVars

\* A success of the primary: the cooldown is over.
LEMMA OneCallUp ==
    ASSUME IInv, NEW c \in Calls, NEW new \in Call,
           call' = [call EXCEPT ![c] = new],
           MarkUp, UNCHANGED locatorVars,
           /\ new.pc \in {"idle", "streaming"}
           /\ new.voices = IF new.pc = "idle" THEN {} ELSE {"primary"}
    PROVE  IInv'
<1>1. TypeOK'
  <2>1. 0 \in 0 .. MaxCooldown /\ 0 \in 0 .. MaxExponent
    BY FailoverConstants
  <2>2. call' \in [Calls -> Call]
    BY DEF IInv, TypeOK
  <2> QED
    BY <2>1, <2>2 DEF IInv, TypeOK, locatorVars, MarkUp
<1>2. \A d \in Calls : call'[d] = IF d = c THEN new ELSE call[d]
  BY DEF IInv, TypeOK
<1>3. ASSUME NEW d \in Calls PROVE SoundCall(d)'
  BY <1>2 DEF IInv, SoundCall, locatorVars
<1> QED
  BY <1>1, <1>3 DEF IInv, Serving, Bound, locatorVars, MarkUp

\* A new address, or the same as before.
LEMMA NewAddress ==
    ASSUME IInv, NEW p \in Pods \cup {None}, Locate(p), lookup' \in Pods \cup {None},
           UNCHANGED <<pods, cooldownVars, call>>
    PROVE  IInv'
<1>1. TypeOK'
  BY FailoverConstants DEF IInv, TypeOK, Locate, cooldownVars, Bound
<1>2. CASE p = base_url
  BY <1>1, <1>2 DEF IInv, SoundCall, Serving, Locate, cooldownVars, Bound
<1>3. CASE p # base_url
  <2>1. up_for' = 0
    BY <1>3 DEF Locate
  <2>2. ASSUME NEW d \in Calls PROVE SoundCall(d)'
    BY <2>1, FailoverConstants DEF IInv, TypeOK, Call, SoundCall
  <2>3. wait' > 0 => up_for' + wait' <= Bound'
    BY <2>1, FailoverConstants DEF IInv, TypeOK, cooldownVars, Bound
  <2> QED
    BY <1>1, <2>1, <2>2, <2>3 DEF IInv
<1> QED
  BY <1>2, <1>3

-----------------------------------------------------------------------------

LEMMA InitIInv == Init => IInv
<1> SUFFICES ASSUME Init PROVE IInv
  OBVIOUS
<1>1. TypeOK
  <2>1. base_url \in Pods \cup {None}
    BY FailoverConstants DEF Init, Pods
  <2>2. 0 \in 0 .. MaxCooldown /\ 0 \in 0 .. MaxExponent /\ 0 \in 0 .. Bound + 1
    BY FailoverConstants DEF Bound
  <2>3. call \in [Calls -> Call]
    BY NoCallType DEF Init
  <2> QED
    BY <2>1, <2>2, <2>3 DEF Init, TypeOK
<1>2. ASSUME NEW c \in Calls PROVE SoundCall(c)
  BY NoCallType DEF Init, SoundCall
<1> QED
  BY <1>1, <1>2 DEF IInv, Init

LEMMA StartInv ==
    ASSUME IInv, NEW c \in Calls, NEW m \in Models, NEW stream \in BOOLEAN, Start(c, m, stream)
    PROVE  IInv'
<1>1. CASE Skips(m)
  <2> DEFINE new == [NoCall EXCEPT !.pc = "fallback"]
  <2>1. new \in Call /\ new.pc = "fallback" /\ new.voices = {}
    BY NoCallType DEF Call
  <2> QED
    BY <1>1, <2>1, OneCall DEF Start, Become
<1>2. CASE ~Skips(m)
  <2> DEFINE new == [NoCall EXCEPT !.pc = "primary", !.stream = stream, !.model = m,
                                   !.pod = base_url, !.live = Serving, !.left = ReadTimeout]
  <2>1. Serving \in BOOLEAN
    BY DEF Serving
  <2>2. /\ new \in Call /\ new.pc = "primary" /\ new.voices = {} /\ new.pod = base_url
        /\ new.live = Serving /\ new.left = ReadTimeout
    <3>1. base_url \in Pods \cup {None} /\ ReadTimeout \in 0 .. ReadTimeout
      BY FailoverConstants DEF IInv, TypeOK
    <3> QED
      BY <2>1, <3>1, NoCallType DEF Call
  <2>3. ~Serving => up_for = 0
    BY DEF IInv, TypeOK, Bound
  <2>4. ~(new.live /\ new.pod = base_url) => up_for + new.left <= ReadTimeout
    BY <2>2, <2>3, FailoverConstants
  <2> QED
    BY <1>2, <2>2, <2>4, OneCall DEF Start, Become
<1> QED
  BY <1>1, <1>2

LEMMA EndInv ==
    ASSUME IInv, NEW c \in Calls, End(c), UNCHANGED <<locatorVars, cooldownVars>>
    PROVE  IInv'
BY NoCallType, OneCall DEF End, Become

LEMMA PrimaryAnswersInv ==
    ASSUME IInv, NEW c \in Calls, PrimaryAnswers(c) PROVE IInv'
BY NoCallType, OneCallUp DEF PrimaryAnswers, End, Become

LEMMA FirstTokenInv ==
    ASSUME IInv, NEW c \in Calls, FirstToken(c) PROVE IInv'
<1> DEFINE new == [call[c] EXCEPT !.pc = "streaming", !.left = 0, !.voices = {"primary"}]
<1>1. call[c] \in Call /\ 0 \in 0 .. ReadTimeout
  BY FailoverConstants DEF IInv, TypeOK
<1>2. new \in Call /\ new.pc = "streaming" /\ new.voices = {"primary"}
  BY <1>1 DEF Call
<1> QED
  BY <1>2, OneCallUp DEF FirstToken, Become

LEMMA PrimaryFailsInv ==
    ASSUME IInv, NEW c \in Calls, PrimaryFails(c) PROVE IInv'
<1>1. CASE ~MayFailOver(c)
  BY <1>1, EndInv DEF PrimaryFails
<1>2. CASE MayFailOver(c) /\ failed_probes >= MaxExponent
  <2> DEFINE new == [NoCall EXCEPT !.pc = "broken"]
  <2>1. new \in Call /\ new.pc = "broken" /\ new.voices = {}
    BY NoCallType DEF Call
  <2> QED
    BY <1>2, <2>1, OneCall DEF PrimaryFails, Become
<1>3. CASE MayFailOver(c) /\ ~(failed_probes >= MaxExponent)
  <2> DEFINE new == [NoCall EXCEPT !.pc = "fallback", !.voices = call[c].voices]
  <2>1. /\ call[c].pc = "primary" /\ ~call[c].live /\ call[c].voices = {}
        /\ call[c] \in Call /\ up_for + call[c].left <= ReadTimeout
    BY <1>3 DEF PrimaryFails, MayFailOver, IInv, SoundCall, TypeOK
  <2>2. new \in Call /\ new.pc = "fallback" /\ new.voices = {}
    BY <2>1, NoCallType DEF Call
  <2>3. call' = [call EXCEPT ![c] = new] /\ MarkDown /\ UNCHANGED locatorVars
    BY <1>3 DEF PrimaryFails, Become
  <2>4. wait' \in 0 .. MaxCooldown
    BY <2>3, CooldownCapped DEF MarkDown
  <2>5. TypeOK'
    BY <1>3, <2>2, <2>3, <2>4, FailoverConstants DEF IInv, TypeOK, MarkDown, locatorVars
  <2>6. ASSUME NEW d \in Calls PROVE SoundCall(d)'
    <3>1. call'[d] = IF d = c THEN new ELSE call[d]
      BY <2>3 DEF IInv, TypeOK
    <3> QED
      BY <2>2, <2>3, <3>1 DEF IInv, SoundCall, locatorVars
  <2>7. up_for' + wait' <= Bound'
    <3>1. up_for' = up_for /\ up_for \in Nat /\ call[c].left \in Nat
      BY <2>1, <2>3, FailoverConstants DEF locatorVars, IInv, TypeOK, Bound, Call
    <3>2. up_for <= ReadTimeout /\ wait' <= MaxCooldown /\ wait' \in Int
      BY <2>1, <2>4, <3>1, FailoverConstants
    <3>3. MaxCooldown \in Int /\ ReadTimeout \in Int
      BY FailoverConstants
    <3>4. ASSUME NEW u \in Nat, NEW w \in Int, u <= ReadTimeout, w <= MaxCooldown
          PROVE  u + w <= MaxCooldown + ReadTimeout
      BY <3>3, <3>4
    <3>5. Bound' = MaxCooldown + ReadTimeout
      BY DEF Bound
    <3> HIDE DEF new
    <3>6. up_for + wait' <= MaxCooldown + ReadTimeout
      BY <3>1, <3>2, <3>4
    <3> QED
      BY <3>1, <3>5, <3>6
  <2>8. up_for' > 0 => Serving'
    BY <2>3 DEF IInv, Serving, locatorVars
  <2> QED
    BY <2>5, <2>6, <2>7, <2>8 DEF IInv
<1> QED
  BY <1>1, <1>2, <1>3

LEMMA FallbackTokenInv ==
    ASSUME IInv, NEW c \in Calls, FallbackToken(c) PROVE IInv'
<1> DEFINE new == [call[c] EXCEPT !.voices = @ \cup {"fallback"}]
<1>1. call[c] \in Call /\ call[c].pc = "fallback" /\ call[c].voices \subseteq {"fallback"}
  BY DEF FallbackToken, IInv, TypeOK, SoundCall
<1>2. new \in Call /\ new.pc = "fallback" /\ new.voices \subseteq {"fallback"}
  BY <1>1 DEF Call
<1> QED
  BY <1>2, OneCall DEF FallbackToken, Become

LEMMA ListPodsInv == ASSUME IInv, ListPods PROVE IInv'
<1>1. CASE Running = {} /\ Locate(None) /\ lookup' = None
  BY <1>1, NewAddress DEF ListPods
<1>2. CASE (\E p \in Running : lookup' = p) /\ UNCHANGED <<base_url, up_for>>
  <2>1. Locate(base_url) /\ lookup' \in Pods
    BY <1>2 DEF Locate, Running
  <2> QED
    BY <2>1, NewAddress DEF ListPods, IInv, TypeOK
<1> QED
  BY <1>1, <1>2 DEF ListPods

LEMMA CheckHealthInv == ASSUME IInv, CheckHealth PROVE IInv'
BY NewAddress DEF CheckHealth, IInv, TypeOK

LEMMA PodChangesInv ==
    ASSUME IInv, NEW p \in Pods, NEW status \in {"off", "loading", "up"}, PodChanges(p, status)
    PROVE  IInv'
<1>1. ASSUME NEW c \in Calls
      PROVE  /\ call'[c] \in Call
             /\ call'[c].pc = call[c].pc /\ call'[c].voices = call[c].voices
             /\ call'[c].pod = call[c].pod /\ call'[c].left = call[c].left
             /\ call[c].pod # p => call'[c] = call[c]
  <2>1. call[c] \in Call
    BY DEF IInv, TypeOK
  <2>2. call'[c] = IF call[c].pod = p THEN [call[c] EXCEPT !.live = FALSE] ELSE call[c]
    BY DEF PodChanges
  <2> QED
    BY <2>1, <2>2 DEF Call
<1>2. TypeOK'
  <2>1. call' \in [Calls -> Call]
    BY <1>1 DEF PodChanges
  <2> QED
    BY <2>1, FailoverConstants DEF PodChanges, IInv, TypeOK, Bound, cooldownVars
<1>3. p = base_url => up_for' = 0
  BY DEF PodChanges
<1>4. p # base_url => up_for' = up_for
  BY DEF PodChanges
<1>5. ASSUME NEW c \in Calls PROVE SoundCall(c)'
  <2>1. call[c].left \in 0 .. ReadTimeout
    BY DEF IInv, TypeOK, Call
  <2>2. CASE p = base_url
    BY <1>1, <1>3, <2>1, <2>2, FailoverConstants DEF IInv, SoundCall
  <2>3. CASE p # base_url
    BY <1>1, <1>4, <2>1, <2>3 DEF IInv, SoundCall, PodChanges
  <2> QED
    BY <2>2, <2>3
<1>6. up_for' > 0 => Serving'
  <2>1. CASE p = base_url
    BY <1>3, <2>1
  <2>2. CASE p # base_url
    BY <1>4, <2>2 DEF PodChanges, IInv, TypeOK, Serving
  <2> QED
    BY <2>1, <2>2
<1>7. wait' > 0 => up_for' + wait' <= Bound'
  BY <1>3, <1>4, FailoverConstants DEF PodChanges, cooldownVars, IInv, TypeOK, Bound
<1> QED
  BY <1>2, <1>5, <1>6, <1>7 DEF IInv

LEMMA TickInv == ASSUME IInv, Tick PROVE IInv'
<1>1. /\ up_for \in Nat /\ wait \in Nat /\ ReadTimeout \in Nat /\ MaxCooldown \in Nat
      /\ Bound \in Nat /\ up_for <= Bound + 1 /\ wait <= MaxCooldown
  BY FailoverConstants DEF IInv, TypeOK, Bound
<1>2. up_for' \in {up_for, up_for + 1} /\ up_for' \in 0 .. Bound + 1
  BY <1>1 DEF Tick
<1>3. ASSUME NEW c \in Calls
      PROVE  /\ call'[c] \in Call
             /\ call'[c].pc = call[c].pc /\ call'[c].voices = call[c].voices
             /\ call'[c].pod = call[c].pod /\ call'[c].live = call[c].live
             /\ call[c].pc = "primary" => call'[c].left + 1 = call[c].left
  <2>1. call[c] \in Call /\ call[c].left \in 0 .. ReadTimeout
    BY DEF IInv, TypeOK, Call
  <2>2. CASE call[c].pc = "primary"
    <3>1. call'[c] = [call[c] EXCEPT !.left = call[c].left - 1]
      BY <2>2 DEF Tick
    <3>2. call[c].left > 0
      BY <2>2 DEF Tick
    <3> QED
      BY <1>1, <2>1, <2>2, <3>1, <3>2 DEF Call
  <2>3. CASE call[c].pc # "primary"
    BY <2>1, <2>3 DEF Tick
  <2> QED
    BY <2>2, <2>3
<1>4. TypeOK'
  <2>1. call' \in [Calls -> Call]
    BY <1>3 DEF Tick
  <2>2. wait' \in 0 .. MaxCooldown
    BY <1>1 DEF Tick
  <2> QED
    BY <1>2, <2>1, <2>2 DEF Tick, IInv, TypeOK, Bound
<1>5. ASSUME NEW c \in Calls PROVE SoundCall(c)'
  <2>1. call[c].left \in Int /\ call'[c].left \in Int
    BY <1>1, <1>3 DEF IInv, TypeOK, Call
  <2> QED
    BY <1>1, <1>2, <1>3, <2>1 DEF IInv, SoundCall, Tick
<1>6. up_for' > 0 => Serving'
  BY <1>1 DEF Tick, IInv, Serving
<1>7. wait' > 0 => up_for' + wait' <= Bound'
  BY <1>1, <1>2 DEF Tick, IInv, Bound
<1> QED
  BY <1>4, <1>5, <1>6, <1>7 DEF IInv

LEMMA StutterInv == ASSUME IInv, UNCHANGED vars PROVE IInv'
BY DEF IInv, TypeOK, SoundCall, Serving, Bound, vars

\* The inductive invariant of the failover and the locator together.
THEOREM Invariance == Spec => []IInv
<1>1. IInv /\ [Next]_vars => IInv'
  <2> SUFFICES ASSUME IInv, [Next]_vars PROVE IInv'
    OBVIOUS
  <2>1. ASSUME NEW c \in Calls, NEW m \in Models, NEW stream \in BOOLEAN, Start(c, m, stream)
        PROVE  IInv'
    BY <2>1, StartInv
  <2>2. ASSUME NEW c \in Calls, Respond(c) PROVE IInv'
    <3>1. CASE PrimaryRejects(c) \/ Finish(c)
      BY <3>1, EndInv DEF PrimaryRejects, Finish
    <3> QED
      BY <2>2, <3>1, PrimaryAnswersInv, FirstTokenInv, PrimaryFailsInv, FallbackTokenInv
      DEF Respond
  <2>3. ASSUME NEW c \in Calls, Abandon(c) PROVE IInv'
    BY <2>3, EndInv DEF Abandon
  <2>4. ASSUME NEW p \in Pods, NEW status \in {"off", "loading", "up"}, PodChanges(p, status)
        PROVE  IInv'
    BY <2>4, PodChangesInv
  <2> QED
    BY <2>1, <2>2, <2>3, <2>4, ListPodsInv, CheckHealthInv, TickInv, StutterInv DEF Next
<1> QED
  BY <1>1, InitIInv, PTL DEF Spec

\* Every variable keeps its type; in particular a cooldown never exceeds its
\* maximum, however many calls fail at once.
THEOREM TypeCorrect == Spec => []TypeOK
<1>1. IInv => TypeOK
  BY DEF IInv
<1> QED
  BY <1>1, Invariance, PTL

\* A stream never mixes the two models.
THEOREM NoMixedAnswers == Spec => []OneVoice
<1>1. IInv => OneVoice
  <2> SUFFICES ASSUME IInv, NEW c \in Calls PROVE call[c].voices # {"primary", "fallback"}
    BY DEF OneVoice
  <2>1. SoundCall(c) /\ call[c].pc \in {"idle", "primary", "streaming", "fallback", "broken"}
    BY DEF IInv, TypeOK, Call
  <2> QED
    BY <2>1 DEF SoundCall
<1> QED
  BY <1>1, Invariance, PTL

\* A server that is up and whose address is known is skipped for no longer than
\* the maximum cooldown and one read timeout.
THEOREM BoundedReturn == Spec => []ReturnBounded
<1>1. IInv => ReturnBounded
  BY FailoverConstants DEF IInv, TypeOK, ReturnBounded, Bound
<1> QED
  BY <1>1, Invariance, PTL

===============================================================================
