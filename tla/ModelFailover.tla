----------------------------- MODULE ModelFailover -----------------------------
(***************************************************************************)
(* Where the chat server sends its model calls: FailoverModelGateway, which *)
(* leaves a primary that does not answer for a cooldown, and               *)
(* RunPodPodLocator, which finds the pod the primary runs on.  Both are     *)
(* shared by every call in flight, and a call decides at its start and      *)
(* reports at its end: in between, other calls and the locator move on.     *)
(*                                                                         *)
(* The clock is not a variable: wait and the calls hold the time they have  *)
(* left, and Tick takes one unit of it.                                     *)
(***************************************************************************)
EXTENDS Integers

CONSTANTS
    Calls,         \* model calls that may run at the same time
    Models,
    Fallbacks,     \* the models that have a fallback route
    NPods,         \* pods are numbered in the order they were created
    UseLocator,    \* FALSE: the primary has a fixed address
    Cooldown,      \* primary_model_cooldown_seconds, in clock units
    MaxCooldown,   \* primary_model_max_cooldown_seconds
    ReadTimeout,   \* primary_model_read_timeout_seconds
    MaxExponent,   \* 1024: the least n for which 2**n is no float
    None           \* Python's None

Pods == 1 .. NPods

ASSUME FailoverConstants ==
    /\ Fallbacks \subseteq Models
    /\ NPods \in Nat \ {0} /\ UseLocator \in BOOLEAN
    /\ Cooldown \in Nat /\ MaxCooldown \in Nat /\ MaxCooldown >= Cooldown
    /\ ReadTimeout \in Nat \ {0} /\ MaxExponent \in Nat
    /\ None \notin Pods \cup Models

\* How long a pod has to be found and up until no call may skip it.
Bound == MaxCooldown + ReadTimeout

VARIABLES
    pods,           \* each pod: off, running but still loading the model, or up
    base_url,       \* the pod whose address the primary has, or None
    lookup,         \* the pod whose health the locator asks for, or None
    down,           \* _down_since is set
    failed_probes,
    wait,           \* what is left of the cooldown
    call,           \* the calls
    up_for          \* history: how long base_url has been a pod that is up

vars == <<pods, base_url, lookup, down, failed_probes, wait, call, up_for>>
locatorVars == <<pods, base_url, lookup, up_for>>
cooldownVars == <<down, failed_probes, wait>>

\* live: the pod was up when the call reached it, and has been since.
\* voices: whose tokens the caller was given.
Call == [ pc : {"idle", "primary", "streaming", "fallback", "broken"}, stream : BOOLEAN,
          model : Models \cup {None}, pod : Pods \cup {None}, live : BOOLEAN,
          left : 0 .. ReadTimeout, voices : SUBSET {"primary", "fallback"} ]

NoCall == [ pc |-> "idle", stream |-> FALSE, model |-> None, pod |-> None, live |-> FALSE,
            left |-> 0, voices |-> {} ]

TypeOK ==
    /\ pods \in [Pods -> {"off", "loading", "up"}]
    /\ base_url \in Pods \cup {None}
    /\ lookup \in Pods \cup {None}
    /\ down \in BOOLEAN
    /\ failed_probes \in 0 .. MaxExponent
    /\ wait \in 0 .. MaxCooldown
    /\ call \in [Calls -> Call]
    /\ up_for \in 0 .. Bound + 1

Serving == base_url # None /\ pods[base_url] = "up"

-----------------------------------------------------------------------------
(* The gateway's own state.  A definition named X_something is X with a       *)
(* mistake in it; nothing uses it.                                            *)

Skips(m) == m \in Fallbacks /\ (base_url = None \/ wait > 0)

CooldownAfter_Uncapped(probes) == Cooldown * 2 ^ probes

CooldownAfter(probes) ==
    LET doubled == Cooldown * 2 ^ probes
    IN  IF doubled \in 0 .. MaxCooldown THEN doubled ELSE MaxCooldown

MarkDown ==
    /\ down' = TRUE
    /\ wait' = CooldownAfter(failed_probes)
    /\ failed_probes' = failed_probes + 1

MarkUp == down' = FALSE /\ wait' = 0 /\ failed_probes' = 0

Become(c, change) == call' = [call EXCEPT ![c] = change]

-----------------------------------------------------------------------------
(* A call: complete, structured or stream. *)

Start(c, m, stream) ==
    /\ call[c].pc = "idle"
    /\ Skips(m) \/ base_url # None
    /\ Become(c, IF Skips(m)
                 THEN [NoCall EXCEPT !.pc = "fallback"]
                 ELSE [NoCall EXCEPT !.pc = "primary", !.stream = stream, !.model = m,
                                     !.pod = base_url, !.live = Serving, !.left = ReadTimeout])
    /\ UNCHANGED <<locatorVars, cooldownVars>>

End(c) == Become(c, NoCall)

\* The answer arrives whole.
PrimaryAnswers(c) ==
    /\ call[c].pc = "primary" /\ call[c].live /\ ~call[c].stream
    /\ MarkUp
    /\ End(c)
    /\ UNCHANGED locatorVars

FirstToken(c) ==
    /\ call[c].pc = "primary" /\ call[c].live /\ call[c].stream
    /\ MarkUp
    /\ Become(c, [call[c] EXCEPT !.pc = "streaming", !.left = 0, !.voices = {"primary"}])
    /\ UNCHANGED locatorVars

\* An error that says nothing of the server: the request or the answer was
\* malformed.  It goes to the caller, as the end of a stream does.
PrimaryRejects(c) ==
    /\ call[c].pc \in {"primary", "streaming"} /\ call[c].live
    /\ End(c)
    /\ UNCHANGED <<locatorVars, cooldownVars>>

MayFailOver_Always(c) == call[c].model \in Fallbacks

\* What was sent to the caller cannot be taken back.
MayFailOver(c) == call[c].pc = "primary" /\ call[c].model \in Fallbacks

\* No connection, a timeout, a status like 404 or 500.  Beyond MaxExponent the
\* float multiplication of _mark_down raises, before anything is assigned.
PrimaryFails(c) ==
    /\ call[c].pc \in {"primary", "streaming"} /\ ~call[c].live
    /\ IF ~MayFailOver(c) THEN End(c) /\ UNCHANGED cooldownVars
       ELSE IF failed_probes >= MaxExponent
       THEN Become(c, [NoCall EXCEPT !.pc = "broken"]) /\ UNCHANGED cooldownVars
       ELSE MarkDown /\ Become(c, [NoCall EXCEPT !.pc = "fallback", !.voices = call[c].voices])
    /\ UNCHANGED locatorVars

FallbackToken(c) ==
    /\ call[c].pc = "fallback" /\ "fallback" \notin call[c].voices
    /\ Become(c, [call[c] EXCEPT !.voices = @ \cup {"fallback"}])
    /\ UNCHANGED <<locatorVars, cooldownVars>>

\* The fallback is done, by an answer or an error; or the error reached the caller.
Finish(c) ==
    /\ call[c].pc \in {"fallback", "broken"}
    /\ End(c)
    /\ UNCHANGED <<locatorVars, cooldownVars>>

\* The caller's own timeout, or its client, cancels the call.
Abandon(c) ==
    /\ call[c].pc \in {"primary", "streaming"}
    /\ End(c)
    /\ UNCHANGED <<locatorVars, cooldownVars>>

-----------------------------------------------------------------------------
(* RunPodPodLocator.refresh; one that fails changes nothing. *)

Running == {p \in Pods : pods[p] # "off"}

\* A new address: the time it has been good for starts over.
Locate(p) ==
    /\ base_url' = p
    /\ up_for' = IF p = base_url THEN up_for ELSE 0

ListPods_Oldest ==
    /\ UseLocator /\ lookup = None
    /\ \/ Running = {} /\ Locate(None) /\ lookup' = None
       \/ /\ \E p \in Running : (\A q \in Running : q >= p) /\ lookup' = p
          /\ UNCHANGED <<base_url, up_for>>
    /\ UNCHANGED <<pods, cooldownVars, call>>

\* The pods are listed: the newest that runs is asked for its health.
ListPods ==
    /\ UseLocator /\ lookup = None
    /\ \/ Running = {} /\ Locate(None) /\ lookup' = None
       \/ /\ \E p \in Running : (\A q \in Running : q <= p) /\ lookup' = p
          /\ UNCHANGED <<base_url, up_for>>
    /\ UNCHANGED <<pods, cooldownVars, call>>

CheckHealth ==
    /\ lookup # None
    /\ Locate(IF pods[lookup] = "up" THEN lookup ELSE None)
    /\ lookup' = None
    /\ UNCHANGED <<pods, cooldownVars, call>>

-----------------------------------------------------------------------------
(* The environment. *)

\* A pod that goes away takes the calls it was serving with it.
PodChanges(p, status) ==
    /\ pods[p] # status
    /\ pods' = [pods EXCEPT ![p] = status]
    /\ call' = [c \in Calls |->
                  IF call[c].pod = p THEN [call[c] EXCEPT !.live = FALSE] ELSE call[c]]
    /\ up_for' = IF p = base_url THEN 0 ELSE up_for
    /\ UNCHANGED <<base_url, lookup, cooldownVars>>

\* A call that waits for the primary is answered or fails within the read timeout.
Tick ==
    /\ \A c \in Calls : call[c].pc = "primary" => call[c].left > 0
    /\ wait' = IF wait > 0 THEN wait - 1 ELSE 0
    /\ call' = [c \in Calls |->
                  IF call[c].pc = "primary" THEN [call[c] EXCEPT !.left = @ - 1] ELSE call[c]]
    /\ up_for' = IF Serving /\ up_for <= Bound THEN up_for + 1 ELSE up_for
    /\ UNCHANGED <<pods, base_url, lookup, down, failed_probes>>

-----------------------------------------------------------------------------

Init ==
    /\ pods \in [Pods -> {"off", "loading", "up"}]
    /\ base_url \in IF UseLocator THEN {None} ELSE {NPods}
    /\ lookup = None
    /\ down = FALSE
    /\ failed_probes = 0
    /\ wait = 0
    /\ call = [c \in Calls |-> NoCall]
    /\ up_for = 0

Respond(c) ==
    \/ PrimaryAnswers(c) \/ FirstToken(c) \/ PrimaryRejects(c) \/ PrimaryFails(c)
    \/ FallbackToken(c) \/ Finish(c)

Next ==
    \/ \E c \in Calls : \/ \E m \in Models, stream \in BOOLEAN : Start(c, m, stream)
                        \/ Respond(c) \/ Abandon(c)
    \/ ListPods \/ CheckHealth
    \/ \E p \in Pods, status \in {"off", "loading", "up"} : PodChanges(p, status)
    \/ Tick

\* The locator's loop survives its errors, calls end, and time passes.  Nobody
\* has to make a call, and no pod has to come up.
Fairness ==
    /\ \A c \in Calls : WF_vars(Respond(c))
    /\ WF_vars(ListPods) /\ WF_vars(CheckHealth) /\ WF_vars(Tick)

Spec == Init /\ [][Next]_vars
FairSpec == Spec /\ Fairness

-----------------------------------------------------------------------------
(* Properties. *)

\* One answer has one author: a stream that began on the primary never goes on
\* with the fallback's text.
OneVoice == \A c \in Calls : call[c].voices # {"primary", "fallback"}

\* "The maximum cooldown is the longest delay before the primary is used again":
\* once the server is up and its address known, no call skips it for longer
\* than that, plus the time a call sent to the dead server takes to fail.
ReturnBounded == up_for > Bound => wait = 0

\* A pod that comes up and stays the newest is found, and calls go to it, with
\* no restart of the server.
PodIsUsed ==
    \A p \in Pods :
        <>[](pods[p] = "up" /\ \A q \in Running : q <= p)
            => <>[](base_url = p /\ \A m \in Models : ~Skips(m))

-----------------------------------------------------------------------------
(* The inductive invariant of ModelFailoverProofs: who has spoken so far, and *)
(* how the time that base_url has been good for bounds what is left of the    *)
(* failures to come and of the cooldown they start.                           *)

SoundCall(c) ==
    /\ call[c].pc \in {"idle", "primary", "broken"} => call[c].voices = {}
    /\ call[c].pc = "streaming" => call[c].voices = {"primary"}
    /\ call[c].pc = "fallback" => call[c].voices \subseteq {"fallback"}
    /\ (call[c].pc = "primary" /\ ~(call[c].live /\ call[c].pod = base_url))
           => up_for + call[c].left <= ReadTimeout

IInv ==
    /\ TypeOK
    /\ \A c \in Calls : SoundCall(c)
    /\ up_for > 0 => Serving
    /\ wait > 0 => up_for + wait <= Bound

===============================================================================
