------------------------------- MODULE Render -------------------------------
(***************************************************************************)
(* The render service: fetch workers share one browser, which is started by *)
(* the first render that needs it, a semaphore, and a circuit breaker. The  *)
(* browser sits behind a read-write lock that is held while it is launched  *)
(* or taken away; the failures are counted by an atomic of their own, next  *)
(* to the time until which the breaker is open.                             *)
(***************************************************************************)
EXTENDS Integers, FiniteSets

CONSTANTS
    Renders,    \* the fetch workers, each with a page to render at a time
    Browsers,   \* names for Chromium processes
    NoBrowser,
    NoRender,
    Permits,    \* concurrency
    Threshold   \* FAILURE_THRESHOLD

ASSUME RenderAssumption ==
    /\ NoBrowser \notin Browsers /\ NoRender \notin Renders
    /\ Permits \in Nat \ {0} /\ Threshold \in Nat \ {0}

VARIABLES
    render,     \* render[r]: where the call of worker r stands, and its Arc<Browser>
    browser,    \* the browser in the service
    writer,     \* who holds the lock on it for writing
    dead,       \* browsers whose process or message loop ended
    failures,   \* failures counted since the last success or reset
    cooldown,   \* the breaker: cooldown_until, and whether it is over
    streak,     \* history: loads that failed since one succeeded or the breaker opened
    old         \* history: browsers there were when the breaker last opened

vars == <<render, browser, writer, dead, failures, cooldown, streak, old>>

-----------------------------------------------------------------------------
Stages == {"idle", "permit", "read", "lock", "launch", "load", "trip", "drop", "reset"}
Idle == [at |-> "idle", browser |-> NoBrowser]

(* The calls that hold a permit, which is kept until the call returns. (The *)
(* faulty variant gives it back at once, as `let _ = acquire()` would.)     *)
BadAdmitted == {}
Admitted == {r \in Renders : render[r].at \notin {"idle", "permit"}}

(* Nobody holds the lock for writing.                                       *)
Free == writer = NoRender

(* Processes that run, or are kept by somebody.                             *)
Alive == ({browser} \cup {render[r].browser : r \in Renders}) \ {NoBrowser}

(* The types; and the lock is held by the call that launches or takes away  *)
(* the browser, and by no other.                                            *)
TypeOK ==
    /\ render \in [Renders -> [at : Stages, browser : Browsers \cup {NoBrowser}]]
    /\ browser \in Browsers \cup {NoBrowser}
    /\ writer \in Renders \cup {NoRender}
    /\ dead \subseteq Alive
    /\ failures \in Nat
    /\ cooldown \in {"none", "open", "over"}
    /\ streak \in Nat
    /\ old \subseteq Browsers
    /\ \A r \in Renders : writer = r <=> render[r].at \in {"launch", "reset"}

Init ==
    /\ render = [r \in Renders |-> Idle]
    /\ browser = NoBrowser /\ writer = NoRender /\ dead = {}
    /\ failures = 0 /\ cooldown = "none" /\ streak = 0 /\ old = {}

Goto(r, at) == render' = [render EXCEPT ![r].at = at]
Load(r, b) == render' = [render EXCEPT ![r] = [at |-> "load", browser |-> b]]

(* The call returns: its permit and its Arc go, and with the last Arc the   *)
(* process.                                                                 *)
Return(r) ==
    /\ render' = [render EXCEPT ![r] = Idle]
    /\ dead' = dead \cap Alive'

-----------------------------------------------------------------------------
(* The breaker is looked at before the semaphore. A cooldown that is over   *)
(* is cleared; as long as it is not, the call ends here.                    *)
CheckBreaker(r) ==
    /\ render[r].at = "idle" /\ cooldown # "open"
    /\ cooldown' = "none"
    /\ Goto(r, "permit")
    /\ UNCHANGED <<browser, writer, dead, failures, streak, old>>

Acquire(r) ==
    /\ render[r].at = "permit" /\ Cardinality(Admitted) < Permits
    /\ Goto(r, "read")
    /\ UNCHANGED <<browser, writer, dead, failures, cooldown, streak, old>>

(* ensure_browser: under the read lock, then again under the write lock.    *)
ReadBrowser(r) ==
    /\ render[r].at = "read" /\ Free
    /\ IF browser # NoBrowser THEN Load(r, browser) ELSE Goto(r, "lock")
    /\ UNCHANGED <<browser, writer, dead, failures, cooldown, streak, old>>

LockBrowser(r) ==
    /\ render[r].at = "lock" /\ Free
    /\ IF browser # NoBrowser THEN Load(r, browser) /\ UNCHANGED writer
                               ELSE Goto(r, "launch") /\ writer' = r
    /\ UNCHANGED <<browser, dead, failures, cooldown, streak, old>>

Launch(r) ==
    /\ render[r].at = "launch"
    /\ \E b \in Browsers \ Alive : browser' = b /\ Load(r, b) /\ old' = old \ {b}
    /\ writer' = NoRender
    /\ dead' = dead \cap Alive'
    /\ UNCHANGED <<failures, cooldown, streak>>

(* A launch that fails ends the call, and is not counted.                   *)
LaunchFails(r) ==
    /\ render[r].at = "launch"
    /\ writer' = NoRender
    /\ UNCHANGED <<browser, failures, cooldown, streak, old>>
    /\ Return(r)

PageLoaded(r) ==
    /\ render[r].at = "load" /\ render[r].browser \notin dead
    /\ failures' = 0 /\ streak' = 0
    /\ UNCHANGED <<browser, writer, cooldown, old>>
    /\ Return(r)

-----------------------------------------------------------------------------
(* record_failure: the page fails or takes too long. Each call counts by an *)
(* atomic addition of its own and decides by its result.                    *)
BadTrips(n) == n > Threshold
Trips(n) == n >= Threshold

PageFails(r) ==
    /\ render[r].at = "load"
    /\ failures' = failures + 1 /\ streak' = streak + 1
    /\ UNCHANGED <<browser, writer, cooldown, old>>
    /\ IF Trips(failures + 1) THEN Goto(r, "trip") /\ UNCHANGED dead ELSE Return(r)

OpenBreaker(r) ==
    /\ render[r].at = "trip"
    /\ cooldown' = "open" /\ streak' = 0 /\ old' = Alive
    /\ Goto(r, "drop")
    /\ UNCHANGED <<browser, writer, dead, failures>>

(* The service's browser goes, whichever it is by now. It is never closed,  *)
(* as the caller's Arc makes into_inner give None, but dropped with the     *)
(* last Arc. (The faulty variant keeps it.)                                 *)
BadTaken == browser
Taken == NoBrowser

TakeBrowser(r) ==
    /\ render[r].at = "drop" /\ Free
    /\ browser' = Taken /\ writer' = r
    /\ Goto(r, "reset")
    /\ dead' = dead \cap Alive'
    /\ UNCHANGED <<failures, cooldown, streak, old>>

ResetFailures(r) ==
    /\ render[r].at = "reset"
    /\ failures' = 0 /\ writer' = NoRender
    /\ UNCHANGED <<browser, cooldown, streak, old>>
    /\ Return(r)

-----------------------------------------------------------------------------
(* COOLDOWN passes; a browser crashes or its message loop ends.             *)
CooldownOver ==
    /\ cooldown = "open" /\ cooldown' = "over"
    /\ UNCHANGED <<render, browser, writer, dead, failures, streak, old>>

BrowserDies(b) ==
    /\ b \in Alive \ dead /\ dead' = dead \cup {b}
    /\ UNCHANGED <<render, browser, writer, failures, cooldown, streak, old>>

(* What a call does once it is let in.                                      *)
Step(r) ==
    \/ Acquire(r) \/ ReadBrowser(r) \/ LockBrowser(r) \/ Launch(r) \/ LaunchFails(r)
    \/ PageLoaded(r) \/ PageFails(r) \/ OpenBreaker(r) \/ TakeBrowser(r)
    \/ ResetFailures(r)

Next ==
    \/ \E r \in Renders : CheckBreaker(r) \/ Step(r)
    \/ CooldownOver
    \/ \E b \in Browsers : BrowserDies(b)

(* Semaphore and lock are fair queues, so that who waits again and again    *)
(* gets in; launching and loading have timeouts; time passes.               *)
Fairness ==
    /\ \A r \in Renders : SF_vars(Step(r))
    /\ WF_vars(CooldownOver)

Spec == Init /\ [][Next]_vars
FairSpec == Spec /\ Fairness

-----------------------------------------------------------------------------
(* However launches, trips and calls that still use the browser of an       *)
(* earlier trip are interleaved, the service never keeps more Chromium      *)
(* processes than it has permits. (The semaphore bounds pages; that it      *)
(* bounds processes, too, rests on who may launch and when.)                *)
BrowsersBounded == Cardinality(Alive) <= Permits

(* The breaker opens: no more loads fail in a row than the permits allow to *)
(* be lost by the late reset of failures in record_failure, which wipes out *)
(* what other calls counted since, before somebody is about to open it. And *)
(* the counter itself is no further than the calls in flight can take it.   *)
BreakerOpens ==
    /\ \/ streak <= Permits * (Threshold - 1)
       \/ \E r \in Renders : render[r].at = "trip"
    /\ failures < Threshold + Permits

(* "Drop the browser so the next attempt after cooldown starts fresh": once *)
(* every trip has got as far as taking the browser, the service has none    *)
(* that there was when the breaker opened, also if calls let in before the  *)
(* trip asked for a browser between these two steps.                        *)
FreshAfterTrip ==
    browser \in old => \E r \in Renders : render[r].at = "drop"

(* ensure_browser's double check: a browser is never replaced by another    *)
(* one; it has to be taken away first.                                      *)
NoSecondLaunch ==
    [][browser # NoBrowser => browser' \in {browser, NoBrowser}]_vars

(* A browser that died is replaced after all, if pages go on being rendered:*)
(* nothing looks whether it lives, but its failures trip the breaker, also  *)
(* when calls that use an older one succeed and reset the count.            *)
DeadBrowserGoes ==
    \A b \in Browsers :
        ([]<>(\E r \in Renders : render[r].at = "permit"))
            => (browser = b /\ b \in dead ~> browser # b)

(* Not so: launch_browser has "if it errors we let it die and the next render() will   *)
(* trigger a relaunch", but ensure_browser hands out whatever is   *)
(* there, and only the breaker takes it away.                               *)
NextRenderRelaunches ==
    [][\A r \in Renders :
          render[r].browser = NoBrowser /\ render'[r].browser # NoBrowser
              => render'[r].browser \notin dead]_vars
=============================================================================
