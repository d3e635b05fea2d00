---------------------------- MODULE RenderProofs ----------------------------
(***************************************************************************)
(* Proofs about Render, for any set of calls, any browsers, and any numbers *)
(* of permits and failures.                                                 *)
(*                                                                          *)
(* RenderInv is the inductive invariant. PermitsKept is the semaphore.      *)
(* Holders says which calls have a browser, and that whoever launches one   *)
(* has found none: from it follows that a browser is never replaced. What   *)
(* bounds the processes is OthersBounded: next to the browser in the        *)
(* service there is room for one less than the permits. A launch            *)
(* establishes it, since the caller has a permit and no browser yet, and    *)
(* from then on the browsers of the past only become fewer. StreakInv, on   *)
(* top of it, is why the breaker opens although it forgets failures.        *)
(***************************************************************************)
EXTENDS Render, FiniteSetTheorems, TLAPS

PermitsKept ==
    /\ IsFiniteSet(Admitted)
    /\ Cardinality(Admitted) <= Permits

Holders ==
    \A r \in Renders :
        /\ render[r].browser # NoBrowser <=> render[r].at \in {"load", "trip", "drop", "reset"}
        /\ render[r].at = "launch" => browser = NoBrowser

Others == {render[r].browser : r \in Renders} \ {NoBrowser, browser}

OthersBounded ==
    browser # NoBrowser =>
        /\ IsFiniteSet(Others)
        /\ Cardinality(Others) < Permits

RenderInv == TypeOK /\ PermitsKept /\ Holders /\ OthersBounded

-----------------------------------------------------------------------------
(* The browsers of a finite set of calls are not more than the calls.       *)
LEMMA BrowsersOf ==
  ASSUME NEW S, IsFiniteSet(S)
  PROVE  /\ IsFiniteSet({render[r].browser : r \in S})
         /\ Cardinality({render[r].browser : r \in S}) <= Cardinality(S)
<1>. DEFINE T == {render[r].browser : r \in S}
            g == [r \in S |-> render[r].browser]
<1>1. g \in Surjection(S, T)
  BY DEF Surjection
<1>. HIDE DEF T, g
<1>2. IsFiniteSet(T) /\ Cardinality(T) <= Cardinality(S)
  BY <1>1, FS_Surjection, Zenon
<1>. QED  BY <1>2 DEF T

(* A part of a finite set is finite and no larger.                          *)
LEMMA Part ==
  ASSUME NEW S, IsFiniteSet(S), NEW T, T \subseteq S
  PROVE  IsFiniteSet(T) /\ Cardinality(T) <= Cardinality(S) /\ Cardinality(S) \in Nat /\ Cardinality(T) \in Nat
<1>1. IsFiniteSet(T) /\ Cardinality(T) <= Cardinality(S)
  BY FS_Subset
<1>. QED  BY <1>1, FS_CardinalityType

-----------------------------------------------------------------------------
(* What the invariant says of the processes.                                *)
LEMMA BoundedFromInv ==
  ASSUME RenderInv
  PROVE  BrowsersBounded
<1>. USE RenderAssumption
<1>1. CASE browser = NoBrowser
  <2>1. Alive \subseteq {render[r].browser : r \in Admitted}
    BY <1>1 DEF RenderInv, Holders, Alive, Admitted
  <2>2. /\ IsFiniteSet({render[r].browser : r \in Admitted})
        /\ Cardinality({render[r].browser : r \in Admitted}) <= Cardinality(Admitted)
    BY BrowsersOf DEF RenderInv, PermitsKept
  <2>3. /\ Cardinality(Alive) <= Cardinality({render[r].browser : r \in Admitted})
        /\ Cardinality(Alive) \in Nat
        /\ Cardinality({render[r].browser : r \in Admitted}) \in Nat
    BY <2>1, <2>2, Part
  <2>4. Cardinality(Admitted) \in Nat /\ Cardinality(Admitted) <= Permits
    BY FS_CardinalityType DEF RenderInv, PermitsKept
  <2>. QED  BY <2>2, <2>3, <2>4 DEF BrowsersBounded
<1>2. CASE browser # NoBrowser
  <2>1. Alive = Others \cup {browser} /\ browser \notin Others
    BY <1>2 DEF Alive, Others
  <2>2. IsFiniteSet(Others) /\ Cardinality(Others) < Permits
    BY <1>2 DEF RenderInv, OthersBounded
  <2>3. Cardinality(Alive) = Cardinality(Others) + 1
    BY <2>1, <2>2, FS_AddElement
  <2>4. Cardinality(Others) \in Nat
    BY <2>2, FS_CardinalityType
  <2>. QED  BY <2>2, <2>3, <2>4 DEF BrowsersBounded
<1>. QED  BY <1>1, <1>2

(* A step after which no more calls are admitted, and no more browsers are  *)
(* kept beside the one in the service, keeps both bounds.                   *)
LEMMA FewerKeepsBounds ==
  ASSUME RenderInv, Admitted' \subseteq Admitted,
         browser' # NoBrowser => browser' = browser /\ Others' \subseteq Others
  PROVE  PermitsKept' /\ OthersBounded'
<1>. USE RenderAssumption
<1>1. PermitsKept'
  <2>1. IsFiniteSet(Admitted') /\ Cardinality(Admitted') <= Cardinality(Admitted)
          /\ Cardinality(Admitted) \in Nat /\ Cardinality(Admitted') \in Nat
    BY Part DEF RenderInv, PermitsKept
  <2>. QED  BY <2>1 DEF RenderInv, PermitsKept
<1>2. OthersBounded'
  <2>. SUFFICES ASSUME browser' # NoBrowser
                PROVE  IsFiniteSet(Others') /\ Cardinality(Others') < Permits
    BY DEF OthersBounded
  <2>1. IsFiniteSet(Others) /\ Cardinality(Others) < Permits
    BY DEF RenderInv, OthersBounded
  <2>2. IsFiniteSet(Others') /\ Cardinality(Others') <= Cardinality(Others)
          /\ Cardinality(Others) \in Nat /\ Cardinality(Others') \in Nat
    BY <2>1, Part
  <2>. QED  BY <2>1, <2>2
<1>. QED  BY <1>1, <1>2

-----------------------------------------------------------------------------
(* What the three ways to move a call leave of the others.                  *)
LEMMA GotoFacts ==
  ASSUME TypeOK, NEW r \in Renders, NEW at \in Stages, Goto(r, at)
  PROVE  /\ render' \in [Renders -> [at : Stages, browser : Browsers \cup {NoBrowser}]]
         /\ render'[r].at = at
         /\ \A q \in Renders : render'[q].browser = render[q].browser
         /\ \A q \in Renders \ {r} : render'[q].at = render[q].at
  BY DEF TypeOK, Goto

(* A caller that has a browser loads its page in it.                        *)
LEMMA LoadFacts ==
  ASSUME TypeOK, NEW r \in Renders, NEW b \in Browsers, Load(r, b)
  PROVE  /\ render' \in [Renders -> [at : Stages, browser : Browsers \cup {NoBrowser}]]
         /\ render'[r].at = "load" /\ render'[r].browser = b
         /\ \A q \in Renders \ {r} : render'[q] = render[q]
  BY DEF TypeOK, Load, Stages

(* A caller that returns is idle and holds no browser.                      *)
LEMMA ReturnFacts ==
  ASSUME TypeOK, NEW r \in Renders, Return(r)
  PROVE  /\ render' \in [Renders -> [at : Stages, browser : Browsers \cup {NoBrowser}]]
         /\ render'[r].at = "idle" /\ render'[r].browser = NoBrowser
         /\ \A q \in Renders \ {r} : render'[q] = render[q]
         /\ dead' = dead \cap Alive'
  BY DEF TypeOK, Return, Idle, Stages

(* Each action keeps the invariant.                                         *)
LEMMA CheckBreakerKeepsInv ==
  ASSUME RenderInv, NEW r \in Renders, CheckBreaker(r)
  PROVE  RenderInv'
<1>. USE RenderAssumption DEF RenderInv
<1>1. /\ render' \in [Renders -> [at : Stages, browser : Browsers \cup {NoBrowser}]]
      /\ render'[r].at = "permit"
      /\ \A q \in Renders : render'[q].browser = render[q].browser
      /\ \A q \in Renders \ {r} : render'[q].at = render[q].at
  BY GotoFacts DEF CheckBreaker, Stages
<1>2. TypeOK'
  BY <1>1 DEF TypeOK, CheckBreaker, Alive
<1>3. Holders'
  BY <1>1 DEF Holders, CheckBreaker, TypeOK
<1>4. PermitsKept' /\ OthersBounded'
  <2>1. Admitted' \subseteq Admitted
    BY <1>1 DEF Admitted
  <2>2. browser' = browser /\ Others' \subseteq Others
    BY <1>1 DEF Others, CheckBreaker
  <2>. QED  BY <2>1, <2>2, FewerKeepsBounds
<1>. QED  BY <1>2, <1>3, <1>4

(* A caller takes a permit.                                                 *)
LEMMA AcquireKeepsInv ==
  ASSUME RenderInv, NEW r \in Renders, Acquire(r)
  PROVE  RenderInv'
<1>. USE RenderAssumption DEF RenderInv
<1>1. /\ render' \in [Renders -> [at : Stages, browser : Browsers \cup {NoBrowser}]]
      /\ render'[r].at = "read"
      /\ \A q \in Renders : render'[q].browser = render[q].browser
      /\ \A q \in Renders \ {r} : render'[q].at = render[q].at
  BY GotoFacts DEF Acquire, Stages
<1>2. TypeOK'
  BY <1>1 DEF TypeOK, Acquire, Alive
<1>3. Holders'
  BY <1>1 DEF Holders, Acquire, TypeOK
<1>4. PermitsKept'
  <2>1. Admitted' = Admitted \cup {r}
    BY <1>1 DEF Admitted
  <2>2. IsFiniteSet(Admitted) /\ Cardinality(Admitted) \in Nat /\ Cardinality(Admitted) < Permits
    BY FS_CardinalityType DEF PermitsKept, Acquire
  <2>3. /\ IsFiniteSet(Admitted \cup {r})
        /\ \/ Cardinality(Admitted \cup {r}) = Cardinality(Admitted)
           \/ Cardinality(Admitted \cup {r}) = Cardinality(Admitted) + 1
    BY <2>2, FS_AddElement
  <2>. QED  BY <2>1, <2>2, <2>3 DEF PermitsKept
<1>5. OthersBounded'
  <2>1. browser' = browser /\ Others' = Others
    BY <1>1 DEF Others, Acquire
  <2>. QED  BY <2>1 DEF OthersBounded
<1>. QED  BY <1>2, <1>3, <1>4, <1>5

(* A call that is let in takes the browser that is there.                   *)
LEMMA LoadKeepsInv ==
  ASSUME RenderInv, NEW r \in Renders, render[r].at \in {"read", "lock"},
         browser # NoBrowser, Load(r, browser),
         UNCHANGED <<browser, writer, dead, failures, cooldown, streak, old>>
  PROVE  RenderInv'
<1>. USE RenderAssumption DEF RenderInv
<1>1. /\ render' \in [Renders -> [at : Stages, browser : Browsers \cup {NoBrowser}]]
      /\ render'[r].at = "load" /\ render'[r].browser = browser
      /\ \A q \in Renders \ {r} : render'[q] = render[q]
  BY LoadFacts DEF TypeOK
<1>2. TypeOK'
  <2>1. Alive \subseteq Alive'
    BY <1>1 DEF Alive, Holders
  <2>. QED  BY <1>1, <2>1 DEF TypeOK
<1>3. Holders'
  BY <1>1 DEF Holders, TypeOK
<1>4. PermitsKept' /\ OthersBounded'
  <2>1. Admitted' \subseteq Admitted
    BY <1>1 DEF Admitted
  <2>2. Others' \subseteq Others
    BY <1>1 DEF Others
  <2>. QED  BY <2>1, <2>2, FewerKeepsBounds
<1>. QED  BY <1>2, <1>3, <1>4

(* A call that goes on with the browser it has, or has not, and leaves the  *)
(* browser of the service alone.                                            *)
LEMMA GotoKeepsBounds ==
  ASSUME RenderInv, NEW r \in Renders, NEW at \in Stages, Goto(r, at),
         render[r].at \notin {"idle", "permit"}, UNCHANGED browser
  PROVE  PermitsKept' /\ OthersBounded' /\ Alive' = Alive
<1>1. /\ \A q \in Renders : render'[q].browser = render[q].browser
      /\ \A q \in Renders \ {r} : render'[q].at = render[q].at
  BY GotoFacts DEF RenderInv
<1>2. Admitted' \subseteq Admitted
  BY <1>1 DEF Admitted
<1>3. Others' = Others /\ Alive' = Alive
  BY <1>1 DEF Others, Alive
<1>. QED  BY <1>2, <1>3, FewerKeepsBounds

(* A caller reads the browser under the read lock.                          *)
LEMMA ReadBrowserKeepsInv ==
  ASSUME RenderInv, NEW r \in Renders, ReadBrowser(r)
  PROVE  RenderInv'
<1>. USE RenderAssumption DEF RenderInv
<1>1. CASE browser # NoBrowser
  BY <1>1, LoadKeepsInv DEF ReadBrowser
<1>2. CASE browser = NoBrowser
  <2>0. Goto(r, "lock") /\ "lock" \in Stages
    BY <1>2 DEF ReadBrowser, Stages
  <2>1. /\ render' \in [Renders -> [at : Stages, browser : Browsers \cup {NoBrowser}]]
        /\ render'[r].at = "lock"
        /\ \A q \in Renders : render'[q].browser = render[q].browser
        /\ \A q \in Renders \ {r} : render'[q].at = render[q].at
    BY <2>0, GotoFacts
  <2>2. PermitsKept' /\ OthersBounded' /\ Alive' = Alive
    BY <2>0, GotoKeepsBounds DEF ReadBrowser
  <2>3. TypeOK'
    BY <2>1, <2>2 DEF TypeOK, ReadBrowser
  <2>4. Holders'
    BY <2>1 DEF Holders, ReadBrowser, TypeOK
  <2>. QED  BY <2>2, <2>3, <2>4
<1>. QED  BY <1>1, <1>2

(* A caller takes the write lock and looks again.                           *)
LEMMA LockBrowserKeepsInv ==
  ASSUME RenderInv, NEW r \in Renders, LockBrowser(r)
  PROVE  RenderInv'
<1>. USE RenderAssumption DEF RenderInv
<1>1. CASE browser # NoBrowser
  BY <1>1, LoadKeepsInv DEF LockBrowser
<1>2. CASE browser = NoBrowser
  <2>0. Goto(r, "launch") /\ "launch" \in Stages /\ writer = NoRender /\ writer' = r
    BY <1>2 DEF LockBrowser, Free, Stages
  <2>1. /\ render' \in [Renders -> [at : Stages, browser : Browsers \cup {NoBrowser}]]
        /\ render'[r].at = "launch"
        /\ \A q \in Renders : render'[q].browser = render[q].browser
        /\ \A q \in Renders \ {r} : render'[q].at = render[q].at
    BY <2>0, GotoFacts
  <2>2. PermitsKept' /\ OthersBounded' /\ Alive' = Alive
    BY <2>0, GotoKeepsBounds DEF LockBrowser
  <2>3. TypeOK'
    BY <2>0, <2>1, <2>2 DEF TypeOK, LockBrowser
  <2>4. Holders'
    BY <1>2, <2>1 DEF Holders, LockBrowser, TypeOK
  <2>. QED  BY <2>2, <2>3, <2>4
<1>. QED  BY <1>1, <1>2

(* The browser of a launch is not one of the others, of which there are     *)
(* less than permits, since the caller has a permit and had no browser.     *)
LEMMA LaunchKeepsInv ==
  ASSUME RenderInv, NEW r \in Renders, Launch(r)
  PROVE  RenderInv'
<1>. USE RenderAssumption DEF RenderInv
<1>1. PICK b \in Browsers \ Alive : browser' = b /\ Load(r, b) /\ old' = old \ {b}
  BY DEF Launch
<1>2. /\ render' \in [Renders -> [at : Stages, browser : Browsers \cup {NoBrowser}]]
      /\ render'[r].at = "load" /\ render'[r].browser = b
      /\ \A q \in Renders \ {r} : render'[q] = render[q]
  BY <1>1, LoadFacts
<1>3. render[r].at = "launch" /\ browser = NoBrowser /\ writer = r
  BY DEF Launch, Holders, TypeOK
<1>4. TypeOK'
  <2>1. dead' \subseteq Alive'
    BY DEF Launch
  <2>2. \A q \in Renders : writer' = q <=> render'[q].at \in {"launch", "reset"}
    BY <1>2, <1>3 DEF TypeOK, Launch
  <2>. QED  BY <1>1, <1>2, <2>1, <2>2 DEF TypeOK, Launch
<1>5. Holders'
  BY <1>1, <1>2, <1>3 DEF Holders, TypeOK
<1>6. PermitsKept'
  <2>1. Admitted' = Admitted
    BY <1>2, <1>3 DEF Admitted
  <2>. QED  BY <2>1 DEF PermitsKept
<1>7. OthersBounded'
  <2>. DEFINE Rest == Admitted \ {r}
  <2>1. Others' \subseteq {render[q].browser : q \in Rest}
    BY <1>1, <1>2, <1>3 DEF Others, Holders, Admitted
  <2>2. IsFiniteSet(Rest) /\ Cardinality(Rest) = Cardinality(Admitted) - 1
    <3>1. r \in Admitted
      BY <1>3 DEF Admitted
    <3>. QED  BY <3>1, FS_RemoveElement DEF PermitsKept
  <2>. HIDE DEF Rest
  <2>3. Cardinality(Admitted) \in Nat /\ Cardinality(Admitted) <= Permits
    BY FS_CardinalityType DEF PermitsKept
  <2>4. /\ IsFiniteSet({render[q].browser : q \in Rest})
        /\ Cardinality({render[q].browser : q \in Rest}) <= Cardinality(Rest)
    BY <2>2, BrowsersOf
  <2>5. /\ IsFiniteSet(Others')
        /\ Cardinality(Others') <= Cardinality({render[q].browser : q \in Rest})
        /\ Cardinality({render[q].browser : q \in Rest}) \in Nat
        /\ Cardinality(Others') \in Nat
    BY <2>1, <2>4, Part
  <2>. QED  BY <2>2, <2>3, <2>4, <2>5 DEF OthersBounded
<1>. QED  BY <1>4, <1>5, <1>6, <1>7

(* A call that returns gives its permit and its browser back.               *)
LEMMA ReturnKeepsInv ==
  ASSUME RenderInv, NEW r \in Renders, Return(r), UNCHANGED <<browser, old>>,
         failures' \in Nat, streak' \in Nat, cooldown' = cooldown,
         writer' = IF render[r].at \in {"launch", "reset"} THEN NoRender ELSE writer
  PROVE  RenderInv'
<1>. USE RenderAssumption DEF RenderInv
<1>1. /\ render' \in [Renders -> [at : Stages, browser : Browsers \cup {NoBrowser}]]
      /\ render'[r].at = "idle" /\ render'[r].browser = NoBrowser
      /\ \A q \in Renders \ {r} : render'[q] = render[q]
      /\ dead' = dead \cap Alive'
  BY ReturnFacts
<1>2. TypeOK'
  BY <1>1 DEF TypeOK
<1>3. Holders'
  BY <1>1 DEF Holders, TypeOK
<1>4. PermitsKept' /\ OthersBounded'
  <2>1. Admitted' \subseteq Admitted
    BY <1>1 DEF Admitted
  <2>2. Others' \subseteq Others
    BY <1>1 DEF Others
  <2>. QED  BY <2>1, <2>2, FewerKeepsBounds
<1>. QED  BY <1>2, <1>3, <1>4

(* A browser that does not start changes no count.                          *)
LEMMA LaunchFailsKeepsInv ==
  ASSUME RenderInv, NEW r \in Renders, LaunchFails(r)
  PROVE  RenderInv'
  BY ReturnKeepsInv DEF LaunchFails, RenderInv, TypeOK

(* A page has loaded.                                                       *)
LEMMA PageLoadedKeepsInv ==
  ASSUME RenderInv, NEW r \in Renders, PageLoaded(r)
  PROVE  RenderInv'
  BY ReturnKeepsInv DEF PageLoaded

(* A success resets the failures.                                           *)
LEMMA ResetFailuresKeepsInv ==
  ASSUME RenderInv, NEW r \in Renders, ResetFailures(r)
  PROVE  RenderInv'
  BY ReturnKeepsInv DEF ResetFailures, RenderInv, TypeOK

(* A page that fails adds to the failures.                                  *)
LEMMA PageFailsKeepsInv ==
  ASSUME RenderInv, NEW r \in Renders, PageFails(r)
  PROVE  RenderInv'
<1>. USE RenderAssumption DEF RenderInv
<1>0. failures' \in Nat /\ streak' \in Nat /\ render[r].at = "load"
  BY DEF PageFails, TypeOK
<1>1. CASE ~Trips(failures + 1)
  BY <1>0, <1>1, ReturnKeepsInv DEF PageFails
<1>2. CASE Trips(failures + 1)
  <2>0. Goto(r, "trip") /\ "trip" \in Stages
    BY <1>2 DEF PageFails, Stages
  <2>1. /\ render' \in [Renders -> [at : Stages, browser : Browsers \cup {NoBrowser}]]
        /\ render'[r].at = "trip"
        /\ \A q \in Renders : render'[q].browser = render[q].browser
        /\ \A q \in Renders \ {r} : render'[q].at = render[q].at
    BY <2>0, GotoFacts
  <2>2. PermitsKept' /\ OthersBounded' /\ Alive' = Alive
    BY <1>0, <2>0, GotoKeepsBounds DEF PageFails
  <2>3. TypeOK'
    BY <1>0, <1>2, <2>1, <2>2 DEF TypeOK, PageFails
  <2>4. Holders'
    BY <1>0, <2>1 DEF Holders, PageFails, TypeOK
  <2>. QED  BY <2>2, <2>3, <2>4
<1>. QED  BY <1>1, <1>2

(* The breaker opens.                                                       *)
LEMMA OpenBreakerKeepsInv ==
  ASSUME RenderInv, NEW r \in Renders, OpenBreaker(r)
  PROVE  RenderInv'
<1>. USE RenderAssumption DEF RenderInv
<1>0. Goto(r, "drop") /\ "drop" \in Stages /\ render[r].at = "trip"
  BY DEF OpenBreaker, Stages
<1>1. /\ render' \in [Renders -> [at : Stages, browser : Browsers \cup {NoBrowser}]]
      /\ render'[r].at = "drop"
      /\ \A q \in Renders : render'[q].browser = render[q].browser
      /\ \A q \in Renders \ {r} : render'[q].at = render[q].at
  BY <1>0, GotoFacts
<1>2. PermitsKept' /\ OthersBounded' /\ Alive' = Alive
  BY <1>0, GotoKeepsBounds DEF OpenBreaker
<1>3. TypeOK'
  <2>1. Alive \subseteq Browsers
    BY DEF Alive, TypeOK
  <2>. QED  BY <1>0, <1>1, <1>2, <2>1 DEF TypeOK, OpenBreaker
<1>4. Holders'
  BY <1>0, <1>1 DEF Holders, OpenBreaker, TypeOK
<1>. QED  BY <1>2, <1>3, <1>4

(* The browser is taken out, to be closed.                                  *)
LEMMA TakeBrowserKeepsInv ==
  ASSUME RenderInv, NEW r \in Renders, TakeBrowser(r)
  PROVE  RenderInv'
<1>. USE RenderAssumption DEF RenderInv
<1>0. Goto(r, "reset") /\ "reset" \in Stages /\ render[r].at = "drop" /\ writer = NoRender
        /\ browser' = NoBrowser
  BY DEF TakeBrowser, Stages, Free, Taken
<1>1. /\ render' \in [Renders -> [at : Stages, browser : Browsers \cup {NoBrowser}]]
      /\ render'[r].at = "reset"
      /\ \A q \in Renders : render'[q].browser = render[q].browser
      /\ \A q \in Renders \ {r} : render'[q].at = render[q].at
  BY <1>0, GotoFacts
<1>2. TypeOK'
  <2>1. dead' \subseteq Alive'
    BY DEF TakeBrowser
  <2>. QED  BY <1>0, <1>1, <2>1 DEF TypeOK, TakeBrowser
<1>3. Holders'
  BY <1>0, <1>1 DEF Holders, TypeOK
<1>4. PermitsKept' /\ OthersBounded'
  <2>1. Admitted' \subseteq Admitted
    BY <1>0, <1>1 DEF Admitted
  <2>. QED  BY <1>0, <2>1, FewerKeepsBounds
<1>. QED  BY <1>2, <1>3, <1>4

(* What leaves calls and browsers alone.                                    *)
LEMMA RestKeepsInv ==
  ASSUME RenderInv, UNCHANGED <<render, browser, writer, failures, streak, old>>,
         dead' \subseteq Alive, cooldown' \in {"none", "open", "over"}
  PROVE  RenderInv'
<1>. USE DEF RenderInv
<1>1. Alive' = Alive /\ Others' = Others /\ Admitted' = Admitted
  BY DEF Alive, Others, Admitted
<1>2. TypeOK'
  BY <1>1 DEF TypeOK
<1>3. Holders' /\ PermitsKept' /\ OthersBounded'
  BY <1>1 DEF Holders, PermitsKept, OthersBounded
<1>. QED  BY <1>2, <1>3

-----------------------------------------------------------------------------
(* The invariant holds at the start.                                        *)
LEMMA InitMakesInv ==
  ASSUME Init
  PROVE  RenderInv
<1>. USE RenderAssumption
<1>1. TypeOK
  BY DEF Init, TypeOK, Idle, Stages, Alive
<1>2. Admitted = {}
  BY DEF Init, Admitted, Idle
<1>3. PermitsKept
  BY <1>2, FS_EmptySet DEF PermitsKept
<1>4. Holders /\ OthersBounded
  BY DEF Init, Holders, Idle, OthersBounded
<1>. QED  BY <1>1, <1>3, <1>4 DEF RenderInv

(* And every step keeps it.                                                 *)
LEMMA NextKeepsInv ==
  ASSUME RenderInv, [Next]_vars
  PROVE  RenderInv'
<1>1. ASSUME NEW r \in Renders, CheckBreaker(r)
      PROVE  RenderInv'
  BY <1>1, CheckBreakerKeepsInv
<1>2. ASSUME NEW r \in Renders, Step(r)
      PROVE  RenderInv'
  BY <1>2, AcquireKeepsInv, ReadBrowserKeepsInv, LockBrowserKeepsInv, LaunchKeepsInv,
     LaunchFailsKeepsInv, PageLoadedKeepsInv, PageFailsKeepsInv, OpenBreakerKeepsInv,
     TakeBrowserKeepsInv, ResetFailuresKeepsInv DEF Step
<1>3. CASE CooldownOver
  BY <1>3, RestKeepsInv DEF CooldownOver, RenderInv, TypeOK
<1>4. ASSUME NEW b \in Browsers, BrowserDies(b)
      PROVE  RenderInv'
  BY <1>4, RestKeepsInv DEF BrowserDies, RenderInv, TypeOK
<1>5. CASE UNCHANGED vars
  BY <1>5, RestKeepsInv DEF vars, RenderInv, TypeOK
<1>. QED  BY <1>1, <1>2, <1>3, <1>4, <1>5 DEF Next

(* The permits, the browsers and the callers agree in every reachable state *)
(* (render/src/main.rs).                                                    *)
THEOREM InvariantHolds == Spec => []RenderInv
<1>1. Init => RenderInv
  BY InitMakesInv
<1>2. RenderInv /\ [Next]_vars => RenderInv'
  BY NextKeepsInv
<1>. QED  BY <1>1, <1>2, PTL DEF Spec

(* The types, and who has the lock on the browser.                          *)
THEOREM TypeCorrect == Spec => []TypeOK
  BY InvariantHolds, PTL DEF RenderInv

(* The semaphore of the pages bounds the Chromium processes, for any number *)
(* of permits, calls and trips of the breaker.                              *)
THEOREM BrowsersBoundedHolds == Spec => []BrowsersBounded
<1>1. RenderInv => BrowsersBounded
  BY BoundedFromInv
<1>. QED  BY <1>1, InvariantHolds, PTL

(* Only a launch puts a browser into the service, and it has found none.    *)
THEOREM NoSecondLaunchHolds == Spec => NoSecondLaunch
<1>1. RenderInv /\ [Next]_vars => [browser # NoBrowser => browser' \in {browser, NoBrowser}]_vars
  <2>. SUFFICES ASSUME RenderInv, Next, browser # NoBrowser
                PROVE  browser' \in {browser, NoBrowser}
    OBVIOUS
  <2>1. ASSUME NEW r \in Renders, Launch(r)
        PROVE  FALSE
    BY <2>1 DEF Launch, RenderInv, Holders
  <2>2. ASSUME NEW r \in Renders, TakeBrowser(r)
        PROVE  browser' = NoBrowser
    BY <2>2 DEF TakeBrowser, Taken
  <2>3. ASSUME NEW r \in Renders, CheckBreaker(r) \/ Step(r)
        PROVE  browser' \in {browser, NoBrowser}
    BY <2>1, <2>2, <2>3 DEF Step, CheckBreaker, Acquire, ReadBrowser, LockBrowser, LaunchFails,
       PageLoaded, PageFails, OpenBreaker, ResetFailures
  <2>. QED  BY <2>3 DEF Next, CooldownOver, BrowserDies
<1>. QED  BY <1>1, InvariantHolds, PTL DEF Spec, NoSecondLaunch

(* Whoever tripped the breaker stays at the step before the browser is      *)
(* taken until he takes it, and what is launched meanwhile is new.          *)
LEMMA NextKeepsFresh ==
  ASSUME RenderInv, FreshAfterTrip, [Next]_vars
  PROVE  FreshAfterTrip'
<1>. USE RenderAssumption
<1>1. ASSUME NEW r \in Renders, Launch(r)
      PROVE  FreshAfterTrip'
  BY <1>1 DEF Launch, FreshAfterTrip
<1>2. ASSUME NEW r \in Renders, OpenBreaker(r)
      PROVE  FreshAfterTrip'
  <2>1. "drop" \in Stages /\ Goto(r, "drop")
    BY <1>2 DEF OpenBreaker, Stages
  <2>2. render'[r].at = "drop"
    BY <2>1, GotoFacts DEF RenderInv
  <2>. QED  BY <2>2 DEF FreshAfterTrip
<1>3. ASSUME NEW r \in Renders, TakeBrowser(r)
      PROVE  FreshAfterTrip'
  <2>1. browser' \notin old'
    BY <1>3 DEF TakeBrowser, Taken, RenderInv, TypeOK
  <2>. QED  BY <2>1 DEF FreshAfterTrip
<1>4. ASSUME NEW r \in Renders, render[r].at # "drop", UNCHANGED <<browser, old>>,
             \A q \in Renders \ {r} : render'[q].at = render[q].at
      PROVE  FreshAfterTrip'
  BY <1>4 DEF FreshAfterTrip
<1>5. ASSUME NEW r \in Renders,
             \/ CheckBreaker(r) \/ Acquire(r) \/ ReadBrowser(r) \/ LockBrowser(r)
             \/ LaunchFails(r) \/ PageLoaded(r) \/ PageFails(r) \/ ResetFailures(r)
      PROVE  FreshAfterTrip'
  <2>1. render[r].at # "drop" /\ UNCHANGED <<browser, old>>
    BY <1>5 DEF CheckBreaker, Acquire, ReadBrowser, LockBrowser, LaunchFails, PageLoaded,
       PageFails, ResetFailures
  <2>2. (\E at \in Stages : Goto(r, at)) \/ Load(r, browser) \/ Return(r)
    BY <1>5 DEF CheckBreaker, Acquire, ReadBrowser, LockBrowser, LaunchFails, PageLoaded,
       PageFails, ResetFailures, Stages
  <2>3. \A q \in Renders \ {r} : render'[q].at = render[q].at
    BY <2>2 DEF Goto, Load, Return, RenderInv, TypeOK
  <2>. QED  BY <2>1, <2>3, <1>4
<1>6. CASE UNCHANGED <<render, browser, old>>
  BY <1>6 DEF FreshAfterTrip
<1>. QED  BY <1>1, <1>2, <1>3, <1>5, <1>6 DEF Next, Step, CooldownOver, BrowserDies, vars

(* After a trip the service begins with a browser that is new.              *)
THEOREM FreshAfterTripHolds == Spec => []FreshAfterTrip
<1>1. Init => FreshAfterTrip
  BY DEF Init, FreshAfterTrip
<1>2. RenderInv /\ FreshAfterTrip /\ [Next]_vars => FreshAfterTrip'
  BY NextKeepsFresh
<1>. QED  BY <1>1, <1>2, InvariantHolds, PTL DEF Spec

-----------------------------------------------------------------------------
(* The breaker. Behind it are the calls that found it due and have not yet  *)
(* reset the count; Down those of them that have opened it: each of these   *)
(* will wipe out what other calls count until then, less than Threshold.    *)
Behind == {r \in Renders : render[r].at \in {"trip", "drop", "reset"}}
Down == {r \in Renders : render[r].at \in {"drop", "reset"}}
Tripping == \E r \in Renders : render[r].at = "trip"

(* A streak goes on while some call fails, so not all permits are Down; the *)
(* failures that are not counted any more are those that were wiped out.    *)
StreakInv ==
    /\ failures < Threshold + Cardinality(Behind)
    /\ \/ Tripping
       \/ streak = 0
       \/ /\ streak + Cardinality(Down) * (Threshold - 1) <= (Permits - 1) * (Threshold - 1) + failures
          /\ streak + Cardinality(Down) * (Threshold - 1) <= Permits * (Threshold - 1)

(* Those who are behind the breaker have a permit.                          *)
LEMMA BehindFacts ==
  ASSUME RenderInv
  PROVE  /\ IsFiniteSet(Behind) /\ Cardinality(Behind) \in Nat /\ Cardinality(Behind) <= Permits
         /\ IsFiniteSet(Down) /\ Cardinality(Down) \in Nat /\ Cardinality(Down) <= Permits
<1>1. Behind \subseteq Admitted /\ Down \subseteq Admitted
  BY DEF Behind, Down, Admitted
<1>2. IsFiniteSet(Admitted) /\ Cardinality(Admitted) <= Permits
  BY DEF RenderInv, PermitsKept
<1>3. IsFiniteSet(Behind) /\ Cardinality(Behind) <= Cardinality(Admitted)
        /\ Cardinality(Admitted) \in Nat /\ Cardinality(Behind) \in Nat
  BY <1>1, <1>2, Part
<1>4. IsFiniteSet(Down) /\ Cardinality(Down) <= Cardinality(Admitted)
        /\ Cardinality(Admitted) \in Nat /\ Cardinality(Down) \in Nat
  BY <1>1, <1>2, Part
<1>. QED  BY <1>2, <1>3, <1>4, RenderAssumption

(* A step that counts nothing and moves nobody behind the breaker, or only  *)
(* from one place there to the next.                                        *)
LEMMA QuietKeepsStreak ==
  ASSUME StreakInv, UNCHANGED <<failures, streak>>, Behind' = Behind, Down' = Down,
         Tripping' = Tripping
  PROVE  StreakInv'
  BY DEF StreakInv

(* A page was loaded: the count and the streak begin anew.                  *)
LEMMA PageLoadedKeepsStreak ==
  ASSUME RenderInv, NEW r \in Renders, PageLoaded(r)
  PROVE  StreakInv'
<1>1. failures' = 0 /\ streak' = 0
  BY DEF PageLoaded
<1>2. /\ render'[r].at = "idle" /\ render[r].at = "load"
      /\ \A q \in Renders \ {r} : render'[q] = render[q]
  BY ReturnFacts DEF PageLoaded, RenderInv
<1>3. Behind' = Behind
  BY <1>2 DEF Behind
<1>. QED  BY <1>1, <1>3, BehindFacts, RenderAssumption DEF StreakInv

(* A failure that is counted, below the threshold; the caller's permit is   *)
(* not one of those that are Down.                                          *)
LEMMA FailureKeepsStreak ==
  ASSUME RenderInv, StreakInv, NEW r \in Renders, PageFails(r), ~Trips(failures + 1)
  PROVE  StreakInv'
<1>a. /\ Permits \in Nat \ {0} /\ Threshold \in Nat \ {0} /\ failures \in Nat /\ streak \in Nat
  BY RenderAssumption DEF RenderInv, TypeOK
<1>1. failures' = failures + 1 /\ streak' = streak + 1 /\ failures + 1 < Threshold
  BY <1>a DEF PageFails, Trips
<1>2. /\ render'[r].at = "idle" /\ render[r].at = "load"
      /\ \A q \in Renders \ {r} : render'[q] = render[q]
  BY ReturnFacts DEF PageFails, RenderInv
<1>3. Behind' = Behind /\ Down' = Down /\ Tripping' = Tripping
  BY <1>2 DEF Behind, Down, Tripping
<1>4. Cardinality(Down) <= Permits - 1
  <2>1. r \in Admitted /\ Down \subseteq Admitted \ {r}
    BY <1>2 DEF Admitted, Down
  <2>2. IsFiniteSet(Admitted) /\ Cardinality(Admitted) <= Permits
    BY DEF RenderInv, PermitsKept
  <2>3. IsFiniteSet(Admitted \ {r}) /\ Cardinality(Admitted \ {r}) = Cardinality(Admitted) - 1
    BY <2>1, <2>2, FS_RemoveElement
  <2>4. /\ Cardinality(Down) <= Cardinality(Admitted \ {r})
        /\ Cardinality(Admitted \ {r}) \in Nat
    BY <2>1, <2>3, Part
  <2>5. Cardinality(Admitted) \in Nat
    BY <2>2, FS_CardinalityType
  <2>. QED  BY <1>a, <2>2, <2>3, <2>4, <2>5, BehindFacts
<1> DEFINE d == Cardinality(Down)
           T == Threshold - 1
<1>5. d \in Nat /\ d <= Permits - 1 /\ T \in Nat /\ Permits - 1 \in Nat
  BY <1>a, <1>4, BehindFacts
<1>6. d * T <= (Permits - 1) * T /\ (Permits - 1) * T + T = Permits * T
      /\ d * T \in Nat /\ (Permits - 1) * T \in Nat
  <2> HIDE DEF d, T
  <2>1. \A i, j, k \in Nat : i <= j => i * k <= j * k
    OBVIOUS
  <2>. QED  BY <1>a, <1>5, <2>1
<1>7. failures' < Threshold + Cardinality(Behind')
  BY <1>a, <1>1, <1>3, BehindFacts
<1>8. ASSUME ~Tripping
      PROVE  /\ streak' + d * T <= (Permits - 1) * T + failures'
             /\ streak' + d * T <= Permits * T
  <2>1. streak + d * T <= (Permits - 1) * T + failures
    BY <1>8, <1>a, <1>6 DEF StreakInv
  <2>2. failures + 1 <= T
    BY <1>1, <1>a
  <2> HIDE DEF d, T
  <2> DEFINE x == d * T
             y == (Permits - 1) * T
             z == Permits * T
  <2>3. x \in Nat /\ y \in Nat /\ y + T = z /\ T \in Nat
    BY <1>5, <1>6
  <2>4. streak + x <= y + failures
    BY <2>1
  <2>. HIDE DEF x, y, z
  <2>5. streak' + x <= y + failures' /\ streak' + x <= z
    BY <1>a, <1>1, <2>2, <2>3, <2>4
  <2>. QED  BY <2>5 DEF x, y, z
<1>. QED  BY <1>3, <1>7, <1>8 DEF StreakInv

(* The call that finds the breaker due goes behind it.                      *)
LEMMA TripKeepsStreak ==
  ASSUME RenderInv, StreakInv, NEW r \in Renders, PageFails(r), Trips(failures + 1)
  PROVE  StreakInv'
<1>a. Threshold \in Nat /\ failures \in Nat /\ failures' = failures + 1
  BY RenderAssumption DEF RenderInv, TypeOK, PageFails
<1>1. Goto(r, "trip") /\ "trip" \in Stages /\ render[r].at = "load"
  BY DEF PageFails, Stages
<1>2. render'[r].at = "trip" /\ \A q \in Renders \ {r} : render'[q].at = render[q].at
  BY <1>1, GotoFacts DEF RenderInv
<1>3. Behind' = Behind \cup {r} /\ r \notin Behind
  BY <1>1, <1>2 DEF Behind
<1>4. Cardinality(Behind') = Cardinality(Behind) + 1 /\ Cardinality(Behind) \in Nat
  <2>1. IsFiniteSet(Behind) /\ Cardinality(Behind) \in Nat
    BY BehindFacts
  <2>2. Cardinality(Behind \cup {r}) = Cardinality(Behind) + 1
    BY <1>3, <2>1, FS_AddElement
  <2>. QED  BY <1>3, <2>1, <2>2
<1>5. Tripping'
  BY <1>2 DEF Tripping
<1>. QED  BY <1>a, <1>4, <1>5 DEF StreakInv

(* Each call that has opened the breaker wipes out less than Threshold.     *)
LEMMA ResetKeepsStreak ==
  ASSUME RenderInv, StreakInv, NEW r \in Renders, ResetFailures(r)
  PROVE  StreakInv'
<1>a. /\ Permits \in Nat \ {0} /\ Threshold \in Nat \ {0} /\ failures \in Nat /\ streak \in Nat
      /\ failures' = 0 /\ streak' = streak
  BY RenderAssumption DEF RenderInv, TypeOK, ResetFailures
<1>1. /\ render'[r].at = "idle" /\ render[r].at = "reset"
      /\ \A q \in Renders \ {r} : render'[q] = render[q]
  BY ReturnFacts DEF ResetFailures, RenderInv
<1>2. Behind' = Behind \ {r} /\ Down' = Down \ {r} /\ r \in Down /\ r \in Behind
      /\ Tripping' = Tripping
  BY <1>1 DEF Behind, Down, Tripping
<1>3. Cardinality(Behind') \in Nat /\ Cardinality(Down') = Cardinality(Down) - 1
      /\ Cardinality(Down) \in Nat /\ Cardinality(Down) - 1 \in Nat
  <2>1. IsFiniteSet(Behind) /\ IsFiniteSet(Down) /\ Cardinality(Behind) \in Nat /\ Cardinality(Down) \in Nat
    BY BehindFacts
  <2>2. Cardinality(Behind \ {r}) = Cardinality(Behind) - 1 /\ Cardinality(Down \ {r}) = Cardinality(Down) - 1
    BY <1>2, <2>1, FS_RemoveElement
  <2>3. IsFiniteSet(Behind \ {r}) /\ IsFiniteSet(Down \ {r})
    BY <1>2, <2>1, FS_RemoveElement
  <2>4. Cardinality(Behind \ {r}) \in Nat /\ Cardinality(Down \ {r}) \in Nat
    BY <2>3, FS_CardinalityType
  <2>. QED  BY <1>2, <2>1, <2>2, <2>4
<1>4. failures' < Threshold + Cardinality(Behind')
  BY <1>a, <1>3
<1> DEFINE d == Cardinality(Down)
           T == Threshold - 1
<1>5. ASSUME ~Tripping, streak # 0
      PROVE  /\ streak' + (d - 1) * T <= (Permits - 1) * T + failures'
             /\ streak' + (d - 1) * T <= Permits * T
  <2>1. streak + d * T <= Permits * T
    BY <1>5 DEF StreakInv
  <2>2. d \in Nat /\ T \in Nat
    BY <1>3, <1>a
  <2> HIDE DEF d, T
  <2>3. d * T = (d - 1) * T + T /\ Permits * T = (Permits - 1) * T + T /\ (d - 1) * T \in Int
        /\ (Permits - 1) * T \in Int
    BY <1>a, <2>2
  <2> DEFINE x == (d - 1) * T
             y == (Permits - 1) * T
  <2>4. streak + (x + T) <= y + T /\ x \in Int /\ y \in Int
    BY <2>1, <2>3
  <2>. HIDE DEF x, y
  <2>5. streak' + x <= y + failures' /\ streak' + x <= y + T
    BY <1>a, <2>2, <2>4
  <2>6. streak' + x <= y + failures' /\ streak' + (d - 1) * T <= Permits * T
    BY <2>3, <2>5 DEF x, y
  <2>. QED  BY <2>6 DEF x, y
<1>. QED  BY <1>a, <1>2, <1>3, <1>4, <1>5 DEF StreakInv

(* Opening the breaker ends the streak; the count is reset later.           *)
LEMMA OpenKeepsStreak ==
  ASSUME RenderInv, StreakInv, NEW r \in Renders, OpenBreaker(r)
  PROVE  StreakInv'
<1>1. Goto(r, "drop") /\ "drop" \in Stages /\ render[r].at = "trip" /\ streak' = 0
        /\ failures' = failures
  BY DEF OpenBreaker, Stages
<1>2. render'[r].at = "drop" /\ \A q \in Renders \ {r} : render'[q].at = render[q].at
  BY <1>1, GotoFacts DEF RenderInv
<1>3. Behind' = Behind
  BY <1>1, <1>2 DEF Behind
<1>. QED  BY <1>1, <1>3 DEF StreakInv

(* No other step counts, or moves a call behind the breaker or from there.  *)
LEMMA NextKeepsStreak ==
  ASSUME RenderInv, StreakInv, [Next]_vars
  PROVE  StreakInv'
<1>1. ASSUME NEW r \in Renders, NEW at \in Stages \ {"trip", "drop", "reset"}, Goto(r, at),
             render[r].at \notin {"trip", "drop", "reset"}, UNCHANGED <<failures, streak>>
      PROVE  StreakInv'
  <2>1. render'[r].at = at /\ \A q \in Renders \ {r} : render'[q].at = render[q].at
    BY <1>1, GotoFacts DEF RenderInv
  <2>2. Behind' = Behind /\ Down' = Down /\ Tripping' = Tripping
    BY <1>1, <2>1 DEF Behind, Down, Tripping
  <2>. QED  BY <1>1, <2>2, QuietKeepsStreak
<1>2. ASSUME NEW r \in Renders, NEW b \in Browsers, Load(r, b),
             render[r].at \notin {"trip", "drop", "reset"}, UNCHANGED <<failures, streak>>
      PROVE  StreakInv'
  <2>1. render'[r].at = "load" /\ \A q \in Renders \ {r} : render'[q] = render[q]
    BY <1>2, LoadFacts DEF RenderInv
  <2>2. Behind' = Behind /\ Down' = Down /\ Tripping' = Tripping
    BY <1>2, <2>1 DEF Behind, Down, Tripping
  <2>. QED  BY <1>2, <2>2, QuietKeepsStreak
<1>3. ASSUME NEW r \in Renders, CheckBreaker(r) \/ Acquire(r) \/ ReadBrowser(r) \/ LockBrowser(r)
      PROVE  StreakInv'
  <2>1. /\ render[r].at \in {"idle", "permit", "read", "lock"}
        /\ UNCHANGED <<failures, streak>>
        /\ \/ \E at \in Stages \ {"trip", "drop", "reset"} : Goto(r, at)
           \/ browser # NoBrowser /\ Load(r, browser)
    BY <1>3 DEF CheckBreaker, Acquire, ReadBrowser, LockBrowser, Stages
  <2>2. browser # NoBrowser => browser \in Browsers
    BY DEF RenderInv, TypeOK
  <2>. QED  BY <2>1, <2>2, <1>1, <1>2
<1>4. ASSUME NEW r \in Renders, Launch(r)
      PROVE  StreakInv'
  <2>1. /\ render[r].at = "launch" /\ UNCHANGED <<failures, streak>>
        /\ \E b \in Browsers : Load(r, b)
    BY <1>4 DEF Launch
  <2>. QED  BY <2>1, <1>2
<1>5. ASSUME NEW r \in Renders, LaunchFails(r)
      PROVE  StreakInv'
  <2>1. /\ render'[r].at = "idle" /\ render[r].at = "launch"
        /\ \A q \in Renders \ {r} : render'[q] = render[q]
    BY <1>5, ReturnFacts DEF LaunchFails, RenderInv
  <2>2. Behind' = Behind /\ Down' = Down /\ Tripping' = Tripping
    BY <2>1 DEF Behind, Down, Tripping
  <2>. QED  BY <1>5, <2>2, QuietKeepsStreak DEF LaunchFails
<1>6. ASSUME NEW r \in Renders, TakeBrowser(r)
      PROVE  StreakInv'
  <2>1. Goto(r, "reset") /\ "reset" \in Stages /\ render[r].at = "drop"
    BY <1>6 DEF TakeBrowser, Stages
  <2>2. render'[r].at = "reset" /\ \A q \in Renders \ {r} : render'[q].at = render[q].at
    BY <2>1, GotoFacts DEF RenderInv
  <2>3. Behind' = Behind /\ Down' = Down /\ Tripping' = Tripping
    BY <2>1, <2>2 DEF Behind, Down, Tripping
  <2>. QED  BY <1>6, <2>3, QuietKeepsStreak DEF TakeBrowser
<1>7. ASSUME NEW r \in Renders, PageFails(r)
      PROVE  StreakInv'
  BY <1>7, FailureKeepsStreak, TripKeepsStreak
<1>8. CASE UNCHANGED <<render, failures, streak>>
  BY <1>8 DEF StreakInv, Behind, Down, Tripping
<1>. QED
  BY <1>3, <1>4, <1>5, <1>6, <1>7, <1>8, PageLoadedKeepsStreak, ResetKeepsStreak,
     OpenKeepsStreak DEF Next, Step, CooldownOver, BrowserDies, vars

(* The breaker opens after Threshold failures in a row, apart from those    *)
(* that late resets of the count wipe out, less than Threshold for each     *)
(* other permit; for any number of permits and any threshold.               *)
THEOREM BreakerOpensHolds == Spec => []BreakerOpens
<1>1. Init => StreakInv
  <2> SUFFICES ASSUME Init PROVE StreakInv
    OBVIOUS
  <2>1. Behind = {} /\ failures = 0 /\ streak = 0
    BY DEF Init, Behind, Idle
  <2>2. Cardinality(Behind) = 0
    BY <2>1, FS_EmptySet
  <2>. QED  BY <2>1, <2>2, RenderAssumption DEF StreakInv
<1>2. RenderInv /\ StreakInv /\ [Next]_vars => StreakInv'
  BY NextKeepsStreak
<1>3. RenderInv /\ StreakInv => BreakerOpens
  <2> SUFFICES ASSUME RenderInv, StreakInv PROVE BreakerOpens
    OBVIOUS
  <2>a. /\ Permits \in Nat \ {0} /\ Threshold \in Nat \ {0} /\ failures \in Nat /\ streak \in Nat
        /\ Cardinality(Behind) \in Nat /\ Cardinality(Behind) <= Permits /\ Cardinality(Down) \in Nat
    BY RenderAssumption, BehindFacts DEF RenderInv, TypeOK
  <2>1. failures < Threshold + Permits
    BY <2>a DEF StreakInv
  <2> DEFINE T == Threshold - 1
  <2>2. Cardinality(Down) * T \in Nat /\ Permits * T \in Nat
    <3>1. T \in Nat
      BY <2>a
    <3>. HIDE DEF T
    <3>. QED  BY <2>a, <3>1
  <2>3. Tripping \/ streak <= Permits * T
    <3>1. Tripping \/ streak = 0 \/ streak + Cardinality(Down) * T <= Permits * T
      BY DEF StreakInv
    <3> DEFINE x == Cardinality(Down) * T
               y == Permits * T
    <3>2. x \in Nat /\ y \in Nat /\ (Tripping \/ streak = 0 \/ streak + x <= y)
      BY <2>2, <3>1
    <3>. HIDE DEF x, y
    <3>3. Tripping \/ streak <= y
      BY <2>a, <3>2
    <3>. QED  BY <3>3 DEF y
  <2>. QED  BY <2>1, <2>3 DEF BreakerOpens, Tripping
<1>. QED  BY <1>1, <1>2, <1>3, InvariantHolds, PTL DEF Spec
=============================================================================
