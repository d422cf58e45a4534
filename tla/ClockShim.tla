----------------------------- MODULE ClockShim -----------------------------
(***************************************************************************)
(* The guest's shim of clock_gettime.  It makes the first calls from each  *)
(* place in three libraries last long enough to calibrate a counter, and   *)
(* leaves every other call alone.  A place is the return address of its    *)
(* call; what is known of it is kept in a table shared by all threads and  *)
(* guarded by atomics alone.                                               *)
(***************************************************************************)
EXTENDS Integers

CONSTANTS
  Callers,            \* the threads
  CallPlaces,         \* return addresses of calls for CLOCK_MONOTONIC
  Calibrating,        \* those dladdr finds in one of the three libraries
  Hash,               \* where the search for an address begins
  CallSiteCount,      \* kCallSiteCount
  MaximumDelayedCalls,\* kMaximumDelayedCalls
  CounterWidth,       \* delayedCalls counts modulo this
  MaxCalls            \* bound on the calls counted for a place

\* A site whose address is 0; no call returns there.
Free == "free"

ASSUME ShimAssumption ==
  /\ Calibrating \subseteq CallPlaces /\ Free \notin CallPlaces
  /\ CallSiteCount \in Nat \ {0} /\ Hash \in [CallPlaces -> 0 .. CallSiteCount - 1]
  /\ MaximumDelayedCalls \in Nat /\ CounterWidth \in Nat /\ MaxCalls \in Nat
  /\ MaxCalls < CounterWidth

VARIABLES
  siteAddress,   \* gCallSites: address
  delayedCalls,  \*   delayedCalls
  verdict,       \*   isCarboniteCalibration: 0, 1 for no, 2 for yes
  caller,        \* per thread: where it is in the shim, for which address,
                 \*   and how many sites it has looked at
  delays         \* how often calls from an address were delayed so far

shimVars == <<siteAddress, delayedCalls, verdict, caller, delays>>

Sites == 0 .. CallSiteCount - 1
Outside == [at |-> "outside"]
Within(place, a, probe) == [at |-> place, address |-> a, probe |-> probe]

ShimInit ==
  /\ siteAddress = [s \in Sites |-> Free]
  /\ delayedCalls = [s \in Sites |-> 0]
  /\ verdict = [s \in Sites |-> 0]
  /\ caller = [t \in Callers |-> Outside]
  /\ delays = [a \in CallPlaces |-> 0]

\* The site a search for address a looks at after probe others.
SiteAt(a, probe) == (Hash[a] + probe) % CallSiteCount
SiteOf(t) == SiteAt(caller[t].address, caller[t].probe)

\* What thread t does next.
Goes(t, there) == caller' = [caller EXCEPT ![t] = there]
On(t, place) == Within(place, caller[t].address, caller[t].probe)
Leaves(t) == Goes(t, Outside)
Continues(t, place) == Goes(t, On(t, place))
\* The end of the loop over the sites.
TriesNext(t) ==
  Goes(t, IF caller[t].probe + 1 < CallSiteCount
          THEN Within("search", caller[t].address, caller[t].probe + 1) ELSE Outside)

----------------------------------------------------------------------------
Call(t, a) ==
  /\ caller[t] = Outside
  /\ Goes(t, Within("search", a, 0))
  /\ UNCHANGED <<siteAddress, delayedCalls, verdict, delays>>

\* Mutant: the site is looked at and taken in two steps.
ProbeThenTake(t) ==
  LET a == caller[t].address s == SiteOf(t) IN
  /\ caller[t].at \in {"search", "take"}
  /\ \/ /\ caller[t].at = "search" /\ siteAddress[s] = Free
        /\ Continues(t, "take")
        /\ UNCHANGED siteAddress
     \/ /\ caller[t].at = "take" \/ siteAddress[s] = a
        /\ siteAddress' = [siteAddress EXCEPT ![s] = a]
        /\ Continues(t, "judge")
     \/ /\ caller[t].at = "search" /\ siteAddress[s] \notin {Free, a}
        /\ TriesNext(t)
        /\ UNCHANGED siteAddress
  /\ UNCHANGED <<delayedCalls, verdict, delays>>

\* callSiteFor: one compare and exchange.  A table that is full of others
\* delays nothing.
Probe(t) ==
  LET a == caller[t].address s == SiteOf(t) IN
  /\ caller[t].at = "search"
  /\ \/ /\ siteAddress[s] \in {Free, a}
        /\ siteAddress' = [siteAddress EXCEPT ![s] = a]
        /\ Continues(t, "judge")
     \/ /\ siteAddress[s] \notin {Free, a}
        /\ TriesNext(t)
        /\ UNCHANGED siteAddress
  /\ UNCHANGED <<delayedCalls, verdict, delays>>

\* shouldDelayCall loads the verdict; there may be none yet.
Judge(t) ==
  /\ caller[t].at = "judge"
  /\ \/ verdict[SiteOf(t)] = 0 /\ Continues(t, "resolve")
     \/ verdict[SiteOf(t)] = 1 /\ Leaves(t)
     \/ verdict[SiteOf(t)] = 2 /\ Continues(t, "count")
  /\ UNCHANGED <<siteAddress, delayedCalls, verdict, delays>>

\* dladdr, and the exchange; then the verdict is loaded again.
Resolve(t) ==
  /\ caller[t].at = "resolve"
  /\ verdict' = [verdict EXCEPT ![SiteOf(t)] =
       IF @ # 0 THEN @ ELSE IF caller[t].address \in Calibrating THEN 2 ELSE 1]
  /\ Continues(t, "judge")
  /\ UNCHANGED <<siteAddress, delayedCalls, delays>>

\* fetch_add
Count(t) ==
  LET s == SiteOf(t) IN
  /\ caller[t].at = "count"
  /\ delayedCalls[s] < MaxCalls
  /\ delayedCalls' = [delayedCalls EXCEPT ![s] = (@ + 1) % CounterWidth]
  /\ \/ /\ delayedCalls[s] < MaximumDelayedCalls
        /\ delays' = [delays EXCEPT ![caller[t].address] = @ + 1]
        /\ Continues(t, "delay")
     \/ /\ delayedCalls[s] >= MaximumDelayedCalls
        /\ Leaves(t)
        /\ UNCHANGED delays
  /\ UNCHANGED <<siteAddress, verdict>>

\* clock_gettime reads the clock until enough time has passed.
Return(t) ==
  /\ caller[t].at = "delay"
  /\ Leaves(t)
  /\ UNCHANGED <<siteAddress, delayedCalls, verdict, delays>>

ShimNext ==
  \E t \in Callers :
    \/ \E a \in CallPlaces : Call(t, a)
    \/ Probe(t) \/ Judge(t) \/ Resolve(t) \/ Count(t) \/ Return(t)

ShimSpec == ShimInit /\ [][ShimNext]_shimVars

----------------------------------------------------------------------------
\* However many threads call at once, the calls from one place are delayed no
\* more than kMaximumDelayedCalls times in all, and those from outside the
\* three libraries never: no place gets two sites, no site two places.
DelaysBounded ==
  \A a \in CallPlaces :
    /\ delays[a] <= MaximumDelayedCalls
    /\ a \notin Calibrating => delays[a] = 0

=============================================================================
