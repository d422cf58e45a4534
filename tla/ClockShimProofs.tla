-------------------------- MODULE ClockShimProofs --------------------------
(***************************************************************************)
(* The clock shim keeps its promise for any number of threads, places and  *)
(* sites: its table is filled without a lock and yet no place has two      *)
(* sites.                                                                  *)
(***************************************************************************)
EXTENDS ClockShim, TLAPS

Steps == {"search", "judge", "resolve", "count", "delay"}
Found == {"judge", "resolve", "count", "delay"}

ShimTypeOK ==
  /\ siteAddress \in [Sites -> CallPlaces \cup {Free}]
  /\ delayedCalls \in [Sites -> 0 .. MaxCalls]
  /\ verdict \in [Sites -> 0 .. 2]
  /\ caller \in [Callers -> {Outside} \cup
                   [at : Steps, address : CallPlaces, probe : 0 .. CallSiteCount - 1]]
  /\ delays \in [CallPlaces -> Nat]

\* The first n sites a search for a looks at are others'.
Others(sites, a, n) == \A k \in 0 .. n - 1 : sites[SiteAt(a, k)] \notin {Free, a}

\* A place's site is the first that was free for it: the sites a search for it
\* passes are never freed.
Reachable ==
  \A s \in Sites : siteAddress[s] # Free =>
    \E k \in 0 .. CallSiteCount - 1 :
      s = SiteAt(siteAddress[s], k) /\ Others(siteAddress, siteAddress[s], k)

Unique ==
  \A s1, s2 \in Sites : siteAddress[s1] = siteAddress[s2] /\ siteAddress[s1] # Free => s1 = s2

Searching ==
  \A t \in Callers : caller[t].at = "search" => Others(siteAddress, caller[t].address, caller[t].probe)

Finding ==
  \A t \in Callers :
    /\ caller[t].at \in Found => siteAddress[SiteOf(t)] = caller[t].address
    /\ caller[t].at = "count" => verdict[SiteOf(t)] = 2

VerdictsRight ==
  \A s \in Sites : verdict[s] # 0 =>
    siteAddress[s] # Free /\ (verdict[s] = 2 <=> siteAddress[s] \in Calibrating)

\* The delays of a place are the calls its site has counted, up to the most.
CountsRight ==
  /\ \A s \in Sites :
       /\ delayedCalls[s] # 0 => verdict[s] = 2
       /\ siteAddress[s] # Free =>
            delays[siteAddress[s]] =
              (IF delayedCalls[s] <= MaximumDelayedCalls THEN delayedCalls[s] ELSE MaximumDelayedCalls)
  /\ \A a \in CallPlaces : (\A s \in Sites : siteAddress[s] # a) => delays[a] = 0

ShimInv ==
  /\ ShimTypeOK /\ Reachable /\ Unique /\ Searching /\ Finding
  /\ VerdictsRight /\ CountsRight

----------------------------------------------------------------------------
\* A search stays within the table.
LEMMA SiteAtIsASite ==
  ASSUME NEW a \in CallPlaces, NEW k \in Nat PROVE SiteAt(a, k) \in Sites
<1>1. Hash[a] \in Nat /\ CallSiteCount \in Nat \ {0}
  BY ShimAssumption
<1> QED BY <1>1 DEF SiteAt, Sites

\* The invariant holds of an empty table.
LEMMA InitShimInv == ShimInit => ShimInv
<1> SUFFICES ASSUME ShimInit PROVE ShimInv
  OBVIOUS
<1>1. ShimTypeOK
  BY ShimAssumption DEF ShimInit, ShimTypeOK
<1>2. Reachable /\ Unique
  BY DEF ShimInit, Reachable, Unique
<1>3. Searching /\ Finding
  BY DEF ShimInit, Searching, Finding, Outside, Found
<1>4. VerdictsRight
  BY DEF ShimInit, VerdictsRight
<1>5. CountsRight
  BY DEF ShimInit, CountsRight
<1> QED BY <1>1, <1>2, <1>3, <1>4, <1>5 DEF ShimInv

\* A thread's record while it is in the shim.
LEMMA InTheShim ==
  ASSUME ShimTypeOK, NEW t \in Callers, caller[t].at # "outside"
  PROVE  /\ caller[t].address \in CallPlaces /\ caller[t].probe \in 0 .. CallSiteCount - 1
         /\ caller[t].at \in Steps /\ SiteOf(t) \in Sites
         /\ caller[t] = Within(caller[t].at, caller[t].address, caller[t].probe)
<1>1. caller[t] \in [at : Steps, address : CallPlaces, probe : 0 .. CallSiteCount - 1]
  BY DEF ShimTypeOK, Outside
<1>2. caller[t].probe \in Nat
  BY <1>1, ShimAssumption
<1> QED BY <1>1, <1>2, SiteAtIsASite DEF SiteOf, Within

\* A thread looks at the next site: it finds its place's, takes a free one or
\* goes on.
LEMMA ProbeShimInv ==
  ASSUME ShimInv, NEW t \in Callers, Probe(t) PROVE ShimInv'
<1> DEFINE a == caller[t].address
           s == SiteOf(t)
           n == caller[t].probe
<1> USE DEF ShimInv
<1>1. /\ a \in CallPlaces /\ n \in 0 .. CallSiteCount - 1 /\ s \in Sites
      /\ caller[t] = Within("search", a, n)
      /\ s = SiteAt(a, n)
  BY InTheShim DEF Probe, SiteOf
<1>2. Others(siteAddress, a, n)
  BY DEF Probe, Searching
<1>3. UNCHANGED <<delayedCalls, verdict, delays>>
  BY DEF Probe
<1>4. ASSUME siteAddress[s] \in {Free, a},
             siteAddress' = [siteAddress EXCEPT ![s] = a],
             Continues(t, "judge")
      PROVE  ShimInv'
  <2>1. caller' = [caller EXCEPT ![t] = Within("judge", a, n)]
    BY <1>1, <1>4 DEF Continues, Goes, On
  <2>2. ShimTypeOK'
    BY <1>1, <1>3, <1>4, <2>1 DEF ShimTypeOK, Within, Steps
  \* No other site is changed, and this one only if it was free.
  <2>3. \A r \in Sites : siteAddress[r] # Free => siteAddress'[r] = siteAddress[r]
    BY <1>1, <1>4 DEF ShimTypeOK
  <2>4. ASSUME NEW b \in CallPlaces, NEW m \in 0 .. CallSiteCount, Others(siteAddress, b, m)
        PROVE  Others(siteAddress', b, m)
    <3>1. \A k \in 0 .. m - 1 : SiteAt(b, k) \in Sites
      BY SiteAtIsASite, ShimAssumption
    <3> QED BY <2>3, <2>4, <3>1 DEF Others, SiteAt
  <2>5. siteAddress[s] = Free => \A r \in Sites : siteAddress[r] # a
    <3> SUFFICES ASSUME siteAddress[s] = Free, NEW r \in Sites, siteAddress[r] = a
                 PROVE  FALSE
      OBVIOUS
    <3>1. a # Free
      BY <1>1, ShimAssumption
    <3>2. PICK k \in 0 .. CallSiteCount - 1 : r = SiteAt(a, k) /\ Others(siteAddress, a, k)
      BY <3>1 DEF Reachable
    <3>3. CASE k < n
      BY <1>1, <1>2, <3>2, <3>3 DEF Others
    <3>4. CASE n < k
      BY <1>1, <3>2, <3>4 DEF Others
    <3>5. CASE n = k
      BY <1>1, <3>1, <3>2, <3>5
    <3> QED BY <1>1, <3>2, <3>3, <3>4, <3>5, ShimAssumption
  <2>6. Reachable'
    <3> SUFFICES ASSUME NEW r \in Sites, siteAddress'[r] # Free
                 PROVE  \E k \in 0 .. CallSiteCount - 1 :
                          r = SiteAt(siteAddress'[r], k) /\ Others(siteAddress', siteAddress'[r], k)
      BY DEF Reachable, Others, SiteAt, Sites
    <3>1. CASE siteAddress[r] # Free
      <4>1. PICK k \in 0 .. CallSiteCount - 1 :
              r = SiteAt(siteAddress[r], k) /\ Others(siteAddress, siteAddress[r], k)
        BY <3>1 DEF Reachable
      <4>2. siteAddress'[r] = siteAddress[r] /\ siteAddress[r] \in CallPlaces
        BY <2>3, <3>1 DEF ShimTypeOK
      <4>3. Others(siteAddress', siteAddress[r], k)
        BY <2>4, <4>1, <4>2, ShimAssumption DEF Others
      <4> QED BY <4>1, <4>2, <4>3 DEF Others
    <3>2. CASE siteAddress[r] = Free
      <4>1. r = s /\ siteAddress'[r] = a
        BY <1>1, <1>4, <3>2 DEF ShimTypeOK
      <4>2. Others(siteAddress', a, n)
        BY <1>1, <1>2, <2>4, ShimAssumption DEF Others
      <4> QED BY <1>1, <4>1, <4>2 DEF Others
    <3> QED BY <3>1, <3>2
  <2>7. Unique'
    <3> SUFFICES ASSUME NEW s1 \in Sites, NEW s2 \in Sites,
                        siteAddress'[s1] = siteAddress'[s2], siteAddress'[s1] # Free
                 PROVE  s1 = s2
      BY DEF Unique, Sites
    <3>1. \A r \in Sites : siteAddress'[r] = IF r = s THEN a ELSE siteAddress[r]
      BY <1>1, <1>4 DEF ShimTypeOK
    <3>2. siteAddress[s] = a \/ (siteAddress[s] = Free /\ \A r \in Sites : siteAddress[r] # a)
      BY <1>4, <2>5
    <3> QED BY <1>1, <3>1, <3>2, ShimAssumption DEF Unique
  <2>8. Searching'
    <3> SUFFICES ASSUME NEW u \in Callers, caller'[u].at = "search"
                 PROVE  Others(siteAddress', caller'[u].address, caller'[u].probe)
      BY DEF Searching, Others, SiteAt
    <3>1. u # t /\ caller'[u] = caller[u]
      BY <2>1 DEF ShimTypeOK, Within
    <3>2. Others(siteAddress, caller[u].address, caller[u].probe)
      BY <3>1 DEF Searching
    <3>3. caller[u].address \in CallPlaces /\ caller[u].probe \in 0 .. CallSiteCount
      BY <3>1, InTheShim, ShimAssumption
    <3>4. Others(siteAddress', caller[u].address, caller[u].probe)
      BY <2>3, <3>1, <3>2, <3>3, SiteAtIsASite, ShimAssumption DEF Others, SiteAt
    <3> QED BY <3>1, <3>4 DEF Others
  <2>9. Finding'
    <3> SUFFICES ASSUME NEW u \in Callers
                 PROVE  /\ caller'[u].at \in Found => siteAddress'[SiteOf(u)'] = caller'[u].address
                        /\ caller'[u].at = "count" => verdict'[SiteOf(u)'] = 2
      BY DEF Finding
    <3>1. CASE u = t
      BY <1>1, <1>4, <2>1, <3>1 DEF ShimTypeOK, Within, SiteOf, SiteAt
    <3>2. CASE u # t
      <4>1. caller'[u] = caller[u] /\ SiteOf(u)' = SiteOf(u)
        BY <2>1, <3>2 DEF ShimTypeOK, SiteOf, SiteAt
      <4>2. caller[u].at \in Found =>
              /\ SiteOf(u) \in Sites /\ siteAddress[SiteOf(u)] = caller[u].address
              /\ caller[u].address # Free
        BY InTheShim, ShimAssumption DEF Finding, Found
      <4> QED BY <1>3, <2>3, <4>1, <4>2 DEF Finding
    <3> QED BY <3>1, <3>2
  <2>10. VerdictsRight'
    BY <1>3, <2>3 DEF VerdictsRight
  <2>11. CountsRight'
    <3>1. \A r \in Sites : delayedCalls[r] # 0 => verdict[r] = 2
      BY DEF CountsRight
    <3>2. \A r \in Sites : siteAddress'[r] = IF r = s THEN a ELSE siteAddress[r]
      BY <1>1, <1>4 DEF ShimTypeOK
    <3>3. siteAddress[s] = Free => delayedCalls[s] = 0 /\ delays[a] = 0
      <4> SUFFICES ASSUME siteAddress[s] = Free PROVE delayedCalls[s] = 0 /\ delays[a] = 0
        OBVIOUS
      <4>1. verdict[s] = 0
        BY <1>1 DEF VerdictsRight
      <4> QED BY <1>1, <2>5, <3>1, <4>1 DEF CountsRight
    <3>4. 0 <= MaximumDelayedCalls
      BY ShimAssumption
    <3>5. ASSUME NEW r \in Sites, siteAddress'[r] # Free
          PROVE  delays[siteAddress'[r]] =
                   (IF delayedCalls[r] <= MaximumDelayedCalls
                    THEN delayedCalls[r] ELSE MaximumDelayedCalls)
      <4>1. CASE siteAddress[r] # Free
        BY <2>3, <4>1 DEF CountsRight
      <4>2. CASE siteAddress[r] = Free
        BY <3>2, <3>3, <3>4, <3>5, <4>2
      <4> QED BY <4>1, <4>2
    <3>6. ASSUME NEW b \in CallPlaces, \A r \in Sites : siteAddress'[r] # b
          PROVE  delays[b] = 0
      <4>1. \A r \in Sites : siteAddress[r] # b
        BY <2>3, <3>6, ShimAssumption
      <4> QED BY <4>1 DEF CountsRight
    <3> QED BY <1>3, <3>1, <3>5, <3>6 DEF CountsRight, Sites
  <2> QED BY <2>2, <2>6, <2>7, <2>8, <2>9, <2>10, <2>11
<1>5. ASSUME siteAddress[s] \notin {Free, a}, UNCHANGED siteAddress,
             TriesNext(t)
      PROVE  ShimInv'
  <2>1. caller' = [caller EXCEPT ![t] =
          IF n + 1 < CallSiteCount THEN Within("search", a, n + 1) ELSE Outside]
    BY <1>1, <1>5 DEF TriesNext, Goes
  <2>2. ShimTypeOK'
    BY <1>1, <1>3, <1>5, <2>1, ShimAssumption DEF ShimTypeOK, Within, Steps
  <2>3. Reachable' /\ Unique'
    BY <1>5 DEF Reachable, Unique, Others, SiteAt
  <2>4. Others(siteAddress, a, n + 1)
    BY <1>1, <1>2, <1>5 DEF Others
  <2>5. Searching'
    <3> SUFFICES ASSUME NEW u \in Callers, caller'[u].at = "search"
                 PROVE  Others(siteAddress, caller'[u].address, caller'[u].probe)
      BY <1>5 DEF Searching, Others, SiteAt
    <3>1. CASE u = t
      BY <2>1, <2>4, <3>1 DEF ShimTypeOK, Within, Outside
    <3>2. CASE u # t
      BY <2>1, <3>2 DEF ShimTypeOK, Searching
    <3> QED BY <3>1, <3>2
  <2>6. Finding'
    <3> SUFFICES ASSUME NEW u \in Callers, caller'[u].at \in Found
                 PROVE  u # t /\ caller'[u] = caller[u]
      BY <1>3, <1>5 DEF Finding, SiteOf, SiteAt, Found
    <3> QED BY <2>1 DEF ShimTypeOK, Within, Outside, Found
  <2>7. VerdictsRight' /\ CountsRight'
    BY <1>3, <1>5 DEF VerdictsRight, CountsRight
  <2> QED BY <2>2, <2>3, <2>5, <2>6, <2>7
<1> QED BY <1>4, <1>5 DEF Probe

\* What holds of a thread on its way through the shim.
Fits(there) ==
  there = Outside \/
  /\ there \in [at : Steps, address : CallPlaces, probe : 0 .. CallSiteCount - 1]
  /\ there.at = "search" => Others(siteAddress, there.address, there.probe)
  /\ there.at \in Found => siteAddress[SiteAt(there.address, there.probe)] = there.address
  /\ there.at = "count" => verdict[SiteAt(there.address, there.probe)] = 2

\* A thread that leaves the table alone.
LEMMA GoesShimInv ==
  ASSUME ShimInv, NEW t \in Callers, NEW there, Fits(there), Goes(t, there),
         UNCHANGED <<siteAddress, delayedCalls, verdict, delays>>
  PROVE  ShimInv'
<1> USE DEF ShimInv
<1>1. ShimTypeOK'
  BY DEF ShimTypeOK, Goes, Fits
<1>2. Reachable' /\ Unique'
  BY DEF Reachable, Unique, Others, SiteAt
<1>3. VerdictsRight' /\ CountsRight'
  BY DEF VerdictsRight, CountsRight
<1>4. \A u \in Callers : caller'[u] = IF u = t THEN there ELSE caller[u]
  BY DEF ShimTypeOK, Goes
<1>5. Searching'
  <2> SUFFICES ASSUME NEW u \in Callers, caller'[u].at = "search"
               PROVE  Others(siteAddress, caller'[u].address, caller'[u].probe)
    BY DEF Searching, Others, SiteAt
  <2> QED BY <1>4 DEF Searching, Fits, Outside
<1>6. Finding'
  <2> SUFFICES ASSUME NEW u \in Callers
               PROVE  LET s == SiteAt(caller'[u].address, caller'[u].probe) IN
                      /\ caller'[u].at \in Found => siteAddress[s] = caller'[u].address
                      /\ caller'[u].at = "count" => verdict[s] = 2
    BY DEF Finding, SiteOf, SiteAt
  <2>1. CASE u = t
    BY <1>4, <2>1 DEF Fits, Outside, Found
  <2>2. CASE u # t
    BY <1>4, <2>2 DEF Finding, SiteOf
  <2> QED BY <2>1, <2>2
<1> QED BY <1>1, <1>2, <1>3, <1>5, <1>6

\* Entering, judging and returning.
LEMMA QuietShimInv ==
  ASSUME ShimInv, NEW t \in Callers,
         (\E a \in CallPlaces : Call(t, a)) \/ Judge(t) \/ Return(t)
  PROVE  ShimInv'
<1>1. ASSUME NEW a \in CallPlaces, Call(t, a) PROVE ShimInv'
  <2>1. Fits(Within("search", a, 0))
    BY ShimAssumption DEF Fits, Within, Steps, Found, Others
  <2> QED BY <1>1, <2>1, GoesShimInv DEF Call
<1>2. Fits(Outside)
  BY DEF Fits
<1>3. CASE Judge(t)
  <2>1. /\ On(t, "judge") = caller[t]
        /\ siteAddress[SiteOf(t)] = caller[t].address
        /\ caller[t].address \in CallPlaces /\ caller[t].probe \in 0 .. CallSiteCount - 1
    BY <1>3, InTheShim DEF ShimInv, Judge, Finding, Found, On
  <2>2. Fits(On(t, "resolve"))
    BY <2>1 DEF Fits, On, Within, Steps, Found, SiteOf
  <2>3. verdict[SiteOf(t)] = 2 => Fits(On(t, "count"))
    BY <2>1 DEF Fits, On, Within, Steps, Found, SiteOf
  <2>4. UNCHANGED <<siteAddress, delayedCalls, verdict, delays>>
    BY <1>3 DEF Judge
  <2>5. \/ Goes(t, Outside) \/ Goes(t, On(t, "resolve"))
        \/ verdict[SiteOf(t)] = 2 /\ Goes(t, On(t, "count"))
    BY <1>3 DEF Judge, Continues, Leaves
  <2> QED BY <1>2, <2>2, <2>3, <2>4, <2>5, GoesShimInv
<1>4. CASE Return(t)
  BY <1>2, <1>4, GoesShimInv DEF Return, Leaves
<1> QED BY <1>1, <1>3, <1>4

\* The first verdict on a place stays.
LEMMA ResolveShimInv ==
  ASSUME ShimInv, NEW t \in Callers, Resolve(t) PROVE ShimInv'
<1> DEFINE a == caller[t].address
           s == SiteOf(t)
<1> USE DEF ShimInv
<1>1. /\ a \in CallPlaces /\ caller[t].probe \in 0 .. CallSiteCount - 1 /\ s \in Sites
      /\ siteAddress[s] = a /\ a # Free
  BY InTheShim, ShimAssumption DEF Resolve, Finding, Found
<1>2. /\ UNCHANGED <<siteAddress, delayedCalls, delays>>
      /\ caller' = [caller EXCEPT ![t] = Within("judge", a, caller[t].probe)]
  BY DEF Resolve, Continues, Goes, On
<1>3. \A r \in Sites : verdict'[r] =
        IF r = s /\ verdict[s] = 0 THEN (IF a \in Calibrating THEN 2 ELSE 1) ELSE verdict[r]
  BY <1>1 DEF Resolve, ShimTypeOK
<1>4. ShimTypeOK'
  <2>1. verdict' \in [Sites -> 0 .. 2]
    BY <1>1 DEF Resolve, ShimTypeOK
  <2>2. caller' \in [Callers -> {Outside} \cup
                       [at : Steps, address : CallPlaces, probe : 0 .. CallSiteCount - 1]]
    BY <1>1, <1>2 DEF ShimTypeOK, Within, Steps
  <2> QED BY <1>2, <2>1, <2>2 DEF ShimTypeOK
<1>5. Reachable' /\ Unique'
  BY <1>2 DEF Reachable, Unique, Others, SiteAt
<1>6. \A u \in Callers : caller'[u] =
        IF u = t THEN Within("judge", a, caller[t].probe) ELSE caller[u]
  BY <1>2 DEF ShimTypeOK
<1>7. Searching'
  <2> SUFFICES ASSUME NEW u \in Callers, caller'[u].at = "search"
               PROVE  Others(siteAddress, caller'[u].address, caller'[u].probe)
    BY <1>2 DEF Searching, Others, SiteAt
  <2>1. u # t
    BY <1>6 DEF Within
  <2> QED BY <1>6, <2>1 DEF Searching
<1>8. Finding'
  <2> SUFFICES ASSUME NEW u \in Callers
               PROVE  LET r == SiteAt(caller'[u].address, caller'[u].probe) IN
                      /\ caller'[u].at \in Found => siteAddress[r] = caller'[u].address
                      /\ caller'[u].at = "count" => verdict'[r] = 2
    BY <1>2 DEF Finding, SiteOf, SiteAt
  <2>1. CASE u = t
    BY <1>1, <1>6, <2>1 DEF Within, SiteOf
  <2>2. CASE u # t
    <3>1. caller[u].at \in Found => SiteOf(u) \in Sites
      BY InTheShim DEF Found
    <3> QED BY <1>3, <1>6, <2>2, <3>1 DEF Finding, SiteOf, Found
  <2> QED BY <2>1, <2>2
<1>9. VerdictsRight'
  BY <1>1, <1>2, <1>3 DEF VerdictsRight
<1>10. CountsRight'
  <2>1. \A r \in Sites : delayedCalls[r] # 0 => verdict'[r] = 2
    BY <1>3 DEF CountsRight
  <2> QED BY <1>2, <2>1 DEF CountsRight
<1> QED BY <1>4, <1>5, <1>7, <1>8, <1>9, <1>10

\* A call is counted at the site of its place, and at no other.
LEMMA CountShimInv ==
  ASSUME ShimInv, NEW t \in Callers, Count(t) PROVE ShimInv'
<1> DEFINE a == caller[t].address
           s == SiteOf(t)
<1> USE DEF ShimInv
<1>1. /\ a \in CallPlaces /\ caller[t].probe \in 0 .. CallSiteCount - 1 /\ s \in Sites
      /\ siteAddress[s] = a /\ a # Free /\ verdict[s] = 2
  BY InTheShim, ShimAssumption DEF Count, Finding, Found
<1>2. UNCHANGED <<siteAddress, verdict>>
  BY DEF Count
<1>3. /\ delayedCalls[s] \in 0 .. MaxCalls - 1 /\ delayedCalls[s] \in Nat
      /\ delayedCalls' = [delayedCalls EXCEPT ![s] = delayedCalls[s] + 1]
  <2>1. delayedCalls[s] \in 0 .. MaxCalls /\ delayedCalls[s] < MaxCalls
    BY <1>1 DEF Count, ShimTypeOK
  <2>2. \A x, w \in Nat : x < w => x % w = x
    OBVIOUS
  <2>3. (delayedCalls[s] + 1) % CounterWidth = delayedCalls[s] + 1
    <3>1. /\ delayedCalls[s] + 1 \in Nat /\ CounterWidth \in Nat
          /\ delayedCalls[s] + 1 < CounterWidth
      BY <2>1, ShimAssumption
    <3> HIDE DEF ShimInv
    <3> QED BY ONLY <2>2, <3>1
  <2>4. delayedCalls' = [delayedCalls EXCEPT ![s] = (delayedCalls[s] + 1) % CounterWidth]
    BY DEF Count
  <2>5. delayedCalls[s] \in 0 .. MaxCalls - 1 /\ delayedCalls[s] \in Nat
    BY <2>1, ShimAssumption
  <2> QED BY <2>3, <2>4, <2>5
<1>4. PICK there \in {Outside, Within("delay", a, caller[t].probe)} :
        caller' = [caller EXCEPT ![t] = there]
  BY DEF Count, Continues, Leaves, Goes, On
<1>5. \/ /\ delayedCalls[s] < MaximumDelayedCalls
         /\ delays' = [delays EXCEPT ![a] = delays[a] + 1]
      \/ delayedCalls[s] >= MaximumDelayedCalls /\ UNCHANGED delays
  BY DEF Count
<1>6. ShimTypeOK'
  <2>1. delayedCalls' \in [Sites -> 0 .. MaxCalls]
    BY <1>1, <1>3, ShimAssumption DEF ShimTypeOK
  <2>2. delays' \in [CallPlaces -> Nat]
    BY <1>1, <1>5 DEF ShimTypeOK
  <2>3. caller' \in [Callers -> {Outside} \cup
                       [at : Steps, address : CallPlaces, probe : 0 .. CallSiteCount - 1]]
    BY <1>1, <1>4 DEF ShimTypeOK, Within, Steps
  <2> QED BY <1>2, <2>1, <2>2, <2>3 DEF ShimTypeOK
<1>7. Reachable' /\ Unique' /\ VerdictsRight'
  BY <1>2 DEF Reachable, Unique, Others, SiteAt, VerdictsRight
<1>8. \A u \in Callers : caller'[u] = IF u = t THEN there ELSE caller[u]
  BY <1>4 DEF ShimTypeOK
<1>9. Searching'
  <2> SUFFICES ASSUME NEW u \in Callers, caller'[u].at = "search"
               PROVE  Others(siteAddress, caller'[u].address, caller'[u].probe)
    BY <1>2 DEF Searching, Others, SiteAt
  <2>1. u # t
    BY <1>4, <1>8 DEF Within, Outside
  <2> QED BY <1>8, <2>1 DEF Searching
<1>10. Finding'
  <2> SUFFICES ASSUME NEW u \in Callers
               PROVE  LET r == SiteAt(caller'[u].address, caller'[u].probe) IN
                      /\ caller'[u].at \in Found => siteAddress[r] = caller'[u].address
                      /\ caller'[u].at = "count" => verdict[r] = 2
    BY <1>2 DEF Finding, SiteOf, SiteAt
  <2>1. CASE u = t
    BY <1>1, <1>4, <1>8, <2>1 DEF Within, SiteOf, Outside, Found
  <2>2. CASE u # t
    BY <1>8, <2>2 DEF Finding, SiteOf
  <2> QED BY <2>1, <2>2
<1>11. CountsRight'
  <2>1. \A r \in Sites : r # s => delayedCalls'[r] = delayedCalls[r] /\ siteAddress[r] # a
    BY <1>1, <1>3 DEF ShimTypeOK, Unique
  <2>2. delayedCalls'[s] = delayedCalls[s] + 1
    BY <1>1, <1>3 DEF ShimTypeOK
  <2>3. \A b \in CallPlaces : b # a => delays'[b] = delays[b]
    BY <1>5 DEF ShimTypeOK
  <2>4. delays[a] =
          (IF delayedCalls[s] <= MaximumDelayedCalls THEN delayedCalls[s] ELSE MaximumDelayedCalls)
    BY <1>1 DEF CountsRight
  <2>5. delays'[a] =
          (IF delayedCalls'[s] <= MaximumDelayedCalls
           THEN delayedCalls'[s] ELSE MaximumDelayedCalls)
    BY <1>1, <1>3, <1>5, <2>2, <2>4, ShimAssumption DEF ShimTypeOK
  <2>6. ASSUME NEW r \in Sites
        PROVE  /\ delayedCalls'[r] # 0 => verdict[r] = 2
               /\ siteAddress[r] # Free =>
                    delays'[siteAddress[r]] =
                      (IF delayedCalls'[r] <= MaximumDelayedCalls
                       THEN delayedCalls'[r] ELSE MaximumDelayedCalls)
    <3>1. CASE r = s
      BY <1>1, <2>5, <3>1
    <3>2. CASE r # s
      BY <2>1, <2>3, <3>2 DEF CountsRight, ShimTypeOK
    <3> QED BY <3>1, <3>2
  <2>7. ASSUME NEW b \in CallPlaces, \A r \in Sites : siteAddress[r] # b
        PROVE  delays'[b] = 0
    <3>1. b # a
      BY <1>1, <2>7
    <3>2. delays[b] = 0
      BY <2>7 DEF CountsRight
    <3> QED BY <2>3, <3>1, <3>2
  <2> QED BY <1>2, <2>6, <2>7 DEF CountsRight, Sites
<1> QED BY <1>6, <1>7, <1>9, <1>10, <1>11

----------------------------------------------------------------------------
\* What the invariant says of the delays.
LEMMA ShimInvBounds == ShimInv => DelaysBounded
<1> SUFFICES ASSUME ShimInv, NEW a \in CallPlaces
             PROVE  /\ delays[a] <= MaximumDelayedCalls
                    /\ a \notin Calibrating => delays[a] = 0
  BY DEF DelaysBounded
<1> USE DEF ShimInv
<1>1. CASE \A s \in Sites : siteAddress[s] # a
  BY <1>1, ShimAssumption DEF CountsRight
<1>2. CASE \E s \in Sites : siteAddress[s] = a
  <2>1. PICK s \in Sites : siteAddress[s] = a
    BY <1>2
  <2>2. a # Free /\ delayedCalls[s] \in Nat /\ MaximumDelayedCalls \in Nat
    BY ShimAssumption DEF ShimTypeOK
  <2>3. delays[a] =
          (IF delayedCalls[s] <= MaximumDelayedCalls THEN delayedCalls[s] ELSE MaximumDelayedCalls)
    BY <2>1, <2>2 DEF CountsRight
  <2>4. a \notin Calibrating => delayedCalls[s] = 0
    BY <2>1 DEF CountsRight, VerdictsRight
  <2> QED BY <2>2, <2>3, <2>4
<1> QED BY <1>1, <1>2

\* The invariant, which says where the sites of all places are, holds of every
\* behaviour of any number of threads.
THEOREM ShimInvariance == ShimSpec => []ShimInv
<1>1. ASSUME ShimInv, [ShimNext]_shimVars PROVE ShimInv'
  <2>1. CASE UNCHANGED shimVars
    BY <1>1, <2>1
       DEF shimVars, ShimInv, ShimTypeOK, Reachable, Unique, Searching, Finding,
           VerdictsRight, CountsRight, Others, SiteOf, SiteAt
  <2>2. CASE ShimNext
    BY <1>1, <2>2, ProbeShimInv, QuietShimInv, ResolveShimInv, CountShimInv DEF ShimNext
  <2> QED BY <1>1, <2>1, <2>2
<1> QED BY <1>1, InitShimInv, PTL DEF ShimSpec

\* clock_gettime delays no place more often than kMaximumDelayedCalls, and
\* none outside the three libraries, whatever its threads do.
THEOREM DelaysAreBounded == ShimSpec => []DelaysBounded
<1> QED BY ShimInvariance, ShimInvBounds, PTL

=============================================================================
