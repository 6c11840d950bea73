---------------------- MODULE ChaincodeLifecycleProofs ----------------------
(***************************************************************************)
(* Theorems about ChaincodeLifecycle, for any number of organizations and  *)
(* peers, any number of failing calls of Fabric, and functions called in   *)
(* any order: what a loop has been through holds of the organizations      *)
(* before i, and neither the loops that follow nor later calls undo it.    *)
(***************************************************************************)
EXTENDS ChaincodeLifecycle, TLAPS

Phases == Loops \cup AtRest \cup {"package", "commit", "init"}

\* The phases that only a complete approve loop leads to.
AfterApproval == {"queryApproved", "readiness", "commit", "queryCommitted"}

FirstHasIt(org) == PeersOf[org][1] \in installed

LifecycleInv ==
    /\ phase \in Phases /\ i \in Nat /\ i >= 1
    /\ approved \subseteq Orgs /\ knows \subseteq Peers
    /\ CommittedByAll
    /\ phase = "approve" => \A j \in 1 .. (i - 1) : OrgSeq[j] \in approved
    /\ phase \in AfterApproval => approved = Orgs
    /\ knows # {} => committed

InstallInv ==
    /\ phase = "install" =>
          /\ \A j \in DOMAIN OrgSeq : j < i => FirstHasIt(OrgSeq[j])
          /\ i <= Len(OrgSeq) /\ left # Nil => left = PeerSet(Here)
    /\ phase = "package" \/ "package" \in announced =>
          \A org \in Orgs : FirstHasIt(org)

KnownInv ==
    /\ phase = "queryCommitted" =>
          /\ \A j \in DOMAIN OrgSeq : j < i => PeerSet(OrgSeq[j]) \subseteq knows
          /\ i <= Len(OrgSeq) /\ left # Nil => PeerSet(Here) \ left \subseteq knows
    /\ "queryCommitted" \in announced => Peers \subseteq knows

----------------------------------------------------------------------------
(* The constants.                                                          *)

LEMMA SeqFacts ==
    /\ Len(OrgSeq) \in Nat \ {0} /\ DOMAIN OrgSeq = 1 .. Len(OrgSeq)
    /\ \A j \in 1 .. Len(OrgSeq) : OrgSeq[j] \in Orgs
    /\ \A org \in Orgs : PeersOf[org][1] \in PeerSet(org)
<1>1. OrgSeq \in Seq(Orgs) /\ OrgSeq # <<>>
  BY LifecycleConstants
<1>2. Len(OrgSeq) \in Nat \ {0} /\ DOMAIN OrgSeq = 1 .. Len(OrgSeq)
  BY <1>1
<1>3. \A j \in 1 .. Len(OrgSeq) : OrgSeq[j] \in Orgs
  BY <1>2 DEF Orgs
<1>4. ASSUME NEW org \in Orgs PROVE PeersOf[org][1] \in PeerSet(org)
  <2>1. PeersOf[org] \in Seq(PeerSet(org)) /\ PeersOf[org] # <<>>
    BY LifecycleConstants
  <2>2. 1 \in DOMAIN PeersOf[org]
    BY <2>1
  <2> QED BY <2>2 DEF PeerSet
<1> QED BY <1>2, <1>3, <1>4

\* A loop that is at an organization is at one of info.Orgs, and after the
\* last one it has been through all.
LEMMA HereIsOrg ==
    ASSUME i \in Nat, i >= 1, Looping PROVE Here \in Orgs /\ i \in DOMAIN OrgSeq
BY SeqFacts DEF Looping, Here

LEMMA ThroughAll ==
    ASSUME i \in Nat, i > Len(OrgSeq)
    PROVE  /\ \A org \in Orgs : \E j \in DOMAIN OrgSeq : j < i /\ org = OrgSeq[j]
           /\ \A org \in Orgs : \E j \in 1 .. (i - 1) : org = OrgSeq[j]
BY SeqFacts DEF Orgs

----------------------------------------------------------------------------
(* CommittedByAll.                                                         *)

LEMMA LifecycleStart == Init => LifecycleInv
BY DEF Init, LifecycleInv, CommittedByAll, Phases, AfterApproval, Loops, AtRest

LEMMA LifecycleStep ==
    ASSUME LifecycleInv, [Next]_vars PROVE LifecycleInv'
<1> USE DEF LifecycleInv, CommittedByAll, Phases, AfterApproval, Loops, Queries,
            AtRest
<1> SUFFICES ASSUME Next PROVE LifecycleInv'
  BY DEF vars, position, channel
<1>1. CASE DiscoverLocalPeers
  BY <1>1 DEF DiscoverLocalPeers, Looping, Fault, Fail, channel
<1>2. CASE Install
  BY <1>2 DEF Install, Looping, Fault, Fail, NextOrg
<1>3. CASE getInstalledCCPackage
  BY <1>3 DEF getInstalledCCPackage, NextPhase, After, Fault, Fail, channel
<1>4. CASE approveCC
  <2>1. Here \in Orgs /\ phase = "approve" /\ Here = OrgSeq[i]
    BY <1>4, HereIsOrg DEF approveCC, Looping, Here
  <2>2. CASE approved' = approved \cup {Here} /\ NextOrg
    BY <1>4, <2>1, <2>2 DEF approveCC, NextOrg
  <2>3. CASE Fail /\ approved' \in {approved, approved \cup {Here}}
    BY <1>4, <2>1, <2>3 DEF approveCC, Fail
  <2> QED BY <1>4, <2>2, <2>3 DEF approveCC
<1>5. ASSUME NEW p \in Peers, Ask(p) PROVE LifecycleInv'
  BY <1>5 DEF Ask, Fault, Fail, channel
<1>6. CASE EndPass
  BY <1>6 DEF EndPass, NextOrg, channel
<1>7. CASE EndLoop
  <2>1. CASE phase = "approve"
    <3>1. approved = Orgs
      BY <1>7, <2>1, ThroughAll DEF EndLoop
    <3> QED BY <1>7, <2>1, <3>1 DEF EndLoop, NextPhase, After, channel
  <2> QED BY <1>7, <2>1 DEF EndLoop, NextPhase, After, channel
<1>8. CASE commitCC
  <2>1. approved = Orgs /\ UNCHANGED <<approved, knows>>
    BY <1>8 DEF commitCC
  <2>2. CASE committed' = TRUE /\ NextPhase
    BY <1>8, <2>1, <2>2 DEF commitCC, NextPhase, After
  <2>3. CASE Fail /\ committed' \in {committed, committed \/ Majority}
    <3>1. knows # {} => committed'
      <4> HIDE DEF LifecycleInv
      <4>1. knows # {} => committed
        BY DEF LifecycleInv
      <4>2. committed => committed'
        BY <2>3
      <4> QED BY <4>1, <4>2
    <3>2. phase' = "failed" /\ i' = i
      BY <2>3 DEF Fail
    <3> QED BY <2>1, <3>1, <3>2
  <2> QED BY <1>8, <2>2, <2>3 DEF commitCC
<1>9. CASE InitCC
  BY <1>9 DEF InitCC, NextPhase, After, Fault, Fail
<1>10. CASE Call
  BY <1>10 DEF Call, channel
<1>11. ASSUME NEW p \in Peers, CatchUp(p) PROVE LifecycleInv'
  BY <1>11 DEF CatchUp, position
<1> QED
  BY <1>1, <1>2, <1>3, <1>4, <1>5, <1>6, <1>7, <1>8, <1>9, <1>10, <1>11
  DEF Next, Program

LEMMA LifecycleInvariant == Spec => []LifecycleInv
BY LifecycleStart, LifecycleStep, PTL DEF Spec

\* No definition is on the channel that an organization has not approved,
\* however many calls of Fabric fail and in whatever order the functions are
\* called (sdkSetting.go:264-277).
THEOREM OnlyByAll == Spec => []CommittedByAll
<1>1. LifecycleInv => CommittedByAll
  BY DEF LifecycleInv
<1> QED BY <1>1, LifecycleInvariant, PTL

----------------------------------------------------------------------------
(* FirstPeersHaveIt.                                                       *)

LEMMA InstallStep ==
    ASSUME LifecycleInv, InstallInv, [Next]_vars PROVE InstallInv'
<1> USE DEF InstallInv, FirstHasIt
<1>i. i \in Nat /\ i >= 1
  BY DEF LifecycleInv
<1>1. CASE UNCHANGED vars
  BY <1>1 DEF vars, position, channel, Here
<1>2. CASE DiscoverLocalPeers
  <2>1. CASE left' = PeerSet(Here) /\ UNCHANGED <<phase, i, faults>>
    BY <1>2, <2>1 DEF DiscoverLocalPeers, channel, Here
  <2>2. CASE phase = "readiness" /\ left' = {} /\ UNCHANGED <<phase, i>>
    BY <1>2, <2>2 DEF DiscoverLocalPeers, channel
  <2>3. CASE phase' \in {"panic", "failed"}
    BY <1>2, <2>3 DEF DiscoverLocalPeers, channel
  <2> QED BY <1>2, <2>1, <2>2, <2>3 DEF DiscoverLocalPeers, Fail
<1>3. CASE Install
  <2>1. Here \in Orgs /\ i \in DOMAIN OrgSeq /\ phase = "install"
        /\ left = PeerSet(Here) /\ Here = OrgSeq[i]
    BY <1>3, <1>i, HereIsOrg DEF Install, Looping, Here
  <2>2. installed \subseteq installed' /\ announced' = announced
    BY <1>3 DEF Install
  <2>3. CASE NextOrg /\ PeersOf[Here][1] \in installed'
    <3>1. \A j \in DOMAIN OrgSeq : j < i + 1 => j < i \/ j = i
      BY <1>i, SeqFacts
    <3> QED BY <2>1, <2>2, <2>3, <3>1 DEF NextOrg
  <2>4. CASE Fail
    BY <2>1, <2>2, <2>4 DEF Fail
  <2>5. PeersOf[Here][1] \in left
    BY <2>1, SeqFacts
  <2> QED BY <1>3, <2>3, <2>4, <2>5 DEF Install
<1>4. CASE getInstalledCCPackage
  BY <1>4 DEF getInstalledCCPackage, NextPhase, After, Fault, Fail, channel
<1>5. CASE approveCC
  BY <1>5 DEF approveCC, Looping, NextOrg, Fail
<1>6. ASSUME NEW p \in Peers, Ask(p) PROVE InstallInv'
  BY <1>6 DEF Ask, Queries, Fail, channel
<1>7. CASE EndPass
  BY <1>7 DEF EndPass, Queries, NextOrg, channel
<1>8. CASE EndLoop
  <2>1. CASE phase = "install"
    <3>1. \A org \in Orgs : FirstHasIt(org)
      BY <1>8, <1>i, <2>1, ThroughAll DEF EndLoop
    <3> QED BY <1>8, <2>1, <3>1 DEF EndLoop, NextPhase, After, channel
  <2> QED BY <1>8, <2>1 DEF EndLoop, NextPhase, After, channel, Loops, Queries
<1>9. CASE commitCC
  BY <1>9 DEF commitCC, NextPhase, After, Fail
<1>10. CASE InitCC
  BY <1>10 DEF InitCC, NextPhase, After, Fail
<1>11. CASE Call
  <2>1. \A j \in DOMAIN OrgSeq : ~(j < 1)
    BY SeqFacts
  <2> QED BY <1>11, <2>1 DEF Call, channel
<1>12. ASSUME NEW p \in Peers, CatchUp(p) PROVE InstallInv'
  BY <1>12 DEF CatchUp, position, Here
<1> QED
  BY <1>1, <1>2, <1>3, <1>4, <1>5, <1>6, <1>7, <1>8, <1>9, <1>10, <1>11, <1>12
  DEF Next, Program

\* The package that approveCC asks the first peer for is there, in every
\* organization, also after a second call over partial installations
\* (sdkSetting.go:167).
THEOREM AnnouncedIsInstalled == Spec => []FirstPeersHaveIt
<1>1. Init => InstallInv
  <2>1. \A j \in DOMAIN OrgSeq : ~(j < 1)
    BY SeqFacts
  <2> QED BY <2>1 DEF Init, InstallInv
<1>2. InstallInv => FirstPeersHaveIt
  BY DEF InstallInv, FirstPeersHaveIt, FirstHasIt
<1> QED BY <1>1, <1>2, InstallStep, LifecycleInvariant, PTL DEF Spec

----------------------------------------------------------------------------
(* CommittedIsKnown.                                                       *)

LEMMA KnownStep ==
    ASSUME LifecycleInv, KnownInv, [Next]_vars PROVE KnownInv'
<1> USE DEF KnownInv
<1>i. i \in Nat /\ i >= 1
  BY DEF LifecycleInv
<1>s. \A j \in DOMAIN OrgSeq : ~(j < 1)
  BY SeqFacts
<1>1. CASE UNCHANGED vars
  BY <1>1 DEF vars, position, channel, Here
<1>2. CASE DiscoverLocalPeers
  <2>1. CASE left' = PeerSet(Here) /\ UNCHANGED <<phase, i, faults>>
    BY <1>2, <2>1 DEF DiscoverLocalPeers, channel, Here
  <2>2. CASE phase = "readiness" /\ left' = {} /\ UNCHANGED <<phase, i>>
    BY <1>2, <2>2 DEF DiscoverLocalPeers, channel
  <2>3. CASE phase' \in {"panic", "failed"}
    BY <1>2, <2>3 DEF DiscoverLocalPeers, channel
  <2> QED BY <1>2, <2>1, <2>2, <2>3 DEF DiscoverLocalPeers, Fail
<1>3. CASE Install
  BY <1>3 DEF Install, NextOrg, Fail
<1>4. CASE getInstalledCCPackage
  BY <1>4 DEF getInstalledCCPackage, NextPhase, After, Fault, Fail, channel
<1>5. CASE approveCC
  BY <1>5 DEF approveCC, Looping, NextOrg, Fail
<1>6. ASSUME NEW p \in Peers, Ask(p) PROVE KnownInv'
  <2>1. CASE /\ Satisfies(p) /\ left' = left \ {p}
             /\ UNCHANGED <<phase, i, faults>>
    <3>1. CASE phase = "queryCommitted"
      <4>1. p \in knows
        BY <2>1, <3>1 DEF Satisfies
      <4>2. PeerSet(Here) \ left' \subseteq knows
        BY <1>6, <2>1, <3>1, <4>1 DEF Ask, Looping
      <4> QED BY <1>6, <2>1, <3>1, <4>2 DEF Ask, channel, Here
    <3> QED BY <1>6, <2>1, <3>1 DEF Ask, channel
  <2>2. CASE Fail
    BY <1>6, <2>2 DEF Ask, Fail, channel
  <2> QED BY <1>6, <2>1, <2>2 DEF Ask
<1>7. CASE EndPass
  <2>1. CASE phase = "queryCommitted"
    <3>1. \A j \in DOMAIN OrgSeq : j < i + 1 => j < i \/ j = i
      BY <1>i, SeqFacts
    <3>2. PeerSet(OrgSeq[i]) \subseteq knows
      <4>1. left = {} /\ i <= Len(OrgSeq)
        BY <1>7 DEF EndPass, Looping
      <4>2. CASE left # Nil
        BY <2>1, <4>1, <4>2 DEF Here
      <4>3. CASE left = Nil
        BY <4>1, <4>3, LifecycleConstants
      <4> QED BY <4>2, <4>3
    <3> QED BY <1>7, <2>1, <3>1, <3>2 DEF EndPass, NextOrg, channel
  <2> QED BY <1>7, <2>1 DEF EndPass, NextOrg, channel
<1>8. CASE EndLoop
  <2>1. CASE phase = "queryCommitted"
    <3>1. Peers \subseteq knows
      <4>1. \A org \in Orgs : PeerSet(org) \subseteq knows
        BY <1>8, <1>i, <2>1, ThroughAll DEF EndLoop
      <4> QED BY <4>1 DEF Peers
    <3> QED BY <1>8, <2>1, <3>1 DEF EndLoop, NextPhase, After, channel
  <2> QED BY <1>8, <1>s, <2>1 DEF EndLoop, NextPhase, After, channel, Loops, Queries
<1>9. CASE commitCC
  BY <1>9, <1>s DEF commitCC, NextPhase, After, Fail
<1>10. CASE InitCC
  BY <1>10 DEF InitCC, NextPhase, After, Fail
<1>11. CASE Call
  BY <1>11, <1>s DEF Call, channel
<1>12. ASSUME NEW p \in Peers, CatchUp(p) PROVE KnownInv'
  BY <1>12 DEF CatchUp, position, Here
<1> QED
  BY <1>1, <1>2, <1>3, <1>4, <1>5, <1>6, <1>7, <1>8, <1>9, <1>10, <1>11, <1>12
  DEF Next, Program

\* What the program prints as committed is known to every peer of every
\* organization (sdkSetting.go:244).
THEOREM AnnouncedIsKnown == Spec => []CommittedIsKnown
<1>1. Init => KnownInv
  BY DEF Init, KnownInv
<1>2. LifecycleInv /\ KnownInv => CommittedIsKnown
  <2>1. \E p : p \in Peers
    <3>1. OrgSeq[1] \in Orgs
      BY SeqFacts
    <3> QED BY <3>1, SeqFacts DEF Peers
  <2> QED BY <2>1 DEF LifecycleInv, KnownInv, CommittedIsKnown
<1> QED BY <1>1, <1>2, KnownStep, LifecycleInvariant, PTL DEF Spec
=============================================================================
