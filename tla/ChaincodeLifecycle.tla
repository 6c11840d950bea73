------------------------- MODULE ChaincodeLifecycle -------------------------
(***************************************************************************)
(* How the IPK chaincode gets onto the channel,                            *)
(* IPK/blockchain_serv/sdk/sdkSetting.go: InstallCC, ApproveLifecycle and  *)
(* InitCC, each a sequence of loops over the organizations and the peers   *)
(* of each.  Nothing in the repository calls them; whoever does may call   *)
(* any of them next, as often as it likes, whatever the last call returned.*)
(*                                                                         *)
(* Fabric is external: an approval, a commit or the init transaction is    *)
(* part of the channel when it is ordered, whether or not its caller hears *)
(* of it, and a peer learns of it later.  That is why the code asks peers  *)
(* again and again; a query that is given up is one of the bounded faults. *)
(* What was done already Fabric refuses, or may refuse, to do again: that  *)
(* is an error too, and no fault.                                          *)
(***************************************************************************)
EXTENDS Naturals, Sequences, FiniteSets

CONSTANTS
    OrgSeq,        \* info.Orgs, in order
    PeersOf,       \* the peers of each, in order; OrgPeerNum of them
    MaxFaults,     \* bound: calls of Fabric that fail
    Nil

Orgs == {OrgSeq[j] : j \in DOMAIN OrgSeq}
PeerSet(org) == {PeersOf[org][j] : j \in DOMAIN PeersOf[org]}
Peers == UNION {PeerSet(org) : org \in Orgs}

ASSUME LifecycleConstants ==
    /\ OrgSeq \in Seq(Orgs) /\ OrgSeq # <<>>
    /\ \A org \in Orgs :
          PeersOf[org] \in Seq(PeerSet(org)) /\ PeersOf[org] # <<>>
    /\ MaxFaults \in Nat /\ Nil # {}

VARIABLES
    phase,         \* the loop or call a function is in, or how the last ended
    i, left,       \* the index of its organization, the peers left to ask
    installed,     \* peers that have the package
    approved,      \* organizations whose approval is on the channel
    committed,     \* the definition is on the channel
    sees,          \* the approvals each peer knows of
    knows,         \* the peers that know the definition
    initialized,   \* init was executed
    announced,     \* the loops and calls that were announced as done
    faults

position == <<phase, i, left>>
channel == <<installed, approved, committed, sees, knows, initialized>>
vars == <<position, channel, announced, faults>>

\* The order in InstallCC, ApproveLifecycle and InitCC.  The loops that ask
\* every peer of every organization are Queries.
After(ph) ==
    CASE ph = "install"        -> "package"
      [] ph = "package"        -> "returned"
      [] ph = "approve"        -> "queryApproved"
      [] ph = "queryApproved"  -> "readiness"
      [] ph = "readiness"      -> "commit"
      [] ph = "commit"         -> "queryCommitted"
      [] ph = "queryCommitted" -> "returned"
      [] ph = "init"           -> "returned"
Queries == {"queryApproved", "readiness", "queryCommitted"}
Loops == {"install", "approve"} \cup Queries
AtRest == {"returned", "failed", "panic"}

Here == OrgSeq[i]
Looping == phase \in Loops /\ i <= Len(OrgSeq)

Fault == faults < MaxFaults /\ faults' = faults + 1
FailUnnoticed == phase' = After(phase) /\ i' = 1 /\ left' = Nil  \* mutant
Fail == phase' = "failed" /\ UNCHANGED <<i, left>>
NextOrg == i' = i + 1 /\ left' = Nil /\ UNCHANGED phase
NextPhase ==
    /\ phase' = After(phase) /\ i' = 1 /\ left' = Nil
    /\ announced' = announced \cup {phase}

----------------------------------------------------------------------------
(* The program.                                                            *)

\* A call of one of the three functions.  The package ID that ApproveLifecycle
\* takes is what InstallCC returned.
Call ==
    /\ phase \in AtRest
    /\ phase' \in {"install", "approve", "init"}
    /\ phase' = "approve" => "package" \in announced
    /\ i' = 1 /\ left' = Nil
    /\ UNCHANGED <<channel, announced, faults>>

\* DiscoverLocalPeers, at the start of every pass.  approveCC and the two
\* queries return its error.  InstallCC and checkCCCommitReadiness make an
\* error and drop it: the one indexes the empty list, the other has no peer
\* to ask.
DiscoverLocalPeers ==
    /\ Looping /\ left = Nil
    /\ \/ left' = PeerSet(Here) /\ UNCHANGED <<phase, i, faults>>
       \/ /\ Fault
          /\ \/ phase = "readiness" /\ left' = {} /\ UNCHANGED <<phase, i>>
             \/ phase = "install" /\ phase' = "panic" /\ UNCHANGED <<i, left>>
             \/ phase \notin {"readiness", "install"} /\ Fail
    /\ UNCHANGED <<channel, announced>>

\* The pass of InstallCC asks the first peer only; a query that fails counts
\* as not installed.  An installation may fail on some of the peers.
InstallAnyway ==                                                \* mutant
    /\ Looping /\ phase = "install" /\ left # Nil
    /\ \/ NextOrg /\ UNCHANGED faults
       \/ Fault /\ NextOrg
    /\ \E ps \in SUBSET left : installed' = installed \cup ps
    /\ UNCHANGED <<approved, committed, sees, knows, initialized, announced>>
Install ==
    /\ Looping /\ phase = "install" /\ left # Nil
    /\ \/ /\ PeersOf[Here][1] \in installed
          /\ NextOrg
          /\ UNCHANGED <<installed, faults>>
       \/ /\ PeersOf[Here][1] \notin installed \/ faults < MaxFaults
          /\ \/ installed' = installed \cup left /\ NextOrg /\ UNCHANGED faults
             \/ /\ Fault /\ Fail
                /\ \E ps \in SUBSET left : installed' = installed \cup ps
    /\ UNCHANGED <<approved, committed, sees, knows, initialized, announced>>

\* getInstalledCCPackage: from the first peer of the first organization.
getInstalledCCPackage ==
    /\ phase = "package"
    /\ \/ PeersOf[OrgSeq[1]][1] \in installed /\ NextPhase /\ UNCHANGED faults
       \/ Fault /\ Fail /\ UNCHANGED announced
    /\ UNCHANGED channel

\* A pass of approveCC.  A peer that knows of the organization's approval
\* may refuse one with unchanged content, as recent Fabric does.
approveCC ==
    /\ Looping /\ phase = "approve" /\ left # Nil
    /\ \/ approved' = approved \cup {Here} /\ NextOrg /\ UNCHANGED faults
       \/ /\ \E p \in left : Here \in sees[p]
          /\ Fail /\ UNCHANGED <<approved, faults>>
       \/ Fault /\ Fail /\ approved' \in {approved, approved \cup {Here}}
    /\ UNCHANGED <<installed, committed, sees, knows, initialized, announced>>

\* What queryApprovedCC, checkCCCommitReadiness and queryCommittedCC want to
\* hear from each peer.
SatisfiesOwn(p) == phase = "queryCommitted" => Here \in sees[p]  \* mutant
Satisfies(p) ==
    CASE phase = "queryApproved"  -> Here \in sees[p]
      [] phase = "readiness"      -> sees[p] = Orgs
      [] phase = "queryCommitted" -> p \in knows

\* A definition that is committed cannot become ready once more.
Refuses(p) == phase = "readiness" /\ p \in knows

AskOnce(p) ==                                                   \* mutant
    /\ Looping /\ phase \in Queries /\ left # Nil /\ p \in left
    /\ \/ /\ Satisfies(p) /\ ~Refuses(p)
          /\ left' = left \ {p}
          /\ UNCHANGED <<phase, i, faults>>
       \/ ~Satisfies(p) /\ Fail /\ UNCHANGED faults
       \/ Refuses(p) /\ Fail /\ UNCHANGED faults
       \/ Fault /\ Fail
    /\ UNCHANGED <<channel, announced>>
Ask(p) ==
    /\ Looping /\ phase \in Queries /\ left # Nil /\ p \in left
    /\ \/ /\ Satisfies(p) /\ ~Refuses(p)
          /\ left' = left \ {p}
          /\ UNCHANGED <<phase, i, faults>>
       \/ Refuses(p) /\ Fail /\ UNCHANGED faults
       \/ Fault /\ Fail
    /\ UNCHANGED <<channel, announced>>

EndPass ==
    /\ Looping /\ phase \in Queries /\ left = {}
    /\ NextOrg
    /\ UNCHANGED <<channel, announced, faults>>

EndLoop ==
    /\ phase \in Loops /\ i > Len(OrgSeq)
    /\ NextPhase
    /\ UNCHANGED <<channel, faults>>

\* The channel's policy wants a majority of approvals.
Majority == 2 * Cardinality(approved) > Len(OrgSeq)
commitCC ==
    /\ phase = "commit"
    /\ \/ committed' = TRUE /\ Majority /\ ~committed /\ NextPhase /\ UNCHANGED faults
       \/ /\ committed \/ ~Majority
          /\ Fail /\ UNCHANGED <<committed, announced, faults>>
       \/ /\ Fault /\ Fail
          /\ committed' \in {committed, committed \/ Majority}
          /\ UNCHANGED announced
    /\ UNCHANGED <<installed, approved, sees, knows, initialized>>

\* The peers that can endorse; the definition's policy wants one of every
\* organization.
Endorsers == installed \cap knows
Endorsable == \A org \in Orgs : PeerSet(org) \cap Endorsers # {}

\* Execute may be sent to a peer that cannot endorse, is refused when init was
\* executed before, and may return an error when the transaction was ordered:
\* then every later call is refused.
InitCC ==
    /\ phase = "init"
    /\ \/ initialized' = TRUE /\ Endorsable /\ ~initialized /\ NextPhase /\ UNCHANGED faults
       \/ /\ initialized \/ Endorsers # Peers
          /\ Fail /\ UNCHANGED <<initialized, announced, faults>>
       \/ /\ Fault /\ Fail
          /\ initialized' \in {initialized, initialized \/ Endorsable}
          /\ UNCHANGED announced
    /\ UNCHANGED <<installed, approved, committed, sees, knows>>

----------------------------------------------------------------------------
\* A peer commits the blocks there are.
CatchUp(p) ==
    /\ sees[p] # approved \/ committed # (p \in knows)
    /\ sees' = [sees EXCEPT ![p] = approved]
    /\ knows' = IF committed THEN knows \cup {p} ELSE knows
    /\ UNCHANGED <<position, installed, approved, committed, initialized,
                   announced, faults>>

Init ==
    /\ phase = "returned" /\ i = 1 /\ left = Nil
    /\ installed = {} /\ approved = {} /\ committed = FALSE
    /\ sees = [p \in Peers |-> {}] /\ knows = {}
    /\ initialized = FALSE /\ announced = {} /\ faults = 0

Program ==
    \/ DiscoverLocalPeers \/ Install \/ getInstalledCCPackage \/ approveCC
    \/ (\E p \in Peers : Ask(p)) \/ EndPass \/ EndLoop \/ commitCC \/ InitCC

Next == Call \/ Program \/ \E p \in Peers : CatchUp(p)

\* A function that was called runs, and every peer goes on committing blocks.
\* No call is ever required.
Spec == Init /\ [][Next]_vars
FairSpec == Spec /\ WF_vars(Program) /\ \A p \in Peers : WF_vars(CatchUp(p))

----------------------------------------------------------------------------
(* Properties.                                                             *)

\* Nothing is committed before every organization has approved: the loops
\* of approveCC and queryApprovedCC return their errors, though the channel
\* itself asks for a majority only (sdkSetting.go:264-277).
CommittedByAll == committed => approved = Orgs

\* When a package is announced as installed, the first peer of every
\* organization has it, whatever earlier runs did (sdkSetting.go:167).
FirstPeersHaveIt ==
    "package" \in announced =>
        \A org \in Orgs : PeersOf[org][1] \in installed

\* "智能合约定义提交完成" is printed when every peer of every organization
\* knows the definition (sdkSetting.go:244).
CommittedIsKnown == "queryCommitted" \in announced => committed /\ knows = Peers

\* Once no call of Fabric fails any more, a definition that was approved is
\* committed and announced: no loop waits for what its own call has not
\* brought about, or gives up on a peer that is merely late
\* (sdkSetting.go:223-244).
ApprovedIsCommitted ==
    phase = "queryApproved" /\ ~committed /\ faults = MaxFaults
        ~> "queryCommitted" \in announced
=============================================================================
