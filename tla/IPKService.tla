----------------------------- MODULE IPKService -----------------------------
(***************************************************************************)
(* The client service of the IPK ledger, IPK/blockchain_serv/service:      *)
(* domain.go and on_chain_serv.go.  Save, Modify and Delete register for   *)
(* an event, have the SDK execute a chaincode function, wait for the event *)
(* for 20 s and return.  The chaincode and the ledger are those of         *)
(* IPKLedger, whose actions are steps of this module's.                    *)
(*                                                                         *)
(* The events of an operation have one name for all clients and keys, so a *)
(* client is sent those of every transaction of the kind.  The SDK is      *)
(* external: Execute returns once the transaction is committed and valid,  *)
(* or with an error; a registration for events holds what arrives.         *)
(***************************************************************************)
EXTENDS IPKLedger, FiniteSets

CONSTANTS
    Clients,       \* calls that may run at the same time
    OrgOf,         \* the organization of each
    Requests,      \* what they ask: records of a function and its argument
    MaxCalls,      \* bound: calls made, first attempts and retries
    MaxLost        \* bound: registrations that fail and events that are lost

VARIABLES
    call,          \* the call each client is in
    fate,          \* of each committed transaction: its place, 0 if invalid
    calls, lost,   \* counters
    succeeded      \* history: calls that returned a transaction ID

ledger == vars
serviceVars == <<ledger, call, fate, calls, lost, succeeded>>

Fcns == {"addAtc", "updateAtc", "delAtc"}

ASSUME ServiceConstants ==
    /\ OrgOf \in [Clients -> Orgs]
    /\ \A r \in Requests :
          \/ r.fcn \in {"addAtc", "updateAtc"} /\ r.arg \in Inputs
          \/ r.fcn = "delAtc" /\ r.arg \in Keys
    /\ MaxCalls \in Nat /\ MaxLost \in Nat

\* reg: whether the registration for events succeeded; event: whether an
\* event has arrived; tx: the transaction Execute submitted.
Idle == [pc |-> "idle"]
Call(r, reg) == [pc |-> "execute", fcn |-> r.fcn, arg |-> r.arg, reg |-> reg,
                 event |-> FALSE, tx |-> 0]
Goto(c, pc) == call' = [call EXCEPT ![c].pc = pc]
Return(c) == call' = [call EXCEPT ![c] = Idle]

----------------------------------------------------------------------------
(* A call.                                                                 *)

\* validateIPKInput, of the fields that may be wrong.
validateIPKInput(in) ==
    in.ASID # Nil /\ in.ValidUntil > 0 /\ in.ValidUntil > in.ValidFrom

Accepted(r) == r.fcn = "delAtc" \/ validateIPKInput(r.arg)

\* Save, Modify and Delete: validate, and RegitserEvent.  When that fails
\* the notifier is a nil channel.  What is refused does nothing.
Begin(c) ==
    /\ call[c] = Idle
    /\ calls < MaxCalls
    /\ calls' = calls + 1
    /\ \E r \in {r \in Requests : Accepted(r)} :
          \/ call' = [call EXCEPT ![c] = Call(r, TRUE)] /\ UNCHANGED lost
          \/ /\ lost < MaxLost /\ lost' = lost + 1
             /\ call' = [call EXCEPT ![c] = Call(r, FALSE)]
    /\ UNCHANGED <<ledger, fate, succeeded>>

\* Execute: a peer endorses ...
Invoke(fcn, org, arg, now) ==
    \/ fcn = "addAtc" /\ addAtc(org, arg, now)
    \/ fcn = "updateAtc" /\ updateAtc(org, arg, now)
    \/ fcn = "delAtc" /\ delAtc(org, arg, now)

ExecuteUnwaited(c) ==                                           \* mutant
    /\ call[c].pc = "execute"
    /\ \E now \in Times : Invoke(call[c].fcn, OrgOf[c], call[c].arg, now)
    /\ call' = [call EXCEPT ![c].pc = "event", ![c].tx = txs']
    /\ UNCHANGED <<fate, calls, lost, succeeded>>
Execute(c) ==
    /\ call[c].pc = "execute"
    /\ \E now \in Times : Invoke(call[c].fcn, OrgOf[c], call[c].arg, now)
    /\ call' = [call EXCEPT ![c].pc = "commit", ![c].tx = txs']
    /\ UNCHANGED <<fate, calls, lost, succeeded>>

\* ... or does not, or cannot be reached.
ExecuteRefused(c) ==
    /\ call[c].pc = "execute"
    /\ Return(c)
    /\ UNCHANGED <<ledger, fate, calls, lost, succeeded>>

\* Execute waits for the commit and passes on its validation code ...
ExecuteReturns(c) ==
    /\ call[c].pc = "commit"
    /\ call[c].tx \in DOMAIN fate
    /\ IF fate[call[c].tx] > 0 THEN Goto(c, "event") ELSE Return(c)
    /\ UNCHANGED <<ledger, fate, calls, lost, succeeded>>

\* ... or gives up before it hears of it, or loses the transaction.
ExecuteFails(c) ==
    /\ call[c].pc = "commit"
    /\ Return(c)
    /\ UNCHANGED <<ledger, fate, calls, lost, succeeded>>

\* EventResult.  A nil channel is never ready; after 20 s either case may.
EventArrives(c) ==
    /\ call[c].pc = "event"
    /\ call[c].reg /\ call[c].event
    /\ succeeded' = succeeded \cup
           {[org |-> OrgOf[c], fcn |-> call[c].fcn, arg |-> call[c].arg,
             tx |-> call[c].tx]}
    /\ Return(c)
    /\ UNCHANGED <<ledger, fate, calls, lost>>

EventTimesOutIfAny(c) ==                                        \* mutant
    /\ call[c].pc = "event"
    /\ call[c].reg
    /\ Return(c)
    /\ UNCHANGED <<ledger, fate, calls, lost, succeeded>>
EventTimesOut(c) ==
    /\ call[c].pc = "event"
    /\ Return(c)
    /\ UNCHANGED <<ledger, fate, calls, lost, succeeded>>

----------------------------------------------------------------------------
(* The ledger's side.                                                      *)

\* The clients that the event of a function is for.
Listening(fcn) == {c \in Clients : call[c].pc # "idle" /\ call[c].reg
                                    /\ call[c].fcn = fcn}

\* The function that wrote a record, and so the name of its event.
FcnOf(tx) == CASE tx.read = 0                  -> "addAtc"
               [] tx.write.Status = "REVOKED"  -> "delAtc"
               [] OTHER                        -> "updateAtc"

CommitBlock(tx) ==
    /\ Commit(tx)
    /\ fate' = [id \in DOMAIN fate \cup {tx.id} |->
                   IF id \in DOMAIN fate THEN fate[id]
                   ELSE IF Current(tx) THEN tx.read + 1 ELSE 0]
    /\ \E missed \in SUBSET Listening(FcnOf(tx)) :
          /\ IF Current(tx)
             THEN /\ lost + Cardinality(missed) <= MaxLost
                  /\ lost' = lost + Cardinality(missed)
                  /\ call' = [c \in Clients |->
                        IF c \in Listening(FcnOf(tx)) \ missed
                        THEN [call[c] EXCEPT !.event = TRUE] ELSE call[c]]
             ELSE missed = {} /\ UNCHANGED <<lost, call>>
    /\ UNCHANGED <<calls, succeeded>>

\* The transaction does not reach the orderer.
Lose(tx) == Abandon(tx) /\ UNCHANGED <<call, fate, calls, lost, succeeded>>

----------------------------------------------------------------------------
ServiceInit ==
    /\ Init
    /\ call = [c \in Clients |-> Idle]
    /\ fate = <<>>
    /\ calls = 0 /\ lost = 0
    /\ succeeded = {}

ClientStep(c) ==
    \/ Begin(c)
    \/ Execute(c) \/ ExecuteRefused(c)
    \/ ExecuteReturns(c) \/ ExecuteFails(c)
    \/ EventArrives(c) \/ EventTimesOut(c)

ServiceNext ==
    \/ \E c \in Clients : ClientStep(c)
    \/ \E tx \in pending : CommitBlock(tx) \/ Lose(tx)

\* A running call goes on: the SDK's and EventResult's time-outs see to it.
Returning(c) ==
    ExecuteRefused(c) \/ ExecuteReturns(c) \/ ExecuteFails(c)
    \/ EventArrives(c) \/ EventTimesOut(c)

ServiceSpec ==
    /\ ServiceInit /\ [][ServiceNext]_serviceVars
    /\ \A c \in Clients : WF_serviceVars(Returning(c))

----------------------------------------------------------------------------
(* Properties.                                                             *)

\* A call that returns a transaction ID is on the ledger, and it did what
\* was asked, though the event it took may have been that of another
\* client's transaction (on_chain_serv.go:33).
Holds(w, r) ==
    IF w.fcn = "delAtc" THEN r.ID = w.arg /\ r.Status = "REVOKED"
    ELSE /\ r.Status = "ACTIVE" /\ r.CID = w.arg.CID /\ r.ASID = w.arg.ASID
         /\ r.ValidUntil = w.arg.ValidUntil
         /\ (w.fcn = "addAtc" <=> r.Version = 1)
SuccessIsOnLedger ==
    \A w \in succeeded :
        /\ w.tx \in DOMAIN fate
        /\ \E k \in Keys : /\ fate[w.tx] \in 1 .. Len(history[k])
                           /\ Holds(w, history[k][fate[w.tx]])

\* However publications race and are retried, after errors returned for what
\* was committed or not, one Save of a credential for an aircraft succeeds:
\* the others are told of an error (cc.go:122).
PublishedOnce ==
    \A v, w \in succeeded :
        /\ v.fcn = "addAtc" /\ w.fcn = "addAtc"
        /\ v.arg.ASID.name = w.arg.ASID.name /\ v.org = w.org
        => v = w

\* Every call returns, also when the registration for events failed or the
\* event is lost (domain.go:129).
CallsReturn == \A c \in Clients : call[c].pc # "idle" ~> call[c].pc = "idle"
=============================================================================
