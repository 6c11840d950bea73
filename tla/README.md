# BCLCA in TLA+

TLA+ models of the BCLCA package (blockchain-assisted certificateless
cross-domain authentication for LDACS), model-checked with TLC, and theorems
about them proved with TLAPS. Paths below are relative to
`src/BCLCA implementation/` unless they start with `src/`.

## 1. The system

| component | state | operations | model |
|---|---|---|---|
| AC1 `cross_domain_auth/ac1/ac1.go` | static keys; `usedNonces` under a mutex | `Start`, `startServer`, `SendCR_AUC_RQST_NOTIC`, `handleCrAucRqst1` | `CrossDomainAuth` |
| AC2 `cross_domain_auth/ac2/ac2.go` | `UA_AS1`, `SAC_AS1_2`, `KS_AC2_AS1` without a lock; `usedNonces` | `handleCrAucRqstNotic`, `handleCrAucRqst2`, `handleCrAucKeyExc` | `CrossDomainAuth` |
| AS1 `cross_domain_auth/as1/as1.go` | `UI_AC2`, `SAC_AS1_2`, `b`, `B` without a lock; `usedNonces` | `handleCrAucRqstReply`, `handleCrAucResp` | `CrossDomainAuth` |
| main `cross_domain_auth/main.go` | a 30 s timer, a signal channel | start the nodes, announce, exit | `CrossDomainAuth` |
| hash functions `*/hash_utils` | none | `H1` to `H4` | symbolic, in `CrossDomainAuth` and `KGCRegistration` |
| LDACS codec `cross_domain_auth/util/pktencode.go` | a bit and a byte cursor | `MarshalLdacsPkt`, `UnmarshalLdacsPkt` | `LdacsCodec` |
| IPK chaincode `blockchain_implementation/IPK/chaincode/cc.go` | one record per AS/KGC pair on a Fabric ledger, with its history | `addAtc`, `updateAtc`, `delAtc`, `queryAtcByQueryString`, `queryAtcInfoByID` | `IPKLedger`, `IPKRegistry` |
| IPK client service `.../blockchain_serv/service` | an SDK client, event registrations | `SaveAtc`, `ModifyAtc`, `DeleteAtc`, the queries | `IPKService` |
| Fabric life cycle `.../blockchain_serv/sdk/sdkSetting.go` | none of its own | channel; install, approve, commit, init | `ChaincodeLifecycle` (from install on) |
| KGC registration `kgc_registration/kgc`, `.../entity` | `currentSessions`, `publicKeys`, `usedNonces` under mutexes; the entity's `ua`, `X`, `y`, `Y`, `s`, `S` without | `handleRegRqst`, `handleUpload`, `sendRegRqst`, `handleRegResp` | `KGCRegistration`, `KeyDirectory` |
| KGC parameters `kgc_registration/kgc/kgc.go` | `s`, `PubX`, `PubY`, `PubBytes`; `kgc_params.json` | load, validate, generate, save, reset | `KGCParams` |
| Fabric profiles (YAML), experiment plots (Python) | configuration and plots | none | not modelled: no behaviour |
| `src/SPDL model/cross_domain_authentication.spdl` | the Scyther model | agreement claims | stated of the program by `KeyAgreement` |

How they interact. AC1, AC2 and AS1 are TCP servers that start one goroutine
per connection and dial a new connection for every message they send:

    AC1 --NOTIC--> AC2 --REPLY--> AS1 --RQST_1--> AC1
    AC1 --RQST_2-> AC2 --RESP---> AS1 --KEY_EXC-> AC2

The KGC and an entity talk in the same way:

    entity --REG_RQST--> KGC --REG_RESP--> entity --UPLOAD--> KGC

The client service calls chaincode functions through the Fabric SDK and waits
for the chaincode's event. The three programs do not call each other; the keys
the KGC issues are literals in `initializeKeys`.

What is hard. Nothing but `usedNonces` and the KGC's maps is locked, so
handlers of different connections race on the fields of a node; a field is
often written, then read again for the next use. AC1 starts its listener in a
goroutine that nobody waits for. A message whose dial fails is gone, and in AC1
it takes the process down; one that arrives in two reads is taken for whole.
Several checks come after the state they guard was stored, and three of them
only log. The KGC's answers go to a fixed port, its parameters file is written
in place and its master key is replaced without a lock. On the ledger a
function runs on a peer that may be behind and its result is committed later,
in any order; a client that gives up does not know whether it was.
`PROJECT.json` lists these hazards at their lines, with the properties that
watch them or the reason why none does.

What makes each component correct:

* authentication: the two ends agree on a session key, each key is accepted
  once, a key reported as authenticated is held by the other end, a session
  ends unless a dial fails;
* chaincode: a credential is published once per AS/KGC pair, each later
  version follows the one before it, records stay under their own key and
  KGC, a credential in force is found (violated, finding 2);
* client service: success means that what was asked is on the ledger, every
  call returns, a retry does not publish twice;
* life cycle: nothing is committed that not all approved, a commit that is
  announced has reached every peer, what was approved is committed in the end;
* KGC registration: the directory holds issued keys under the identifiers they
  were issued for, an entity's keys fit each other, a registration ends in the
  directory unless something failed;
* KGC parameters: an answer can be verified, a key that was used is not lost,
  the KGC starts whatever the file holds;
* codec: a field is unpacked as it was packed, or the caller can tell.

## 2. Modules

| module | what it is |
|---|---|
| `CrossDomainAuth` | the three nodes, the network, main |
| `KeyAgreement` | what they promise about session keys: derive, accept, confirm |
| `CrossDomainAuthProofs` | theorems about `CrossDomainAuth`, sessions overlapping or not |
| `CrossDomainAuthTurnProofs` | theorems about sessions that do not overlap |
| `IPKLedger` | the chaincode on a Fabric ledger |
| `IPKRegistry` | what it promises: an atomic book of credentials |
| `IPKLedgerProofs` | theorems about `IPKLedger` |
| `IPKService` | clients that call the chaincode; composed with `IPKLedger` |
| `IPKServiceProofs` | theorems about `IPKService` |
| `ChaincodeLifecycle` | how the chaincode gets onto the channel |
| `ChaincodeLifecycleProofs` | theorems about it |
| `KGCRegistration` | the KGC and the entities |
| `KeyDirectory` | what registration promises: a directory of issued keys |
| `KGCRegistrationProofs` | theorems about `KGCRegistration` |
| `KGCParams` | the KGC's master key and the file it is kept in |
| `KGCParamsProofs` | theorems about it |
| `LdacsCodec` | packing and unpacking of bit fields |
| `LdacsCodecProofs` | theorems about it |
| `MC...` | one per model: constants, inputs and symmetry for TLC |

### CrossDomainAuth

Variables are the fields that the handlers share, one variable each
(`ac2_KS` is `ac2.KS_AC2_AS1`, `as1_b` is `as1.b`), `usedNonces` per node, the
messages on the wire, the handler goroutines (`threads`: the message, a program
point, one local value), and main's phase. `as1Log` and `ac2Log` are what the
nodes print as session keys. `derived` and `verified` only record the past.

A handler is one action when it touches no shared field, and is split exactly
where it does: `handleCrAucRqstReply` stores `UI_AC2`, stores `SAC_AS1_2`,
writes `b`, reads it, writes `B`, then reads four fields and sends: six actions.
`handleCrAucRqst2` writes `KS_AC2_AS1` and reads it again: two.
`Receive` is accept, decode and the replay check, which holds the mutex from
look-up to insertion. The reads and writes race in Go's sense; the fields are
pointers, small integers or slices that only ever have one length once they are
set, so what a racing read can return is an old or a new value. The first write
of `B` and of `KS_AC2_AS1` precedes, through the messages, every handler that
reads it.

Cryptography is symbolic: a hash, MAC or sealed text is the record of its
inputs, a random value is named after the handler that drew it (`Scalar`,
`Nonce`), a group element is named by its scalar. The session key is the term
H4(SAC, UI, j(kb + x + y)G), which AC2 computes from k, B and j, and AS1 from k,
b and J. The address mask is the real exclusive or, on the bits that are set.

The network may repeat a message (`Duplicate`, at most `MaxCopies` times each;
`usedNonces` is there for this case) and delivers in any order. A dial fails
when the port is not open yet, or for another reason at most `MaxDropped` times.
A message is read whole; what becomes of one that is not is in `LdacsCodec`.

`Init` is the state after main's two-second sleep, with AC2 and AS1 listening.
`NumSessions` bounds the calls of `SendCR_AUC_RQST_NOTIC`. main makes one; the
nodes are servers that keep `usedNonces` for many, and the runs with two show
what becomes of the fields. With `Serial` the second call waits for the first
session to be over.

`TimerFires` is assumed to come when nothing is under way: messages on one host
take milliseconds and the timer 30 s.

### LdacsCodec

`MarshalLdacsPkt` and `UnmarshalLdacsPkt` with the loops they are made of: a
step is one pass of `appendBits`, `detachBits` or the loop over the fields. The
state is the code's: `bitsize`, `currByte`, the buffer, `toShift`, `n`. Octets
and numbers are sets of bits, so shifts and masks are the ones of the code and
a value wider than its field is one with a bit too high. `Read` is the
connection in between, which hands over any prefix. Indexing past what was read
panics; slicing past it, within the capacity of the buffer, does not. What does
not fit the buffer when encoding panics too, or is cut by `copy`.

The layouts are those of the messages, with payloads of two octets, the one of
the test, and two with the types that no message uses, one of them with fields
behind a slice. Reading the tags by
reflection gives the layout; a field without a tag, which no message has, is
left out.

### IPKLedger

`history[k]` is the list of records committed under key k. A function is
endorsed on a peer that has seen the first h commits of the key
(`GetState(key, h)`), for any h; the endorsed transaction waits in `pending`
with the version it read. `Commit` is Fabric's: it takes a pending transaction
in any order and applies it only if the version it read is still current.
`Abandon` is a client that fails after endorsement. Every function of the
chaincode reads and writes a single key, so the height of that key is all of a
peer that matters. `now` is the timestamp the client puts into the
proposal, so it is free in every action.

CID, CredentialHash and Signature are copied together, and CID stands for them.
An ASID is a name that may be padded with blanks. The client's KGCID is not an
input: `addAtc` overwrites it and `updateAtc` refuses one that differs.
RevocationReason follows from Status.

### IPKService

The module extends `IPKLedger`; the chaincode's functions and the commits are
steps of the ledger and of the service at once. `Begin` is validation and
`RegitserEvent`; `Execute` calls the chaincode; `ExecuteReturns` and
`ExecuteFails` are the SDK's answer or its absence; `EventArrives` and
`EventTimesOut` are the two cases of the `select` in `EventResult`. A commit
sends its event to all clients that registered for the operation: the event's
name is the operation's (`FcnOf`), whoever called. Registrations that fail
leave a nil channel. A caller that got an error may call again: so may any
client, with any request.

The SDK is external: `Execute` returns after the commit, and a registration
keeps an event that arrives before anybody waits. The queries read, change
nothing and are not steps.

### ChaincodeLifecycle

`InstallCC`, `ApproveLifecycle` and `InitCC` are loops over organisations and,
in the three query phases, over the peers of each; `phase`, `i` and `left` say
where the program is. Nothing in the repository calls the three functions, so
`Call` lets any of them be next, whatever the last call returned, with one
limit: the package ID that `ApproveLifecycle` takes comes from an `InstallCC`
that succeeded. Discovery at the start of a pass, an installation, an approval,
a query, the commit and the initialisation may fail; for an approval, the commit
and the initialisation the effect is kept or not, since Fabric may have ordered
the transaction before the error. The errors that
the code drops are modelled as dropped: a failed discovery leaves the readiness
check with nobody to ask, and `InstallCC` indexes the empty list and panics.

Fabric is external: an approval or a commit is on the channel at once and each
peer knows of it some time later (`CatchUp`); a query that a peer cannot yet
answer is asked again, and giving up is one of the faults. What was done
already is refused, and that error is no fault: a second commit of the
sequence, its readiness once it is committed, a second init transaction. An
approval that a peer already knows of may be accepted again or refused, as the
versions of Fabric differ. So a call that is repeated need not get further than
the one before. Discovery is taken to list the peers of an organisation in one
order. Channel creation and joining are straight calls and left out.

### KGCRegistration

Variables are the KGC's two maps (`currentSessions` has one key, because every
entity calls itself "entity"), `usedNonces` per node, the fields of each entity,
messages and handler goroutines as above. `handleUpload` is two actions because
it compares under one lock and publishes under another; `handleRegRqst` is two;
`handleRegResp` is split at `y`, `Y`, `s`, `S`, the report and the upload, which
read the fields again.

Entities are processes with one request each. Those `AtPort6001` contend for
the port: the second finds it taken and dies, or takes it over once the first
ended (`Stop`). The KGC answers to whoever listens there. `Listen` includes the
sleep of 100 ms, which is assumed to be enough for the listener.

Scalars are symbolic: y is the pair of the r that was drawn and the hash, and
the entity's test yG = R + H P_pub compares both. A `ReadShort` is a Read that
returns part of a message: the deserialisers fill the rest of the last field
with zeros (`Garbled`) and return an error when an earlier field is missing. A
garbled R may or may not decode to a point.

### KGCParams

`pc` walks through `NewKGC` and `ResetParams`: stat, load with validation, draw
s, compute the point, truncate the file, write it. `PubX`, `PubY` and `PubBytes`
are one value. A damaged file is one that does not parse or whose point is not
that of s; the point of an invalid file reaches memory for a moment in the code,
where it is overwritten before anybody reads it. `Hash`, `Multiply` and `Answer`
are the three reads of a request that is handled meanwhile. The process is killed at
any point and started again.

## 3. Runs

| run | bounds | what it shows |
|---|---|---|
| `single` | 1 session, every message repeated once, 1 failed dial | the program as main starts it |
| `serial` | 2 sessions in turn, every message repeated once | what is left in the fields does not hurt the next session |
| `pipelined` | 2 overlapping sessions, 1 failed dial | races on the fields; the refinement of `KeyAgreement`; the inductive invariant |
| `notice` (violated) | 1 session, no faults | finding 1 |
| `ledger` | 1 aircraft, 1 KGC and an organisation that is none, 2 contents, 4 transactions, 2 times | the chaincode against stale endorsers; the refinement of `IPKRegistry` |
| `find` (violated) | padded and plain names, 2 transactions | finding 2 |
| `clients` | 2 clients, 4 calls of 4 valid requests and one that validation refuses, 3 transactions, 1 lost event or registration | the client service on the ledger, padded names included |
| `deploy` | 3 organisations, one of them with 2 peers, 3 faults, any number of calls | installation, approval, commit and initialisation, called in any order and again after any error |
| `register` | 1 entity, every message repeated once, 1 failed dial, 1 short read | the program as `kgc_registration/main.go` starts it |
| `successors` | 2 entities on the port one after the other, 2 identifiers, every message repeated once | answers that reach the wrong process; the refinement of `KeyDirectory` |
| `restart` | 2 crashes, 2 resets, 1 failed read and 1 failed write of the file | the master key and its file |
| `packets` | all layouts, fields full, empty or with a single bit, in the field or above it, slices of up to 12 octets in a buffer of 12, every length of a read | the codec |

Why the bounds are enough. Every race is between two handlers of the same
node, so two sessions, or one session and a repeat, reach each of them; a third
writer of a field adds nothing to a property of pairs. Four transactions hold a
publication, two rivals on the same version and a successor. Two times make a
period that is over at one of them. Three organisations are the least number in
which a majority is not all; a second peer is needed for an installation that
succeeds on one of two. A crash during the recovery from a crash needs two. A
field of a packet is affected by its neighbours only, and a single bit at each
position shows where it goes. What is proved (section 4) has no bounds.
Deadlock is checked in `restart` and `deploy`; the other programs end.

Fairness, where a run has a liveness property.

* `CrossDomainAuth!FairSpec` and `KGCRegistration!FairSpec`, `WF_vars(Work)`: the
  Go scheduler runs every goroutine that can run and TCP on one host delivers.
  Every step of `Work` uses up a message, a program point, a call or the
  listener's start and there are finitely many, so fairness to all of it
  together is fairness to each. `WF_vars(TimerFires \/ MainExits)`: timers fire.
  Failed dials, repeats, short reads and signals are never required to happen.
* `KGCParams!FairSpec`, `WF_vars(Boot)`: a process that is down is started again
  and runs on. Crashes and failures are bounded.
* `IPKService!ServiceSpec`, per client, `WF` of `Returning(c)`: the SDK's time-outs and
  the 20 s of `EventResult` see to it that a call goes on. No transaction is
  required to be committed and no event to be delivered.
* `ChaincodeLifecycle!FairSpec`: a function that was called runs on
  (`WF_vars(Program)`), and each peer goes on committing blocks (`WF` of
  `CatchUp(p)`). No call is ever required: `ApprovedIsCommitted` speaks of a
  call of `ApproveLifecycle` that has got past its approvals.

Findings.

1. `main.go:73` announces that the authentication was carried out; it may have
   failed. AS1's dial to AC1 is not repeated, and AC1's listener starts in a
   goroutine of its own (`ac1.go:136`).
2. A credential published with blanks around its ASID is in force but not
   found by ASID: the key and the query trim the name (`cc.go:399` and `212`), the
   record does not.

Limits of what holds, seen while modelling. They are why the properties say
what they say and no more; no run is made of them.

* With two sessions under way AC2 may report, as the key under which AS1 was
  authenticated, one that AS1 never accepted: it prints whatever `KS_AC2_AS1`
  holds by then (`ac2.go:485`). `ReportedKeyConfirmed` is checked in `single`.
* Two REPLY handlers at once may leave AS1 with the b of one and the B of the
  other (`as1.go:217` to `224`). `EphemeralPair` is checked in `single`.
* y is stored before the answer is verified (`entity.go:186`). With a second
  entity, the KGC's answer to it reaches port 6001 too, and makes the entity
  there print a y that does not belong to its Y. `PrintedKeysFit` and
  `SecretKeyFits` are stated of one entity.
* A second request replaces the session of the first (`kgc.go:327`), whose
  upload is then refused although the entity has printed that it is registered
  (`entity.go:214`). An upload may also pass the comparison and delete the session
  of a request that came after (`kgc.go:419`). `RegistrationCompletes` is checked
  in `register`.
* An answer or an upload whose dial fails is lost (`kgc.go:424`, `entity.go:251`):
  nobody tries again, and an entity whose upload is lost has printed that it is
  registered. `RegistrationCompletes` excepts failed dials.
* An upload that came in two reads is published with a Y that lost bytes
  (`message_types.go:228`). `PublishedWasIssued` and `KeepsDirectory` are stated of
  messages read whole.
* The master key is lost in two ways, which `IssuedKeyKept` excepts: a file
  that cannot be read is replaced (`kgc.go:104`), and a key that `ResetParams` drew
  is in use before it is saved (`kgc.go:172`). An answer computed during a reset
  may mix two keys, which `AnswersVerify` excepts. Nothing calls `ResetParams`
  yet.
* Readiness is announced (`sdkSetting.go:233`) though discovery failed for an
  organisation, whose peers nobody has asked then: the error is made and dropped
  (`sdkSetting.go:333`). What `CommittedByAll` promises rests on the two loops
  before.
* An installation is announced (`sdkSetting.go:182`) though a peer does not have
  the package: only the first of an organisation is asked (`sdkSetting.go:167`),
  so a second call skips an organisation in which the first call failed on
  another peer. `FirstPeersHaveIt` speaks of the first peers.
* `InitCC` fails for good when its first call returned an error after the init
  transaction was ordered (`sdkSetting.go:438`), although the chaincode is
  initialised. No property speaks of the end of `InitCC`.
* A number too wide for its field is packed over the field before it, up to
  the start of the octet (`pktencode.go:83`); `DecodesWhatArrived` says that
  nothing else is damaged.
* The decoder takes dbytes for as long as the slice it is given, and skips them
  when that is empty (`pktencode.go:245`); the length is not in the packet. Fields
  behind dbytes that were longer or shorter are read from another place than
  they were written to (`InStep`). No message has such a field.

## 4. Theorems

All for every value of the constants that satisfies the named assumptions of
the module: sets of any size, any number of sessions, calls, repeats, failures
and crashes. The assumptions say that bounds are natural numbers and that Nil
is not one of the values it stands beside. Where a theorem needs more, its
statement says so.

`CrossDomainAuthProofs`. `TypeOK` and `IInv` are proved together: the type of
what `MulB` reads rests on `IInv`'s part that `b` was drawn, and `IInv` uses
types throughout. `IInv` is needed because no property of the logs is inductive
by itself: they speak of keys, while the steps that extend them look at MACs in
messages. `IInv` says what each message under way, and each handler at each
program point, implies about the fields and logs:

* a REPLY masks the address AC2 now holds; a RESP carries a MAC under a derived
  key and b is drawn; a KEY_EXC carries one under an accepted key;
* a handler's nonce is in `usedNonces` of its node, and an accepted key
  contains the nonce of the RESP that carried it, which is used as well: so no
  repeat is accepted, and no key twice.

Most steps only add: lemma `Preserve` has this once, with the facts about the
new message, handler or log entry as its premises, and each action supplies
those. From `IInv` follow `RepeatsRefused`, `ServerAgrees`, `ClientAgrees`,
`InjectivelyAgrees`, `AddressAgrees` and `ScalarIsDrawn`.
`ImplementsKeyAgreement` maps `DeriveKey`, `VerifyResp` and `VerifyKeyExc` to
Derive, Accept and Confirm and shows that all other steps stutter;
`AcceptNew` supplies that an accepted key is new.

`CrossDomainAuthTurnProofs` assumes `InTurn`: one session, or sessions that start
when nothing of the one before is left. Then the six messages are a chain, and
`TurnInv` says where it stands. `Live` holds the messages a handler runs for or
will run for, that is, all but the repeats that `usedNonces` will refuse; it has
one element at most (`AloneInv`). A node has received no nonce of the current
session that is of a later `Stage` than the live message (`StageInv`), so the next
message of the chain is new to its receiver, and every other one stays a repeat.
`LiveOK` and `HandlerOK` say that the live message carries what its receiver will
check, in terms of the fields of the nodes, which nothing else writes meanwhile.
`EndInv` says that a session has something live until both ends have printed one
key or a dial has failed. All handlers but AC2's last go on with the same message
(`MoveTurn`) or end with the next one (`SendTurn`); the lemmas of the actions
supply what these two need. `PairBelongs`, `ReportedIsConfirmed`,
`ScalarsAreFresh` and `SessionsComplete` follow. The first two are false of
sessions that overlap (see the limits above).

`IPKLedgerProofs`. `LedgerInv` says of each pending transaction what its write is
relative to the record it read (`Publishes`, `Follows`), that versions never
decrease along a history, and that equal versions name equal credentials.
Histories only grow at the end, so what a transaction read stays true of the past
(`CommitKeeps`), and if it is still current, its write follows the last record.
`VersionsNameCredentials`, `KeysOwned` and `ImplementsRegistry` follow: a
commit of a current transaction is a publication, rotation or revocation of
the atomic book, and everything else stutters. `OneCredentialInForce` follows
from the key of a record being that of its trimmed name.

`IPKServiceProofs`. Every behaviour of the service is one of the ledger
(`ServiceIsLedger`), so `LedgerInv` holds of it. `FateInv` ties the place a
committed transaction has in a history to its number; `ClaimInv` says what a
call that has submitted a transaction, or has returned one, knows of it: which
record it is if it landed, and that no two calls claim the same transaction or
two landed publications of one key. It is needed because the calls a property
speaks of are over when the next rival commits. `SuccessIsTrue`,
`OnePublicationSucceeds` and `ServiceKeepsOneInForce` follow.

`ChaincodeLifecycleProofs`. Three invariants about the progress of a loop, one per
theorem: the organisations before the current one have approved, have the
package on their first peer, have peers that all know the definition. They hold
in whatever order the functions are called.

`KGCRegistrationProofs`. `TypeInv` is `TypeOK` with `Held`, which says which
fields are set at which program point. `RegInv` says of each message what was
issued for it, that a request nonce in use at the KGC stands for one X
(`RequestsOnce`), that equal X mean equal keys (`IssuedInv`), and that the fields
and the directory hold issued keys (`KeysInv`). `KeysIssuedOnce` and `KeysAreOwn`
need no more; `PublishedKeysWereIssued` and `ImplementsDirectory` assume
`MaxCuts = 0`, because a cut upload is published as it is. The theorems about
what an entity prints and keeps, from `PairInv`, assume one entity, in which case
there is one key to hold.

`RegistrationsEnd` (`RegisteredAtRest`: once nothing is under way, the registration
is complete) assumes one entity, too. `GoesOn` says that, as long as no dial
and no read failed, the registration is either `Entered` or `UnderWay`: some
message will not be taken for a repeat or some handler runs, and from the KGC's
answer on the session is still there. That the next message is never a repeat is
what `SupportInv` is for: a nonce is used by its receiver only after its sender
has sent it (`NoncesInv`), the upload of an answer that is being handled was not
sent before and the answer has one handler (`ResponsesOnce`), and nothing is
issued while the request is handled (`NothingIssued`). An answer that arrives
verifies and an upload passes the comparison, because there is one key and it
was computed from the fields (`TheKey`, `UploadIs`). The theorem is the safety half of
`RegistrationCompletes`: what is left to TLC is that fairness uses up the steps.

`KGCParamsProofs`. `MemoryInv` says which fields fit each other at which point of
loading, drawing and writing; `AnswerInv` and `KeptInv` carry the key of an answer
from memory to the file and back through a crash.

`LdacsCodecProofs`. The reference, `End`, is recursive over the layout. What it
computes is proved by taking, with the well-foundedness of the natural numbers
from the library, the least field for which it would be wrong (`LeastNumber`):
so it has a value that satisfies its equation (`EndIs`), the value is a number
(`EndType`) and grows (`EndGrows`). `CodecInv` relates the two cursors of the code
to it. Between fields they are quotient and remainder of `End` by eight
(`LaidTo`); during a loop `toShift` is the distance from the end of the current
octet to the end of the field, with another origin after the last pass, which
may not move the cursor (`InLoop`). `PacketInv` says which positions each octet
holds, the octets of an unfinished number included, and `Taken` which bits
detachBits has so far. What a pass adds is then one octet's worth of `BitsOf`
(`PassBits`, `PassAdds`), and that `copy` and `|=` lose nothing follows from no
earlier field having put a bit where they write (`NoBitsBehind`). Assumed are
layouts of numbers of at most 64 bits and octets, in any number and order; the
buffer has any size.

Only model-checked: `SessionCompletes`, `RegistrationCompletes`,
`ApprovedIsCommitted`, `ComesToServe` and `CallsReturn`. They are liveness properties, which the prover
does not reach.

## 5. What is left

Queries on peers that lag behind (`cc.go:200`), with a reader of the ledger that
acts on what it was told; the repository has none yet.

## 6. What is abstracted

Logging and printing, except the lines findings and properties speak of. Errors
of `crypto/rand`. Points that do not decode, other than the garbled ones of
`KGCRegistration`. The header fields Ver, PID, AUTHID, ENCRID and PAD, which no
handler reads. Fabric's endorsement policies and identities beyond the MSP ID
that `authorizedKGC` looks at.

Not modelled: `CreateChannel`, `JoinChannel` and `Setup` of the life cycle, and
`InitService`, which build clients and call the SDK once in a straight line; the
YAML profiles and the plots, which have no behaviour; the tests.

## 7. Running

    tlc -config MCCrossDomainAuthSingle.cfg MCCrossDomainAuth
    tlc -config MCIPKLedgerRotate.cfg MCIPKLedger
    tlc -config MCIPKServiceClients.cfg MCIPKService
    tlc -config MCChaincodeLifecycleDeploy.cfg MCChaincodeLifecycle
    tlc -config MCKGCRegistrationSingle.cfg MCKGCRegistration
    tlc -config MCKGCRegistrationSuccessors.cfg MCKGCRegistration
    tlc -config MCKGCParamsRestart.cfg MCKGCParams
    tlc -config MCLdacsCodecPackets.cfg MCLdacsCodec

and in the same way the other configurations of `MCCrossDomainAuth` and
`MCIPKLedger`; each takes seconds to a few minutes. The proofs:

    for m in *Proofs.tla; do tlapm $m; done
