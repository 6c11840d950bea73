----------------------------- MODULE KGCParams -----------------------------
(***************************************************************************)
(* The master key of the key generation center and the file it is kept in, *)
(* kgc_registration/kgc/kgc.go:97-247: NewKGC loads kgc_params.json, or    *)
(* draws a key and writes it; ResetParams, which nothing calls yet,        *)
(* replaces it in a KGC that is serving.  s, PubX, PubY and PubBytes are   *)
(* not locked: an answer may read them in the middle of a reset.           *)
(*                                                                         *)
(* Keys are numbers, drawn in order; PubX, PubY and PubBytes stand for one *)
(* point and are one value.  The process may be killed at any point and is *)
(* then started again.                                                     *)
(***************************************************************************)
EXTENDS Naturals

CONSTANTS
    MaxCrashes,    \* bound: times the process is killed
    MaxResets,     \* bound: calls of ResetParams
    MaxMisreads,   \* bound: attempts to read the file that fail
    MaxFailures,   \* bound: attempts to write or remove it that fail
    Stray,         \* a point that is not that of s, as a damaged file may hold
    Absent, Torn,  \* no file, and a file that does not parse
    Nil

Pub(k) == [of |-> k]
Points == [of : Nat] \cup {Stray}
Params == [s : Nat, pub : Points]

ASSUME ParamsConstants ==
    /\ MaxCrashes \in Nat /\ MaxResets \in Nat
    /\ MaxMisreads \in Nat /\ MaxFailures \in Nat
    /\ Absent # Torn /\ Nil \notin Nat
    /\ Absent \notin Params /\ Torn \notin Params

VARIABLES
    pc,            \* where NewKGC or ResetParams is
    resetting,     \* whether it is ResetParams
    s, pub,        \* kgc.s and kgc.PubBytes
    file,          \* kgc_params.json
    drawn,         \* the number of keys drawn so far
    handler,       \* the request being answered
    answers,       \* history: the answers that were computed
    retired,       \* history: the keys that ResetParams replaced
    crashes, resets, misreads, failures

memory == <<s, pub>>
faults == <<crashes, resets, misreads, failures>>
answering == <<handler, answers>>
vars == <<pc, resetting, memory, file, drawn, answering, retired, faults>>

----------------------------------------------------------------------------
(* NewKGC and loadOrGenerateParams.                                        *)

Start ==
    /\ pc = "down"
    /\ pc' = "stat"
    /\ UNCHANGED <<resetting, memory, file, drawn, answering, retired, faults>>

Stat ==
    /\ pc = "stat"
    /\ pc' = IF file = Absent THEN "drawS" ELSE "load"
    /\ UNCHANGED <<resetting, memory, file, drawn, answering, retired, faults>>

\* Unmarshal and validateParams.
ValidAny(f) == f \in Params                                     \* mutant
Valid(f) == f \in Params /\ f.pub = Pub(f.s)

\* loadParams; whatever is wrong, with the file or with reading it, a new
\* key is made.
LoadOrDie ==                                                    \* mutant
    /\ pc = "load"
    /\ IF Valid(file)
       THEN s' = file.s /\ pub' = file.pub /\ pc' = "serving"
       ELSE pc' = "down" /\ UNCHANGED memory
    /\ UNCHANGED <<resetting, file, drawn, answering, retired, faults>>
Load ==
    /\ pc = "load"
    /\ \/ /\ Valid(file)
          /\ s' = file.s /\ pub' = file.pub
          /\ pc' = "serving"
          /\ UNCHANGED misreads
       \/ /\ ~Valid(file)
          /\ pc' = "drawS"
          /\ UNCHANGED <<memory, misreads>>
       \/ /\ misreads < MaxMisreads
          /\ misreads' = misreads + 1
          /\ pc' = "drawS"
          /\ UNCHANGED memory
    /\ UNCHANGED <<resetting, file, drawn, answering, retired, crashes,
                   resets, failures>>

----------------------------------------------------------------------------
(* generateAndSaveParams.                                                  *)

DrawS ==
    /\ pc = "drawS"
    /\ drawn' = drawn + 1
    /\ s' = drawn + 1
    /\ pc' = "drawPub"
    /\ UNCHANGED <<resetting, pub, file, answering, retired, faults>>

DrawPub ==
    /\ pc = "drawPub"
    /\ pub' = Pub(s)
    /\ pc' = "truncate"
    /\ UNCHANGED <<resetting, s, file, drawn, answering, retired, faults>>

\* An error is fatal to NewKGC; ResetParams returns it, with the new key in
\* memory.
GiveUp ==
    /\ failures < MaxFailures
    /\ failures' = failures + 1
    /\ resetting' = FALSE
    /\ IF resetting
       THEN pc' = "serving" /\ UNCHANGED memory
       ELSE pc' = "down" /\ s' = Nil /\ pub' = Nil

\* WriteFile opens the file with O_TRUNC, then writes.
Truncate ==
    /\ pc = "truncate"
    /\ \/ /\ pc' = "write"
          /\ file' = Torn
          /\ UNCHANGED <<resetting, memory, failures>>
       \/ GiveUp /\ UNCHANGED file
    /\ UNCHANGED <<drawn, answering, retired, crashes, resets, misreads>>

WriteNothing ==                                                 \* mutant
    /\ pc = "write"
    /\ pc' = "serving"
    /\ resetting' = FALSE
    /\ UNCHANGED <<memory, file, drawn, answering, retired, faults>>
Write ==
    /\ pc = "write"
    /\ \/ /\ file' = [s |-> s, pub |-> pub]
          /\ pc' = "serving"
          /\ resetting' = FALSE
          /\ UNCHANGED <<memory, failures>>
       \/ GiveUp /\ UNCHANGED file
    /\ UNCHANGED <<drawn, answering, retired, crashes, resets, misreads>>

----------------------------------------------------------------------------
(* ResetParams removes the file and generates.                             *)

ResetParams ==
    /\ pc = "serving"
    /\ resets < MaxResets
    /\ resets' = resets + 1
    /\ \/ /\ file' = Absent
          /\ retired' = retired \cup {s}
          /\ resetting' = TRUE
          /\ pc' = "drawS"
          /\ UNCHANGED failures
       \/ /\ file # Absent
          /\ failures < MaxFailures
          /\ failures' = failures + 1
          /\ UNCHANGED <<pc, resetting, file, retired>>
    /\ UNCHANGED <<memory, drawn, answering, crashes, misreads>>

----------------------------------------------------------------------------
(* handleRegRqst from line 353 on: hash with P_pub, multiply by s, send    *)
(* P_pub along.                                                            *)

Hash ==
    /\ pc = "serving" \/ resetting
    /\ handler = Nil
    /\ handler' = [H |-> pub, s |-> Nil]
    /\ UNCHANGED <<pc, resetting, memory, file, drawn, answers,
                   retired, faults>>

Multiply ==
    /\ handler # Nil /\ handler.s = Nil
    /\ handler' = [handler EXCEPT !.s = s]
    /\ UNCHANGED <<pc, resetting, memory, file, drawn, answers,
                   retired, faults>>

Answer ==
    /\ handler # Nil /\ handler.s # Nil
    /\ answers' = answers \cup {[H |-> handler.H, s |-> handler.s, P |-> pub]}
    /\ handler' = Nil
    /\ UNCHANGED <<pc, resetting, memory, file, drawn, retired, faults>>

\* The entity's test of an answer, yG = R + H(.., P) P.
Verifies(a) == a.P = Pub(a.s) /\ a.H = a.P

----------------------------------------------------------------------------
Crash ==
    /\ pc # "down"
    /\ crashes < MaxCrashes
    /\ crashes' = crashes + 1
    /\ pc' = "down"
    /\ resetting' = FALSE
    /\ s' = Nil /\ pub' = Nil
    /\ handler' = Nil
    /\ UNCHANGED <<file, drawn, answers, retired, resets, misreads, failures>>

\* The file may be there from an earlier run, whole, torn or edited.
Init ==
    /\ pc = "down" /\ resetting = FALSE
    /\ s = Nil /\ pub = Nil
    /\ file \in {Absent, Torn} \cup [s : {0}, pub : {Pub(0), Stray}]
    /\ drawn = 0
    /\ handler = Nil /\ answers = {} /\ retired = {}
    /\ crashes = 0 /\ resets = 0 /\ misreads = 0 /\ failures = 0

Boot == Start \/ Stat \/ Load \/ DrawS \/ DrawPub \/ Truncate \/ Write
Serve == Hash \/ Multiply \/ Answer
Next == Boot \/ Serve \/ ResetParams \/ Crash

\* A process that is down is started again, and a running one runs on.
Spec == Init /\ [][Next]_vars
FairSpec == Spec /\ WF_vars(Boot)

----------------------------------------------------------------------------
(* Properties.                                                             *)

Pcs == {"down", "stat", "load", "drawS", "drawPub", "truncate",
        "write", "serving"}
OrNil(T) == T \cup {Nil}

\* The type invariant: in particular nothing but a file that parses is ever
\* taken into memory.
TypeOK ==
    /\ pc \in Pcs /\ resetting \in BOOLEAN
    /\ s \in OrNil(Nat) /\ pub \in OrNil([of : Nat])
    /\ file \in {Absent, Torn} \cup Params
    /\ drawn \in Nat
    /\ handler \in OrNil([H : [of : Nat], s : OrNil(Nat)])
    /\ answers \subseteq [H : [of : Nat], s : Nat, P : [of : Nat]]
    /\ retired \subseteq Nat
    /\ crashes \in 0 .. MaxCrashes /\ resets \in 0 .. MaxResets
    /\ misreads \in 0 .. MaxMisreads /\ failures \in 0 .. MaxFailures

\* Whatever the file held and whenever the process was killed, an entity can
\* verify every answer of the KGC; only an answer computed during a reset
\* may mix two keys, and then verifies under none (kgc.go:353-363).
AnswersVerify == \A a \in answers : Verifies(a) \/ resets > 0

\* The key an entity's y was made with is not lost: it is in the file, or in
\* use, or was replaced by ResetParams.  Two things lose it: a file that could
\* not be read is replaced (kgc.go:104), and a key that ResetParams drew is
\* in use before it is saved (kgc.go:172).
InFile(k) == file \in Params /\ file.s = k
IssuedKeyKept ==
    misreads = 0 /\ (resets = 0 \/ crashes = 0) =>
        \A a \in answers : InFile(a.s) \/ s = a.s \/ a.s \in retired

\* A KGC that is started comes to serve, whatever file an earlier crash in
\* the middle of a write left behind (kgc.go:104).
ComesToServe == <>[](pc = "serving" \/ resetting)
============================================================================
