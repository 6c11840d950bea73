---------------------------- MODULE KeyDirectory ----------------------------
(***************************************************************************)
(* What the registration of kgc_registration/ promises: the KGC issues a   *)
(* key at most once per X, and its directory holds issued keys only, each  *)
(* under the identifier and with the X it was issued for.  Messages,       *)
(* sessions and nonces do not appear.                                      *)
(***************************************************************************)
CONSTANTS UAs,     \* the identifiers of entities
          Free     \* the value of an identifier nothing was published under

VARIABLES issues,  \* the triples of UA, X and Y that were issued
          dir      \* the directory

dirVars == <<issues, dir>>

DirectoryInit == issues = {} /\ dir = [u \in UAs |-> Free]

\* An answer to a request (kgc.go:353).
IssueKey(k) ==
    /\ \A i \in issues : i.X # k.X
    /\ issues' = issues \cup {k}
    /\ UNCHANGED dir

\* An accepted upload (kgc.go:414).
EnterKey(k) ==
    /\ k \in issues
    /\ dir' = [dir EXCEPT ![k.UA] = [X |-> k.X, Y |-> k.Y]]
    /\ UNCHANGED issues

DirectoryNext ==
    \/ \E k \in issues' : IssueKey(k)
    \/ \E k \in issues : EnterKey(k)

DirectorySpec == DirectoryInit /\ [][DirectoryNext]_dirVars
=============================================================================
