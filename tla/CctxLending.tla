---------------------------- MODULE CctxLending ----------------------------
(***************************************************************************)
(* What the worker's context cache promises to the body filter, without    *)
(* slots, loan flags or keys: a request is granted a context nobody else   *)
(* owns; a context that is kept for reuse is kept for one parameter set    *)
(* and granted again only for that set; at most Limit contexts are kept    *)
(* idle.  A lease is a pair <<context, parameter set>>.                    *)
(***************************************************************************)
EXTENDS Naturals, FiniteSets

CONSTANTS Requests, Contexts, Profiles, Limit, NULL

VARIABLES
  own,   \* the lease each request holds, or NULL
  pool   \* leases kept idle for reuse

lendVars == <<own, pool>>

Leases == Contexts \X Profiles

Init ==
  /\ own = [r \in Requests |-> NULL]
  /\ pool = {}

\* r gets an idle lease, or a context that is neither owned nor kept.
Grant(r, l) ==
  /\ own[r] = NULL
  /\ \A q \in Requests : own[q] # NULL => own[q][1] # l[1]
  /\ l \in pool \/ \A m \in pool : m[1] # l[1]
  /\ own' = [own EXCEPT ![r] = l]
  /\ pool' = pool \ {l}

\* r's lease ends; the context is kept for the same parameter set, or not.
GiveBack(r) ==
  /\ own[r] # NULL
  /\ own' = [own EXCEPT ![r] = NULL]
  /\ pool' \in {pool, pool \cup {own[r]}}
  /\ Cardinality(pool') <= Limit

\* The worker exits: nothing is kept.
Shutdown ==
  /\ pool' = {}
  /\ UNCHANGED own

Next ==
  \/ \E r \in Requests :
       \/ \E l \in Leases : Grant(r, l)
       \/ GiveBack(r)
  \/ Shutdown

Spec == Init /\ [][Next]_lendVars
=============================================================================
