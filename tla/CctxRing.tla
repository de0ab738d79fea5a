------------------------------ MODULE CctxRing ------------------------------
(***************************************************************************)
(* The per-worker ring of cached zstd compression contexts of              *)
(* ngx_http_zstd_filter_module.c, and the part of a request's life that    *)
(* decides who owns which context: acquire_cctx(), init_cctx(), the        *)
(* compress calls, return_cctx(), the pool cleanup and exit_process().     *)
(*                                                                         *)
(* A worker is single threaded.  `worker' is the request whose body-filter *)
(* callback is running; requests interleave between callbacks only.        *)
(*                                                                         *)
(* A parameter set (level, long mode, effective window log) is an element  *)
(* of Profiles.  Key() is the packed ring key: injective on Cacheable, and *)
(* the one INVALID sentinel for every other parameter set.                 *)
(***************************************************************************)
EXTENDS Naturals, FiniteSets

CONSTANTS
  Requests,      \* request identities (reused after the pool is destroyed)
  Contexts,      \* addresses ZSTD_createCCtx() may return
  Profiles,      \* the memory-affecting parameter sets in use
  Cacheable,     \* those whose fields fit the packed key
  NumSlots,      \* NGX_HTTP_ZSTD_CCTX_SLOTS
  NULL,          \* the null pointer, "no request", "no profile"
  INVALID        \* NGX_HTTP_ZSTD_PROFILE_INVALID

Slots == 1 .. NumSlots

ASSUME SlotsAssumption == NumSlots \in Nat \ {0}
ASSUME CacheableAssumption == Cacheable \subseteq Profiles
ASSUME NullAssumption ==
  /\ NULL \notin Requests \cup Contexts \cup Profiles \cup Slots
  /\ NULL \notin Contexts \X Profiles
  /\ INVALID \notin Profiles \cup {NULL}

VARIABLES
  slots,      \* ngx_http_zstd_worker_cctx_slots: [cctx, profile, busy]
  ctx,        \* ngx_http_zstd_ctx_t per request: [cctx, lender]
  phase,      \* where each request is in its life
  profile,    \* the parameter set the request compresses with
  cleanup,    \* the request's pool cleanup handler is registered
  worker,     \* the request whose callback is running, or NULL
  live,       \* contexts allocated and not freed (libzstd heap)
  params,     \* the request whose current loan set a context's parameters
  session,    \* whose unfinished frame a context holds
  footprint,  \* parameter sets that have grown a context's workspace
  exited,     \* exit_process() has run
  touched     \* a context was used or freed after it had been freed

ringVars == <<slots, ctx>>
reqVars  == <<phase, profile, cleanup, worker>>
libVars  == <<live, params, session, footprint, touched>>
vars     == <<slots, ctx, phase, profile, cleanup, worker,
              live, params, session, footprint, exited, touched>>

Phases == {"free", "idle", "acquired", "streaming", "failing", "finishing",
           "done"}

\* An INVALID key is never stored in a slot.
Slot == [cctx : Contexts \cup {NULL},
         profile : Cacheable \cup {NULL},
         busy : BOOLEAN]

Ctx == [cctx : Contexts \cup {NULL}, lender : Slots \cup {NULL}]

NoCtx     == [cctx |-> NULL, lender |-> NULL]
EmptySlot == [cctx |-> NULL, profile |-> NULL, busy |-> FALSE]

Init ==
  /\ slots = [s \in Slots |-> EmptySlot]
  /\ ctx = [r \in Requests |-> NoCtx]
  /\ phase = [r \in Requests |-> "free"]
  /\ profile = [r \in Requests |-> NULL]
  /\ cleanup = [r \in Requests |-> FALSE]
  /\ worker = NULL
  /\ live = {}
  /\ params = [c \in Contexts |-> NULL]
  /\ session = [c \in Contexts |-> NULL]
  /\ footprint = [c \in Contexts |-> {}]
  /\ exited = FALSE
  /\ touched = FALSE

-----------------------------------------------------------------------------
(* The ring search *)

\* ngx_http_zstd_profile_pack(): the key of a parameter set.
Key(p) == IF p \in Cacheable THEN p ELSE INVALID

\* Mutant: the profile is compared before the loan flag is looked at.
MatchingIgnoresBusy(k) ==
  {s \in Slots : slots[s].cctx # NULL /\ slots[s].profile = k}

\* Mutant: the key comparison is dropped.
MatchingIgnoresProfile(k) ==
  {s \in Slots : ~slots[s].busy /\ slots[s].cctx # NULL}

\* Slots a request with key k may borrow: not on loan, built for k.
Matching(k) ==
  {s \in Slots : /\ ~slots[s].busy
                 /\ slots[s].cctx # NULL
                 /\ slots[s].profile = k}

\* Slots that may be seeded: empty and not on loan.
Seedable == {s \in Slots : ~slots[s].busy /\ slots[s].cctx = NULL}

\* The walk runs from slot 0 upwards and keeps the first hit.
IsFirst(s, S) == s \in S /\ \A t \in S : s <= t

-----------------------------------------------------------------------------
(* libzstd calls, external *)

\* ZSTD_CCtx_reset() or ZSTD_freeCCtx() of c: a fault unless c is allocated.
Touch(c) == touched' = (touched \/ c \notin live)

\* ZSTD_freeCCtx().
Free(c) ==
  /\ Touch(c)
  /\ live' = live \ {c}
  /\ params' = [params EXCEPT ![c] = NULL]
  /\ session' = [session EXCEPT ![c] = NULL]
  /\ footprint' = [footprint EXCEPT ![c] = {}]

\* ZSTD_CCtx_reset(ZSTD_reset_session_only) at the end of a loan: the frame
\* is dropped, the workspace does not shrink, and the parameters left behind
\* are no live request's.
ResetSession(c) ==
  /\ Touch(c)
  /\ session' = [session EXCEPT ![c] = NULL]
  /\ params' = [params EXCEPT ![c] = NULL]
  /\ UNCHANGED <<live, footprint>>

-----------------------------------------------------------------------------
(* A request's life *)

\* The header filter accepted the response and created the module context.
Open(r, p) ==
  /\ ~exited /\ worker = NULL
  /\ phase[r] = "free"
  /\ phase' = [phase EXCEPT ![r] = "idle"]
  /\ profile' = [profile EXCEPT ![r] = p]
  /\ UNCHANGED <<slots, ctx, cleanup, worker, libVars, exited>>

\* nginx calls the body filter of a request that is not done.  (A done
\* request passes straight through; a first call with nothing to do returns
\* before the context is looked at.  Neither changes the state kept here.)
Enter(r) ==
  /\ ~exited /\ worker = NULL
  /\ phase[r] \in {"idle", "streaming"}
  /\ worker' = r
  /\ UNCHANGED <<slots, ctx, phase, profile, cleanup, libVars, exited>>

\* Mutant: the cleanup is left for init_cctx() to register.
RegisterLater(r) == UNCHANGED cleanup

\* ngx_pool_cleanup_add() succeeded: return_cctx() will run with the pool.
Register(r) == cleanup' = [cleanup EXCEPT ![r] = TRUE]

\* acquire_cctx(): no memory for the cleanup record; the ring is untouched.
CleanupFails(r) ==
  /\ worker = r /\ phase[r] = "idle"
  /\ phase' = [phase EXCEPT ![r] = "failing"]
  /\ UNCHANGED <<slots, ctx, profile, cleanup, worker, libVars, exited>>

\* acquire_cctx(): the cleanup is registered, a matching slot is lent.
Borrow(r) ==
  /\ worker = r /\ phase[r] = "idle"
  /\ Register(r)
  /\ \E s \in Slots :
       /\ IsFirst(s, Matching(Key(profile[r])))
       /\ slots' = [slots EXCEPT ![s].busy = TRUE]
       /\ ctx' = [ctx EXCEPT ![r] = [cctx |-> slots[s].cctx, lender |-> s]]
  /\ phase' = [phase EXCEPT ![r] = "acquired"]
  /\ UNCHANGED <<profile, worker, libVars, exited>>

\* acquire_cctx(): nothing matches and ZSTD_createCCtx() returns NULL.
CreateFails(r) ==
  /\ worker = r /\ phase[r] = "idle"
  /\ Matching(Key(profile[r])) = {}
  /\ Register(r)
  /\ phase' = [phase EXCEPT ![r] = "failing"]
  /\ UNCHANGED <<slots, ctx, profile, worker, libVars, exited>>

\* Seeding: the new context becomes the first free slot's, on loan to r.
SeedSlot(r, c) ==
  \E s \in Slots :
    /\ Key(profile[r]) # INVALID
    /\ IsFirst(s, Seedable)
    /\ slots' = [slots EXCEPT ![s] = [cctx    |-> c,
                                      profile |-> Key(profile[r]),
                                      busy    |-> TRUE]]
    /\ ctx' = [ctx EXCEPT ![r] = [cctx |-> c, lender |-> s]]

\* No slot to seed, or a key that must not be cached: r owns c itself.
KeepPrivate(r, c) ==
  /\ Key(profile[r]) = INVALID \/ Seedable = {}
  /\ ctx' = [ctx EXCEPT ![r] = [cctx |-> c, lender |-> NULL]]
  /\ UNCHANGED slots

\* acquire_cctx(): nothing matches; ZSTD_createCCtx() returns c, which seeds
\* a free slot or stays private to the request.
Create(r, c) ==
  /\ worker = r /\ phase[r] = "idle"
  /\ Matching(Key(profile[r])) = {}
  /\ c \notin live
  /\ live' = live \cup {c}
  /\ params' = [params EXCEPT ![c] = NULL]
  /\ session' = [session EXCEPT ![c] = NULL]
  /\ footprint' = [footprint EXCEPT ![c] = {}]
  /\ SeedSlot(r, c) \/ KeepPrivate(r, c)
  /\ Register(r)
  /\ phase' = [phase EXCEPT ![r] = "acquired"]
  /\ UNCHANGED <<profile, worker, exited, touched>>

\* Mutant: a context that has compressed before is taken as configured.
ConfigureOnlyFresh(r) ==
  /\ worker = r /\ phase[r] = "acquired"
  /\ Touch(ctx[r].cctx)
  /\ params' = [params EXCEPT ![ctx[r].cctx] = IF footprint[ctx[r].cctx] = {} THEN r ELSE @]
  /\ session' = [session EXCEPT ![ctx[r].cctx] = NULL]
  /\ phase' = [phase EXCEPT ![r] = "streaming"]
  /\ UNCHANGED <<slots, ctx, profile, cleanup, worker, live, footprint, exited>>

\* init_cctx(): full reset, then every parameter and the dictionary of r.
Configure(r) ==
  /\ worker = r /\ phase[r] = "acquired"
  /\ Touch(ctx[r].cctx)
  /\ params' = [params EXCEPT ![ctx[r].cctx] = r]
  /\ session' = [session EXCEPT ![ctx[r].cctx] = NULL]
  /\ phase' = [phase EXCEPT ![r] = "streaming"]
  /\ UNCHANGED <<slots, ctx, profile, cleanup, worker, live, footprint, exited>>

\* init_cctx(): the reset, a parameter or the dictionary is refused; the
\* context keeps a partial set, which is not r's.
ConfigureFails(r) ==
  /\ worker = r /\ phase[r] = "acquired"
  /\ Touch(ctx[r].cctx)
  /\ phase' = [phase EXCEPT ![r] = "failing"]
  /\ UNCHANGED <<slots, ctx, profile, cleanup, worker, live, params, session,
                 footprint, exited>>

\* A body-filter callback compresses and returns with the frame still open.
\* The first call sizes the workspace for the parameters in force.
Compress(r) ==
  /\ worker = r /\ phase[r] = "streaming"
  /\ Touch(ctx[r].cctx)
  /\ session' = [session EXCEPT ![ctx[r].cctx] = r]
  /\ footprint' = [footprint EXCEPT ![ctx[r].cctx] = @ \cup {profile[r]}]
  /\ worker' = NULL
  /\ UNCHANGED <<slots, ctx, phase, profile, cleanup, live, params, exited>>

\* The call that completes the frame: done is set, the context goes back.
CompressLast(r) ==
  /\ worker = r /\ phase[r] = "streaming"
  /\ Touch(ctx[r].cctx)
  /\ session' = [session EXCEPT ![ctx[r].cctx] = NULL]
  /\ footprint' = [footprint EXCEPT ![ctx[r].cctx] = @ \cup {profile[r]}]
  /\ phase' = [phase EXCEPT ![r] = "finishing"]
  /\ UNCHANGED <<slots, ctx, profile, cleanup, worker, live, params, exited>>

\* A codec, allocation, downstream or max_length error inside a callback,
\* before or after the encoder has advanced.
CompressFails(r) ==
  /\ worker = r /\ phase[r] = "streaming"
  /\ \/ UNCHANGED <<session, footprint, touched>>
     \/ /\ Touch(ctx[r].cctx)
        /\ session' = [session EXCEPT ![ctx[r].cctx] = r]
        /\ footprint' = [footprint EXCEPT ![ctx[r].cctx] = @ \cup {profile[r]}]
  /\ phase' = [phase EXCEPT ![r] = "failing"]
  /\ UNCHANGED <<slots, ctx, profile, cleanup, worker, live, params, exited>>

\* Mutant of return_cctx(): a loan leaves the slot marked busy.
ReturnKeepsBusy(r) ==
  LET c == ctx[r].cctx
      s == ctx[r].lender
  IN  /\ ctx' = [ctx EXCEPT ![r] = NoCtx]
      /\ IF c = NULL THEN UNCHANGED <<slots, libVars>>
         ELSE IF s = NULL
           THEN Free(c) /\ UNCHANGED slots
           ELSE ResetSession(c) /\ UNCHANGED slots

\* Mutant of return_cctx(): a slot emptied by exit_process() is not noticed.
ReturnAfterExitToo(r) ==
  LET c == ctx[r].cctx
      s == ctx[r].lender
  IN  /\ ctx' = [ctx EXCEPT ![r] = NoCtx]
      /\ IF c = NULL THEN UNCHANGED <<slots, libVars>>
         ELSE IF s = NULL
           THEN Free(c) /\ UNCHANGED slots
           ELSE ResetSession(c) /\ slots' = [slots EXCEPT ![s].busy = FALSE]

\* return_cctx(): a loan is reset and its slot freed, unless exit_process()
\* emptied the slot; a private context is freed; no context is a no-op.
ReturnCctx(r) ==
  LET c == ctx[r].cctx
      s == ctx[r].lender
  IN  /\ ctx' = [ctx EXCEPT ![r] = NoCtx]
      /\ \/ /\ c = NULL
            /\ UNCHANGED <<slots, libVars>>
         \/ /\ c # NULL /\ s = NULL
            /\ Free(c)
            /\ UNCHANGED slots
         \/ /\ c # NULL /\ s # NULL
            /\ slots[s].cctx # NULL
            /\ ResetSession(c)
            /\ slots' = [slots EXCEPT ![s].busy = FALSE]
         \/ /\ c # NULL /\ s # NULL
            /\ slots[s].cctx = NULL
            /\ UNCHANGED <<slots, libVars>>

\* The two exits of the body filter that return the context early:
\* ctx->done after the last buffer, and the `failed' label.
Leave(r) ==
  /\ worker = r /\ phase[r] \in {"failing", "finishing"}
  /\ ReturnCctx(r)
  /\ phase' = [phase EXCEPT ![r] = "done"]
  /\ worker' = NULL
  /\ UNCHANGED <<profile, cleanup, exited>>

\* nginx destroys the request pool: the response is complete, or the client
\* went away between two callbacks.  A registered cleanup returns the context.
\* return_cctx() is written to tolerate a pool destroyed after exit_process(),
\* so that order is allowed here too.
DestroyPool(r) ==
  /\ worker = NULL
  /\ phase[r] # "free"
  /\ IF cleanup[r] THEN ReturnCctx(r)
                   ELSE /\ ctx' = [ctx EXCEPT ![r] = NoCtx]
                        /\ UNCHANGED <<slots, libVars>>
  /\ phase' = [phase EXCEPT ![r] = "free"]
  /\ profile' = [profile EXCEPT ![r] = NULL]
  /\ cleanup' = [cleanup EXCEPT ![r] = FALSE]
  /\ UNCHANGED <<worker, exited>>

\* exit_process(): runs between callbacks; every cached context is freed, on loan or not.
ExitProcess ==
  /\ ~exited /\ worker = NULL
  /\ live' = live \ {slots[s].cctx : s \in Slots}
  /\ touched' = (touched \/ \E s \in Slots : /\ slots[s].cctx # NULL
                                             /\ slots[s].cctx \notin live)
  /\ slots' = [s \in Slots |-> [cctx    |-> NULL,
                                profile |-> slots[s].profile,
                                busy    |-> FALSE]]
  /\ exited' = TRUE
  /\ UNCHANGED <<ctx, reqVars, params, session, footprint>>

\* The steps the running callback takes on its own.
Callback(r) ==
  \/ CleanupFails(r)
  \/ Borrow(r)
  \/ CreateFails(r)
  \/ \E c \in Contexts : Create(r, c)
  \/ Configure(r)
  \/ ConfigureFails(r)
  \/ Compress(r)
  \/ CompressLast(r)
  \/ CompressFails(r)
  \/ Leave(r)

Next ==
  \/ \E r \in Requests :
       \/ \E p \in Profiles : Open(r, p)
       \/ Enter(r)
       \/ Callback(r)
       \/ DestroyPool(r)
  \/ ExitProcess

\* A callback runs to its return; every request's pool is destroyed one day
\* (a request that neither completes nor is aborted hits nginx's timeouts).
Fairness ==
  /\ \A r \in Requests : WF_vars(Callback(r))
  /\ \A r \in Requests : SF_vars(DestroyPool(r))

Spec == Init /\ [][Next]_vars
FairSpec == Spec /\ Fairness
-----------------------------------------------------------------------------
(* The inductive invariant *)

\* The ring, the per-request contexts and libzstd's heap are well formed; in
\* particular no slot is ever keyed by the INVALID sentinel.
TypeOK ==
  /\ slots \in [Slots -> Slot]
  /\ ctx \in [Requests -> Ctx]
  /\ phase \in [Requests -> Phases]
  /\ profile \in [Requests -> Profiles \cup {NULL}]
  /\ cleanup \in [Requests -> BOOLEAN]
  /\ worker \in Requests \cup {NULL}
  /\ live \subseteq Contexts
  /\ params \in [Contexts -> Requests \cup {NULL}]
  /\ session \in [Contexts -> Requests \cup {NULL}]
  /\ footprint \in [Contexts -> SUBSET Profiles]
  /\ exited \in BOOLEAN
  /\ touched \in BOOLEAN

\* A request's phase, its context pointers and its cleanup record agree.
Lifecycle ==
  /\ \A r \in Requests :
       /\ phase[r] \in {"free", "idle", "done"} => ctx[r] = NoCtx
       /\ phase[r] \in {"acquired", "streaming", "finishing"} =>
            ctx[r].cctx # NULL
       /\ phase[r] # "free" => profile[r] \in Profiles
       /\ ctx[r].cctx = NULL => ctx[r].lender = NULL
       /\ ctx[r].cctx # NULL => cleanup[r]
  /\ exited => worker = NULL

\* Who owns which context.  After exit_process() the slots are empty and a
\* former loan is a dangling pointer, which is why most of it is about ~exited.
Ownership ==
  /\ \A r, q \in Requests :
       r # q /\ ctx[r].cctx # NULL => ctx[r].cctx # ctx[q].cctx
  /\ \A r \in Requests :
       ctx[r].cctx # NULL /\ ctx[r].lender = NULL => ctx[r].cctx \in live
  /\ exited => \A s \in Slots : slots[s].cctx = NULL
  /\ ~exited =>
       /\ \A s, t \in Slots :
            s # t /\ slots[s].cctx # NULL => slots[s].cctx # slots[t].cctx
       /\ \A s \in Slots :
            /\ slots[s].cctx # NULL => slots[s].cctx \in live
            /\ slots[s].busy => \E r \in Requests : ctx[r].lender = s
       /\ \A r \in Requests, s \in Slots :
            /\ ctx[r].lender = s =>
                 /\ slots[s].busy
                 /\ slots[s].cctx = ctx[r].cctx
                 /\ slots[s].profile = profile[r]
            /\ ctx[r].cctx # NULL /\ ctx[r].lender # s =>
                 ctx[r].cctx # slots[s].cctx

\* What the contexts carry.
Contents ==
  /\ ~touched
  /\ \A s \in Slots :
       slots[s].cctx # NULL =>
         /\ footprint[slots[s].cctx] \subseteq {slots[s].profile}
         /\ ~slots[s].busy => session[slots[s].cctx] = NULL
  /\ \A r \in Requests :
       phase[r] = "streaming" /\ ~exited =>
         /\ params[ctx[r].cctx] = r
         /\ session[ctx[r].cctx] \in {r, NULL}
  /\ ~exited =>
       \A c \in live :
         \/ \E s \in Slots : slots[s].cctx = c
         \/ \E r \in Requests : ctx[r].cctx = c

\* Ownership of every context, its contents and the requests' phases agree.
IInv == TypeOK /\ Lifecycle /\ Ownership /\ Contents

-----------------------------------------------------------------------------
(* Properties *)

\* Two overlapping requests never write into one context: acquire_cctx()
\* skips every busy slot, and busy is cleared only by the borrower.
ExclusiveLoan ==
  \A r, q \in Requests :
    r # q /\ ctx[r].cctx # NULL => ctx[r].cctx # ctx[q].cctx

\* busy is a reliable loan flag while the worker runs: a slot is busy exactly
\* when some request's lender points at it, and that request holds the
\* slot's own context.
BusyMeansLent ==
  ~exited =>
    \A s \in Slots :
      /\ slots[s].busy <=> \E r \in Requests : ctx[r].lender = s
      /\ \A r \in Requests : ctx[r].lender = s => ctx[r].cctx = slots[s].cctx

\* No context is reset, compressed with or freed after it was freed, in any
\* order of early return, pool cleanup and exit_process().
NoUseAfterFree == ~touched

\* While a request streams, its context carries that request's parameters and
\* no other request's unfinished frame: init_cctx()'s full reset makes a
\* carried-over context equivalent to a new one.
OwnParameters ==
  \A r \in Requests :
    phase[r] = "streaming" /\ ~exited =>
      /\ params[ctx[r].cctx] = r
      /\ session[ctx[r].cctx] \in {r, NULL}

\* A cached context has only ever been grown by the parameter set its slot is
\* keyed on, so the retained workspace is the one vetted at config load.
FootprintVetted ==
  \A s \in Slots :
    slots[s].cctx # NULL => footprint[slots[s].cctx] \subseteq {slots[s].profile}

\* Nothing is stranded: while the worker runs, every allocated context is in
\* a slot or held by a request whose pool cleanup will return it.
NoStrandedContext ==
  ~exited =>
    \A c \in live :
      \/ \E s \in Slots : slots[s].cctx = c
      \/ \E r \in Requests : ctx[r].cctx = c /\ cleanup[r]

\* An abandoned frame does not stay resident: return_cctx() resets the
\* session, so an idle cached context holds nobody's compression state.
IdleContextsClean ==
  \A s \in Slots :
    slots[s].cctx # NULL /\ ~slots[s].busy => session[slots[s].cctx] = NULL

\* A seeded slot is never evicted, re-seeded or re-keyed before exit_process().
SlotNeverRebuilt ==
  [][\A s \in Slots :
       slots[s].cctx # NULL /\ ~exited' =>
         /\ slots'[s].cctx = slots[s].cctx
         /\ slots'[s].profile = slots[s].profile]_vars

\* Every loan comes back: completion, error and client abort all clear busy.
LoanReturned == \A s \in Slots : slots[s].busy ~> ~slots[s].busy

\* The slots whose context is cached and not on loan.
Idle == {s \in Slots : slots[s].cctx # NULL /\ ~slots[s].busy}

\* The leases the abstract service sees: held by requests, and kept idle.
HeldLeases == [r \in Requests |->
                 IF ctx[r].cctx = NULL THEN NULL
                                       ELSE <<ctx[r].cctx, profile[r]>>]
IdleLeases == {<<slots[s].cctx, slots[s].profile>> : s \in Idle}

Lending == INSTANCE CctxLending WITH
  Limit <- NumSlots, own <- HeldLeases, pool <- IdleLeases

\* The ring implements the abstract lending service: every grant is of an
\* unowned context, reuse is for the same parameter set only, and at most
\* NumSlots contexts are kept.
LendingRefined == Lending!Spec
=============================================================================
